--------------------------- MODULE ServicesProofs ---------------------------
(***************************************************************************)
(* Proofs about the services around an order and its customer, each for    *)
(* every value of its constants: the sessions of a user, the invoice of an *)
(* order, and the returns and cancellations of an order.                   *)
(***************************************************************************)
EXTENDS MCServices, SumFacts, TLAPS

-----------------------------------------------------------------------------
(***************************************************************************)
(* RenewedOnce and LogoutIsFinal for any number of requests and sessions.  *)
(***************************************************************************)

(* A token that was exchanged is older than the one its session has now,   *)
(* and the next token a request has signed is not older than the one it    *)
(* was given: the hash of a session only moves on.                         *)
MovedOn ==
    /\ \A s \in SessionIds, i \in Seconds : renewals[s][i] > 0 => session[s].hash > i
    /\ \A s \in SessionIds, i \in Seconds : renewals[s][i] > 0 => session[s].st # "none"
    /\ \A c \in AuthRequests : pending[c].op = "rotate" =>
          pending[c].next >= pending[c].i /\ pending[c].next <= now
    /\ \A s \in SessionIds : session[s].hash <= now

AuthInv == AuthTypeOK /\ RenewedOnce /\ MovedOn

LEMMA AuthInitInv == AuthInit => AuthInv
  BY AuthAssumption DEF AuthInit, AuthInv, AuthTypeOK, RenewedOnce, MovedOn, NoSession,
     Waiting, Pendings, Seconds

LEMMA AuthStep == AuthInv /\ [AuthNext]_authVars => AuthInv'
<1> SUFFICES ASSUME AuthInv, [AuthNext]_authVars PROVE AuthInv'
    OBVIOUS
<1> USE AuthAssumption DEF Seconds
<1>1. ASSUME NEW c \in AuthRequests, Login(c) PROVE AuthInv'
  BY <1>1 DEF Login, Await, Waiting, AuthInv, AuthTypeOK, RenewedOnce, MovedOn, Pendings
<1>2. ASSUME NEW c \in AuthRequests, NEW s \in SessionIds, CreateSession(c, s) PROVE AuthInv'
  <2>0. [st |-> "live", hash |-> now, expires |-> now + Ttl]
          \in [st : {"none", "live", "revoked"}, hash : Seconds, expires : Nat]
    BY DEF AuthInv, AuthTypeOK
  <2>1. AuthTypeOK'
    <3>1. session' \in [SessionIds -> [st : {"none", "live", "revoked"}, hash : Seconds,
                                      expires : Nat]]
      BY <1>2, <2>0 DEF CreateSession, AuthInv, AuthTypeOK
    <3>2. held' \subseteq SessionIds \X Seconds
      BY <1>2 DEF CreateSession, AuthInv, AuthTypeOK
    <3>3. pending' \in [AuthRequests -> Pendings]
      BY <1>2 DEF CreateSession, Await, AuthInv, AuthTypeOK, Pendings
    <3> QED BY <1>2, <3>1, <3>2, <3>3 DEF CreateSession, AuthInv, AuthTypeOK
  <2>2. RenewedOnce' /\ MovedOn'
    BY <1>2 DEF CreateSession, Await, Waiting, AuthInv, AuthTypeOK, RenewedOnce, MovedOn, Pendings
  <2> QED BY <2>1, <2>2 DEF AuthInv
<1>3. ASSUME NEW c \in AuthRequests, NEW s \in SessionIds, NEW i \in Seconds, Refresh(c, s, i)
      PROVE AuthInv'
  <2>1. i <= now
    BY <1>3 DEF Refresh, AuthInv, MovedOn
  <2>2. pending' = [pending EXCEPT ![c] = [op |-> "rotate", s |-> s, i |-> i, next |-> now]]
    BY <1>3 DEF Refresh, Await
  <2>3. [op |-> "rotate", s |-> s, i |-> i, next |-> now] \in Pendings
    BY <1>3 DEF AuthInv, AuthTypeOK, Pendings
  <2>4. AuthTypeOK'
    BY <1>3, <2>2, <2>3 DEF Refresh, AuthInv, AuthTypeOK
  <2>5. RenewedOnce' /\ MovedOn'
    BY <1>3, <2>1, <2>2 DEF Refresh, AuthInv, AuthTypeOK, RenewedOnce, MovedOn
  <2> QED BY <2>4, <2>5 DEF AuthInv
<1>4. ASSUME NEW c \in AuthRequests, Rotate(c) PROVE AuthInv'
  <2> DEFINE s == pending[c].s
             i == pending[c].i
             next == pending[c].next
  <2>1. pending[c] \in [op : {"rotate"}, s : SessionIds, i : Seconds, next : Seconds]
    <3>1. pending[c] \in Pendings /\ pending[c].op = "rotate"
      BY <1>4 DEF Rotate, AuthInv, AuthTypeOK
    <3> QED BY <3>1 DEF Pendings, Waiting
  <2>2. s \in SessionIds /\ i \in Seconds /\ next \in Seconds /\ next >= i
    BY <1>4, <2>1 DEF Rotate, AuthInv, MovedOn
  <2>3. /\ UNCHANGED <<active, now>>
        /\ pending' = [pending EXCEPT ![c] = Waiting]
    BY <1>4 DEF Rotate, Await
  <2>4. CASE StillCurrent(s, i)
    <3>1. /\ session' = [session EXCEPT ![s] =
                            [st |-> session[s].st, hash |-> next, expires |-> now + Ttl]]
          /\ renewals' = IF next = i THEN renewals ELSE [renewals EXCEPT ![s][i] = @ + 1]
          /\ held' \in {held, held \cup {<<s, next>>}}
      BY <1>4, <2>4 DEF Rotate
    <3>2. next <= now
      BY <1>4, <2>1 DEF Rotate, AuthInv, MovedOn
    <3>3. AuthTypeOK'
      <4>1. session' \in [SessionIds -> [st : {"none", "live", "revoked"}, hash : Seconds,
                                        expires : Nat]]
        BY <2>2, <3>1 DEF AuthInv, AuthTypeOK
      <4>2. held' \subseteq SessionIds \X Seconds
        BY <2>2, <3>1 DEF AuthInv, AuthTypeOK
      <4>3. pending' \in [AuthRequests -> Pendings]
        BY <2>3 DEF AuthInv, AuthTypeOK, Pendings
      <4>4. renewals' \in [SessionIds -> [Seconds -> Nat]]
        <5>1. CASE next = i
          BY <3>1, <5>1 DEF AuthInv, AuthTypeOK
        <5>2. CASE next # i
          <6>1. renewals \in [SessionIds -> [Seconds -> Nat]]
            BY DEF AuthInv, AuthTypeOK
          <6>2. renewals[s] \in [Seconds -> Nat]
            BY <2>2, <6>1
          <6>3. renewals[s][i] \in Nat
            <7> HIDE DEF s, i
            <7> QED BY <2>2, <6>2
          <6>4. [renewals[s] EXCEPT ![i] = @ + 1] \in [Seconds -> Nat]
            BY <2>2, <6>2, <6>3, \A n \in Nat : n + 1 \in Nat
          <6> QED BY <2>2, <3>1, <5>2, <6>1, <6>4
        <5> QED BY <5>1, <5>2
      <4> QED BY <2>3, <4>1, <4>2, <4>3, <4>4 DEF AuthInv, AuthTypeOK
    <3>4. renewals[s][i] = 0
      <4>1. renewals[s][i] \in Nat /\ ~(renewals[s][i] > 0)
        BY <2>2, <2>4 DEF StillCurrent, AuthInv, MovedOn, AuthTypeOK
      <4> QED BY <4>1
    <3>5. RenewedOnce'
      <4> SUFFICES ASSUME NEW q \in SessionIds, NEW j \in Seconds PROVE renewals'[q][j] <= 1
        BY DEF RenewedOnce
      <4>1. CASE q = s /\ j = i
        BY <2>2, <3>1, <3>4, <4>1 DEF AuthInv, AuthTypeOK
      <4>2. CASE ~(q = s /\ j = i)
        BY <2>2, <3>1, <4>2 DEF AuthInv, AuthTypeOK, RenewedOnce
      <4> QED BY <4>1, <4>2
    <3>6. MovedOn'
      <4>0. session'[s].hash = next /\ session[s].hash = i
        BY <2>2, <2>4, <3>1 DEF StillCurrent, AuthInv, AuthTypeOK
      <4>1. ASSUME NEW q \in SessionIds
            PROVE  session'[q].hash >= session[q].hash /\ session'[q].hash <= now
        <5>1. CASE q = s
          BY <2>2, <3>2, <4>0, <5>1
        <5>2. CASE q # s
          BY <2>2, <3>1, <5>2 DEF AuthInv, MovedOn, AuthTypeOK
        <5> QED BY <5>1, <5>2
      <4>2. \A q \in SessionIds : session'[q].st = session[q].st
        BY <2>2, <3>1 DEF AuthInv, AuthTypeOK
      <4>3. ASSUME NEW q \in SessionIds, NEW j \in Seconds, renewals'[q][j] > 0
            PROVE  renewals[q][j] > 0 \/ (q = s /\ j = i /\ next > i)
        <5>1. CASE next = i
          BY <3>1, <4>3, <5>1
        <5>2. CASE next # i /\ ~(q = s /\ j = i)
          BY <2>2, <3>1, <4>3, <5>2 DEF AuthInv, AuthTypeOK
        <5>3. CASE next # i /\ q = s /\ j = i
          <6>1. next > i
            <7> HIDE DEF s, i, next
            <7> QED BY <2>2, <5>3
          <6> QED BY <5>3, <6>1, Zenon
        <5> QED BY <5>1, <5>2, <5>3
      <4>4. session'[s].hash = next /\ session[s].st = "live"
        BY <2>2, <2>4, <3>1 DEF StillCurrent, AuthInv, AuthTypeOK
      <4>5. ASSUME NEW q \in SessionIds, NEW j \in Seconds, renewals'[q][j] > 0
            PROVE  session'[q].hash > j /\ session'[q].st # "none"
        <5>1. CASE renewals[q][j] > 0
          <6>1. session[q].hash > j /\ session[q].st # "none" /\ session[q].hash \in Nat
            BY <5>1 DEF AuthInv, MovedOn, AuthTypeOK
          <6>2. session'[q].hash >= session[q].hash
            BY <4>1
          <6>3. session'[q].hash \in Nat
            BY <3>3 DEF AuthTypeOK
          <6> QED BY <4>2, <6>1, <6>2, <6>3
        <5>2. CASE q = s /\ j = i /\ next > i
          BY <2>2, <4>2, <4>4, <5>2
        <5> QED BY <4>3, <4>5, <5>1, <5>2
      <4>6. \A d \in AuthRequests : pending'[d].op = "rotate" =>
               pending'[d].next >= pending'[d].i /\ pending'[d].next <= now
        BY <2>3 DEF AuthInv, MovedOn, AuthTypeOK, Waiting
      <4> QED BY <2>3, <4>1, <4>5, <4>6 DEF MovedOn
    <3> QED BY <3>3, <3>5, <3>6 DEF AuthInv
  <2>5. CASE ~StillCurrent(s, i)
    <3>1. UNCHANGED <<session, held, renewals>>
      BY <1>4, <2>5 DEF Rotate
    <3>2. \A d \in AuthRequests : pending'[d] \in {pending[d], Waiting}
      BY <2>3 DEF AuthInv, AuthTypeOK
    <3>3. AuthTypeOK'
      BY <2>3, <3>1 DEF AuthInv, AuthTypeOK, Pendings
    <3>4. MovedOn'
      BY <2>3, <3>1, <3>2 DEF AuthInv, MovedOn, Waiting
    <3>5. RenewedOnce'
      BY <3>1 DEF AuthInv, RenewedOnce
    <3> QED BY <3>3, <3>4, <3>5 DEF AuthInv
  <2> QED BY <2>4, <2>5
<1>5. ASSUME NEW c \in AuthRequests, NEW s \in SessionIds, NEW i \in Seconds, Logout(c, s, i)
      PROVE AuthInv'
  <2>1. AuthTypeOK'
    <3>1. session' \in [SessionIds -> [st : {"none", "live", "revoked"}, hash : Seconds,
                                      expires : Nat]]
      BY <1>5 DEF Logout, AuthInv, AuthTypeOK
    <3>2. UNCHANGED <<active, held, now, pending, renewals>>
      BY <1>5 DEF Logout
    <3> QED BY <3>1, <3>2 DEF AuthInv, AuthTypeOK, Pendings
  <2>2. \A q \in SessionIds : session'[q].hash = session[q].hash /\
                               (session[q].st # "none" => session'[q].st # "none")
    BY <1>5 DEF Logout, AuthInv, AuthTypeOK
  <2>3. RenewedOnce' /\ MovedOn'
    BY <1>5, <2>2 DEF Logout, AuthInv, RenewedOnce, MovedOn
  <2> QED BY <2>1, <2>3 DEF AuthInv
<1>6. CASE SetActive
  BY <1>6 DEF SetActive, AuthInv, AuthTypeOK, RenewedOnce, MovedOn, Pendings
<1>7. CASE Tick
  <2>1. AuthTypeOK' /\ RenewedOnce'
    BY <1>7 DEF Tick, AuthInv, AuthTypeOK, RenewedOnce, Pendings
  <2>2. MovedOn'
    <3>1. now \in Nat /\ now' = now + 1
      BY <1>7 DEF Tick, AuthInv, AuthTypeOK
    <3>2. \A c \in AuthRequests : pending[c].op = "rotate" => pending[c].next \in Nat
      BY DEF AuthInv, AuthTypeOK, Pendings, Waiting
    <3>3. \A s \in SessionIds : session[s].hash \in Nat
      BY DEF AuthInv, AuthTypeOK
    <3> QED BY <1>7, <3>1, <3>2, <3>3 DEF Tick, AuthInv, MovedOn
  <2> QED BY <2>1, <2>2 DEF AuthInv
<1>8. CASE UNCHANGED authVars
  BY <1>8 DEF authVars, AuthInv, AuthTypeOK, RenewedOnce, MovedOn, Pendings
<1> QED BY <1>1, <1>2, <1>3, <1>4, <1>5, <1>6, <1>7, <1>8 DEF AuthNext

(* Of any number of requests that present a refresh token, at most one     *)
(* exchanges it for another token.                                         *)
THEOREM TokensRotateOnce == AuthSpec => []RenewedOnce
<1>1. AuthInv => RenewedOnce
  BY DEF AuthInv
<1> QED BY <1>1, AuthInitInv, AuthStep, PTL DEF AuthSpec

(* No step changes a session that was logged out.                          *)
THEOREM LoggedOutStays == AuthSpec => LogoutIsFinal
<1>1. ASSUME AuthInv, [AuthNext]_authVars, NEW s \in SessionIds, session[s].st = "revoked"
      PROVE session'[s] = session[s]
  <2>1. ASSUME NEW c \in AuthRequests, NEW q \in SessionIds, CreateSession(c, q)
        PROVE session'[s] = session[s]
    BY <1>1, <2>1 DEF CreateSession, AuthInv, AuthTypeOK
  <2>2. ASSUME NEW c \in AuthRequests, Rotate(c) PROVE session'[s] = session[s]
    BY <1>1, <2>2 DEF Rotate, StillCurrent, AuthInv, AuthTypeOK
  <2>3. ASSUME NEW c \in AuthRequests, NEW q \in SessionIds, NEW i \in Seconds, Logout(c, q, i)
        PROVE session'[s] = session[s]
    BY <1>1, <2>3 DEF Logout, AuthInv, AuthTypeOK
  <2> QED BY <1>1, <2>1, <2>2, <2>3 DEF AuthNext, authVars, Login, Refresh, SetActive, Tick
<1>2. AuthInv /\ [AuthNext]_authVars
        => [\A s \in SessionIds : session[s].st = "revoked" => session'[s] = session[s]]_authVars
  BY <1>1
<1> QED BY <1>2, AuthInitInv, AuthStep, PTL DEF AuthSpec, LogoutIsFinal

-----------------------------------------------------------------------------
(***************************************************************************)
(* For any number of requests served at once, no automation takes goods    *)
(* from stock for an order that was never invoiced.                        *)
(***************************************************************************)

(* Steps that only follow an answer of iFirma, or an invoice read as issued. *)
Afterwards == {"record", "mail", "sent", "rule", "draft", "scan", "confirm",
                "refresh", "wz"}

(* What makes GoodsAfterInvoice inductive: whoever is past the call, and   *)
(* whatever the row says, iFirma did issue an invoice.                     *)
BilledBefore ==
    /\ everIssued \in BOOLEAN /\ goodsFirst = FALSE
    /\ task \in [InvoiceHandlers -> Tasks]
    /\ Issued(bill) => everIssued = TRUE
    /\ \A h \in InvoiceHandlers : task[h].pc \in Afterwards => everIssued = TRUE

LEMMA BilledAtFirst == InvoicingInit => BilledBefore
<1> SUFFICES ASSUME InvoicingInit PROVE BilledBefore OBVIOUS
<1>1. task = [h \in InvoiceHandlers |-> [pc |-> "idle", then |-> "end"]]
  BY DEF InvoicingInit, NoTask
<1>2. task \in [InvoiceHandlers -> Tasks]
  BY <1>1 DEF Tasks, Steps
<1>3. \A h \in InvoiceHandlers : task[h].pc \notin Afterwards
  BY <1>1 DEF Afterwards
<1>4. everIssued = FALSE /\ goodsFirst = FALSE /\ ~Issued(bill)
  BY DEF InvoicingInit, Issued
<1> QED BY <1>2, <1>3, <1>4 DEF BilledBefore

(* A step of one request, which leaves the others where they are. *)
LEMMA TaskMoves ==
    ASSUME BilledBefore, NEW h \in InvoiceHandlers, NEW pc \in Steps,
           NEW then \in {"end", "stop", "wz"}, Do(h, pc, then)
    PROVE  /\ task' \in [InvoiceHandlers -> Tasks]
           /\ task'[h].pc = pc
           /\ \A g \in InvoiceHandlers \ {h} : task'[g] = task[g]
BY DEF BilledBefore, Do, Tasks

LEMMA TaskEnds ==
    ASSUME BilledBefore, NEW h \in InvoiceHandlers, Finish(h)
    PROVE  /\ task' \in [InvoiceHandlers -> Tasks]
           /\ task'[h].pc = "idle"
           /\ \A g \in InvoiceHandlers \ {h} : task'[g] = task[g]
BY DEF BilledBefore, Finish, NoTask, Tasks, Steps

(* A step that takes its request to a place it may reach keeps the         *)
(* invariant if it issues an invoice, or leaves rows and goods alone.      *)
LEMMA BilledStays ==
    ASSUME BilledBefore, NEW h \in InvoiceHandlers, NEW pc \in Steps,
           NEW then \in {"end", "stop", "wz"},
           Finish(h) \/ Do(h, pc, then),
           everIssued' \in {everIssued, TRUE}, goodsFirst' = goodsFirst,
           Issued(bill)' => everIssued' = TRUE,
           pc \in Afterwards => everIssued' = TRUE
    PROVE  BilledBefore'
<1>1. /\ task' \in [InvoiceHandlers -> Tasks]
      /\ task'[h].pc \in Afterwards => everIssued' = TRUE
      /\ \A g \in InvoiceHandlers \ {h} : task'[g] = task[g]
  BY TaskMoves, TaskEnds DEF Afterwards
<1>2. \A g \in InvoiceHandlers : task'[g].pc \in Afterwards => everIssued' = TRUE
  BY <1>1 DEF BilledBefore
<1> QED BY <1>1, <1>2 DEF BilledBefore

LEMMA RequestsKeepBilled ==
    ASSUME BilledBefore, NEW h \in InvoiceHandlers,
           IssueInvoice(h) \/ ParcelSent(h) \/ RetryInvoice(h) \/ CancelInvoice(h)
    PROVE  BilledBefore'
<1>1. UNCHANGED <<bill, goodsFirst, everIssued>>
  BY DEF IssueInvoice, ParcelSent, RetryInvoice, CancelInvoice, Received, stock, outside
<1>2. PICK pc \in {"create", "reset", "afterShipment", "withdraw"}, then \in {"end", "stop", "wz"} :
        Finish(h) \/ Do(h, pc, then)
  BY DEF IssueInvoice, ParcelSent, RetryInvoice, CancelInvoice
<1>3. pc \in Steps /\ pc \notin Afterwards
  BY DEF Steps, Afterwards
<1>4. Issued(bill)' => everIssued' = TRUE
  BY <1>1 DEF BilledBefore, Issued
<1> QED BY <1>1, <1>2, <1>3, <1>4, BilledStays

(* What a request has still to do is one of three things. *)
LEMMA ThenTyped ==
    ASSUME BilledBefore, NEW h \in InvoiceHandlers
    PROVE  task[h].then \in {"end", "stop", "wz"} /\ AfterRule(task[h].then) \in {"refresh", "idle"}
BY DEF BilledBefore, Tasks, AfterRule

(* Before iFirma is called. *)
LEMMA PreparationKeepsBilled ==
    ASSUME BilledBefore, NEW h \in InvoiceHandlers,
           AfterShipment(h) \/ LoadBill(h) \/ Withdraw(h) \/ PrepareInvoice(h)
    PROVE  BilledBefore'
<1>1. UNCHANGED <<goodsFirst, everIssued>>
  BY DEF AfterShipment, LoadBill, Withdraw, PrepareInvoice, stock, outside
<1>2. Issued(bill)' => everIssued' = TRUE
  <2>1. bill' = bill \/ bill' \in {"CANCELLED", "PENDING"}
    BY DEF AfterShipment, LoadBill, Withdraw, PrepareInvoice
  <2> QED BY <1>1, <2>1 DEF BilledBefore, Issued
<1>3. CASE AfterShipment(h) /\ Issued(bill)
  <2>1. Finish(h) \/ Do(h, "wz", "wz")
    BY <1>3 DEF AfterShipment
  <2>2. everIssued' = TRUE
    BY <1>1, <1>3 DEF BilledBefore
  <2> QED BY <1>1, <1>2, <2>1, <2>2, BilledStays DEF Steps
<1>4. CASE ~(AfterShipment(h) /\ Issued(bill))
  <2>1. PICK pc \in {"load", "create", "reset", "call"}, then \in {"end", "stop", "wz"} :
          Finish(h) \/ Do(h, pc, then)
    BY <1>4, ThenTyped DEF AfterShipment, LoadBill, Withdraw, PrepareInvoice
  <2>2. pc \in Steps /\ pc \notin Afterwards
    BY DEF Steps, Afterwards
  <2> QED BY <1>1, <1>2, <2>1, <2>2, BilledStays
<1> QED BY <1>3, <1>4

LEMMA CallKeepsBilled ==
    ASSUME BilledBefore, NEW h \in InvoiceHandlers,
           CallFirma(h) \/ RecordIssued(h) \/ RecordFailed(h)
    PROVE  BilledBefore'
<1>1. CASE CallFirma(h)
  <2>1. UNCHANGED <<bill, goodsFirst>> /\ everIssued' \in {everIssued, TRUE}
    BY <1>1 DEF CallFirma, stock
  <2>2. \/ everIssued' = TRUE /\ Do(h, "record", task[h].then)
        \/ Do(h, "fail", task[h].then)
    BY <1>1 DEF CallFirma
  <2>3. Issued(bill)' => everIssued' = TRUE
    BY <2>1 DEF BilledBefore, Issued
  <2>4. "record" \in Steps /\ "fail" \in Steps /\ "fail" \notin Afterwards
    BY DEF Steps, Afterwards
  <2> QED BY <2>1, <2>2, <2>3, <2>4, ThenTyped, BilledStays
<1>2. CASE RecordIssued(h)
  <2>1. UNCHANGED <<goodsFirst, everIssued>> /\ everIssued = TRUE
    BY <1>2 DEF RecordIssued, stock, outside, BilledBefore, Afterwards
  <2>2. Finish(h) \/ Do(h, "mail", task[h].then)
    BY <1>2 DEF RecordIssued
  <2> QED BY <2>1, <2>2, ThenTyped, BilledStays DEF Steps
<1>3. CASE RecordFailed(h)
  <2>1. UNCHANGED <<goodsFirst, everIssued>> /\ ~Issued(bill)'
    BY <1>3 DEF RecordFailed, stock, outside, Issued
  <2>2. Finish(h)
    BY <1>3 DEF RecordFailed, AfterFailure
  <2> QED BY <2>1, <2>2, BilledStays DEF Steps, Afterwards
<1> QED BY <1>1, <1>2, <1>3

(* After it: everyone who gets here knows of an invoice. *)
LEMMA AftermathKeepsBilled ==
    ASSUME BilledBefore, NEW h \in InvoiceHandlers,
           \/ MailInvoice(h) \/ RecordSent(h) \/ ReadBack(h) \/ ReserveRule(h) \/ FindDraft(h)
           \/ CheckScans(h) \/ ConfirmGoods(h) \/ EnsureWz(h)
    PROVE  BilledBefore'
<1>1. everIssued = TRUE /\ everIssued' = everIssued
  <2>1. task[h].pc \in Afterwards
    BY DEF MailInvoice, RecordSent, ReadBack, ReserveRule, FindDraft, CheckScans, ConfirmGoods,
           EnsureWz, Afterwards
  <2>2. everIssued' = everIssued
    BY DEF MailInvoice, RecordSent, ReadBack, ReserveRule, FindDraft, CheckScans, ConfirmGoods,
           EnsureWz, outside
  <2> QED BY <2>1, <2>2 DEF BilledBefore
<1>2. goodsFirst' = goodsFirst
  BY <1>1 DEF MailInvoice, RecordSent, ReadBack, ReserveRule, FindDraft, CheckScans, ConfirmGoods,
           EnsureWz, stock, BilledBefore
<1>3. PICK pc \in {"sent", "rule", "draft", "scan", "confirm", "refresh", "wz", "idle"},
           then \in {"end", "stop", "wz"} :
        Finish(h) \/ Do(h, pc, then)
  BY ThenTyped
  DEF MailInvoice, RecordSent, ReadBack, ReserveRule, FindDraft, CheckScans, ConfirmGoods,
           EnsureWz
<1>4. pc \in Steps
  BY DEF Steps
<1> QED BY <1>1, <1>2, <1>3, <1>4, BilledStays

LEMMA OthersKeepBilled ==
    ASSUME BilledBefore,
           (\E h \in InvoiceHandlers : BillingDies(h)) \/ WarehouseWorks \/ UNCHANGED billVars
    PROVE  BilledBefore'
<1>1. CASE \E h \in InvoiceHandlers : BillingDies(h)
  <2>1. PICK h \in InvoiceHandlers : BillingDies(h)
    BY <1>1
  <2>2. Finish(h) /\ UNCHANGED <<bill, goodsFirst, everIssued>>
    BY <2>1 DEF BillingDies, stock
  <2>3. Issued(bill)' => everIssued' = TRUE
    BY <2>2 DEF BilledBefore, Issued
  <2> QED BY <2>2, <2>3, BilledStays DEF Steps, Afterwards
<1>2. CASE WarehouseWorks \/ UNCHANGED billVars
  <2>1. UNCHANGED <<bill, task, goodsFirst, everIssued>>
    BY <1>2 DEF WarehouseWorks, billVars, outside
  <2> QED BY <2>1 DEF BilledBefore, Issued
<1> QED BY <1>1, <1>2

LEMMA BilledIsInductive == BilledBefore /\ [InvoicingNext]_billVars => BilledBefore'
<1> SUFFICES ASSUME BilledBefore, [InvoicingNext]_billVars PROVE BilledBefore' OBVIOUS
<1>1. ASSUME NEW h \in InvoiceHandlers, BillingStep(h) PROVE BilledBefore'
  BY <1>1, PreparationKeepsBilled, CallKeepsBilled, AftermathKeepsBilled DEF BillingStep
<1> QED BY <1>1, RequestsKeepBilled, OthersKeepBilled DEF InvoicingNext

(* order-shipment-invoice.service.ts: a failed invoice does not take goods *)
(* from stock.  For any number of requests served at once, whatever fails, *)
(* is repeated, cancelled or interrupted, an automation closes the WZ only *)
(* of an order that iFirma issued an invoice for.                          *)
THEOREM InvoiceBeforeGoods == InvoicingSpec => []GoodsAfterInvoice
<1>1. BilledBefore => GoodsAfterInvoice
  BY DEF BilledBefore, GoodsAfterInvoice
<1> QED BY <1>1, BilledAtFirst, BilledIsInductive, PTL DEF InvoicingSpec

-----------------------------------------------------------------------------
(***************************************************************************)
(* Types, and InvoicedOnce: as long as one request is served after         *)
(* another, the row and iFirma agree.                                      *)
(***************************************************************************)

(* Statements that come before the row is ISSUED. *)
BeforeIssued == {"create", "reset", "call", "record", "fail"}

(* What a request that is at the statement pc relies on. *)
AgreesAt(pc) ==
    /\ pc = "record" => inFirma = 1
    /\ pc # "record" => inFirma = IF Issued(bill) THEN 1 ELSE 0
    /\ pc \in BeforeIssued => ~Issued(bill)
    /\ pc = "sent" => Issued(bill)

Recording == \E h \in InvoiceHandlers : task[h].pc = "record"
OneServed == \A g, h \in InvoiceHandlers : task[g] # NoTask /\ task[h] # NoTask => g = h

(* iFirma holds one invoice that the panel was told of while the row is    *)
(* ISSUED or SENT, and just before.                                        *)
RowAgrees ==
    /\ inFirma = IF Recording \/ Issued(bill) THEN 1 ELSE 0
    /\ \A h \in InvoiceHandlers : AgreesAt(task[h].pc) \/ task[h] = NoTask

Agreement == ~raced => OneServed /\ RowAgrees
BillInv == InvoicingTypeOK /\ Agreement

LEMMA BillInvAtFirst == InvoicingInit => BillInv
<1> SUFFICES ASSUME InvoicingInit PROVE BillInv OBVIOUS
<1>1. task \in [InvoiceHandlers -> Tasks] /\ \A h \in InvoiceHandlers : task[h] = NoTask
  BY DEF InvoicingInit, NoTask, Tasks, Steps
<1>2. ~Recording
  BY <1>1 DEF Recording, NoTask
<1>3. InvoicingTypeOK
  <2>1. ruleRan = FALSE /\ scanned = FALSE /\ goodsFirst = FALSE /\ everIssued = FALSE /\ raced = FALSE
    BY DEF InvoicingInit
  <2>2. {ruleRan, scanned, goodsFirst, everIssued, raced} \subseteq BOOLEAN
    BY <2>1
  <2> QED BY <1>1, <2>2 DEF InvoicingInit, InvoicingTypeOK
<1>4. inFirma = 0 /\ ~Issued(bill)
  BY DEF InvoicingInit, Issued
<1> QED BY <1>1, <1>2, <1>3, <1>4 DEF BillInv, Agreement, OneServed, RowAgrees

(* A request is served alone, unless requests race. *)
LEMMA ServedAlone ==
    ASSUME BillInv, ~raced, NEW h \in InvoiceHandlers, task[h] # NoTask
    PROVE  /\ \A g \in InvoiceHandlers \ {h} : task[g] = NoTask
           /\ AgreesAt(task[h].pc)
BY DEF BillInv, Agreement, OneServed, RowAgrees

LEMMA ServedNobody ==
    ASSUME BillInv, ~raced, \A g \in InvoiceHandlers : task[g] = NoTask
    PROVE  inFirma = IF Issued(bill) THEN 1 ELSE 0
<1>1. ~Recording
  BY DEF Recording, NoTask
<1> QED BY <1>1 DEF BillInv, Agreement, RowAgrees

(* The step of a request that is served alone keeps the agreement, if the  *)
(* place it goes to may rely on what it leaves.                            *)
LEMMA AgreementStays ==
    ASSUME BillInv, NEW h \in InvoiceHandlers, NEW pc \in Steps,
           NEW then \in {"end", "stop", "wz"},
           \A g \in InvoiceHandlers \ {h} : task[g] = NoTask,
           (Finish(h) /\ pc = "idle") \/ Do(h, pc, then),
           AgreesAt(pc)'
    PROVE  OneServed' /\ RowAgrees'
<1>1. /\ task'[h].pc = pc
      /\ \A g \in InvoiceHandlers \ {h} : task'[g] = NoTask
  BY DEF BillInv, InvoicingTypeOK, Finish, Do, NoTask
<1>2. OneServed'
  BY <1>1 DEF OneServed
<1>3. Recording' <=> pc = "record"
  BY <1>1 DEF Recording, NoTask
<1>4. inFirma' = IF Recording' \/ Issued(bill)' THEN 1 ELSE 0
  BY <1>3 DEF AgreesAt, BeforeIssued
<1>5. \A g \in InvoiceHandlers : AgreesAt(task[g].pc)' \/ task'[g] = NoTask
  BY <1>1
<1> QED BY <1>2, <1>4, <1>5 DEF RowAgrees

(* The types of a step's new values. *)
LEMMA TaskTyped ==
    ASSUME InvoicingTypeOK, NEW h \in InvoiceHandlers, NEW pc \in Steps,
           NEW then \in {"end", "stop", "wz"}, Finish(h) \/ Do(h, pc, then)
    PROVE  task' \in [InvoiceHandlers -> Tasks]
BY DEF InvoicingTypeOK, Finish, Do, Tasks, NoTask, Steps

LEMMA ThenIs ==
    ASSUME InvoicingTypeOK, NEW h \in InvoiceHandlers
    PROVE  /\ task[h].then \in {"end", "stop", "wz"}
           /\ AfterRule(task[h].then) \in {"refresh", "idle"}
BY DEF InvoicingTypeOK, Tasks, AfterRule

(* Types stay, whatever is raced. *)
BillStates == {"none", "PENDING", "ISSUED", "SENT", "FAILED", "CANCELLED"}
LEMMA FlagsTyped ==
    InvoicingTypeOK => /\ ruleRan \in BOOLEAN /\ scanned \in BOOLEAN /\ goodsFirst \in BOOLEAN
                       /\ everIssued \in BOOLEAN /\ raced \in BOOLEAN
BY DEF InvoicingTypeOK

LEMMA BillStaysTyped ==
    ASSUME bill' \in BillStates, goods' \in {"none", "DRAFT", "CONFIRMED"},
           ruleRan' \in BOOLEAN, scanned' \in BOOLEAN, goodsFirst' \in BOOLEAN,
           everIssued' \in BOOLEAN, raced' \in BOOLEAN,
           task' \in [InvoiceHandlers -> Tasks], inFirma' \in Int
    PROVE  InvoicingTypeOK'
<1>1. {ruleRan', scanned', goodsFirst', everIssued', raced'} \subseteq BOOLEAN
  OBVIOUS
<1> QED BY <1>1 DEF InvoicingTypeOK, BillStates

(* The step of a request: what becomes of the row, of iFirma and of the    *)
(* goods is typed, and it goes to a place that may rely on it.             *)
LEMMA BillStepStays ==
    ASSUME BillInv, NEW h \in InvoiceHandlers, task[h] # NoTask, NEW pc \in Steps,
           NEW then \in {"end", "stop", "wz"},
           (Finish(h) /\ pc = "idle") \/ Do(h, pc, then),
           bill' \in BillStates, goods' \in {"none", "DRAFT", "CONFIRMED"},
           ruleRan' \in BOOLEAN, scanned' \in BOOLEAN, goodsFirst' \in BOOLEAN,
           everIssued' \in BOOLEAN, inFirma' \in Int, raced' = raced,
           AgreesAt(task[h].pc) => AgreesAt(pc)'
    PROVE  BillInv'
<1>1. task' \in [InvoiceHandlers -> Tasks] /\ raced' \in BOOLEAN
  BY TaskTyped, FlagsTyped DEF BillInv
<1>2. InvoicingTypeOK'
  BY <1>1, BillStaysTyped
<1>3. ASSUME ~raced PROVE OneServed' /\ RowAgrees'
  BY <1>3, ServedAlone, AgreementStays
<1> QED BY <1>2, <1>3 DEF BillInv, Agreement

LEMMA RequestsKeepBill ==
    ASSUME BillInv, NEW h \in InvoiceHandlers,
           IssueInvoice(h) \/ ParcelSent(h) \/ RetryInvoice(h) \/ CancelInvoice(h)
    PROVE  BillInv'
<1>1. /\ task[h] = NoTask
      /\ raced' = (raced \/ \E g \in InvoiceHandlers : task[g] # NoTask)
      /\ UNCHANGED <<bill, ruleRan, goods, scanned, goodsFirst, everIssued, inFirma>>
  BY DEF IssueInvoice, ParcelSent, RetryInvoice, CancelInvoice, Received, stock, outside
<1>2. PICK pc \in {"idle", "create", "reset", "afterShipment", "withdraw"},
           then \in {"end", "stop", "wz"} :
        /\ (Finish(h) /\ pc = "idle") \/ Do(h, pc, then)
        /\ pc \in {"create", "reset"} => ~Issued(bill)
  BY DEF IssueInvoice, ParcelSent, RetryInvoice, CancelInvoice
<1>3. pc \in Steps
  BY DEF Steps
<1>4. task' \in [InvoiceHandlers -> Tasks] /\ raced' \in BOOLEAN
  BY <1>1, <1>2, <1>3, TaskTyped DEF BillInv
<1>5. InvoicingTypeOK'
  BY <1>1, <1>4, BillStaysTyped, FlagsTyped DEF BillInv, InvoicingTypeOK, BillStates
<1>6. ASSUME ~raced' PROVE OneServed' /\ RowAgrees'
  <2>1. ~raced /\ \A g \in InvoiceHandlers : task[g] = NoTask
    BY <1>1, <1>6
  <2>2. AgreesAt(pc)'
    BY <1>1, <1>2, <2>1, ServedNobody DEF AgreesAt, BeforeIssued, Issued
  <2> QED BY <1>2, <1>3, <2>1, <2>2, AgreementStays
<1> QED BY <1>5, <1>6 DEF BillInv, Agreement

(* A statement that only reads, or that writes what no other step of the   *)
(* agreement is about. *)
LEMMA ReadingKeepsBill ==
    ASSUME BillInv, NEW h \in InvoiceHandlers, task[h] # NoTask, NEW pc \in Steps,
           NEW then \in {"end", "stop", "wz"},
           (Finish(h) /\ pc = "idle") \/ Do(h, pc, then),
           task[h].pc # "record", pc # "record",
           UNCHANGED <<bill, inFirma, raced, everIssued>>,
           ruleRan' \in BOOLEAN, goods' \in {"none", "DRAFT", "CONFIRMED"},
           scanned' \in BOOLEAN, goodsFirst' \in BOOLEAN,
           pc \in BeforeIssued => ~Issued(bill) \/ task[h].pc \in BeforeIssued,
           pc = "sent" => Issued(bill)
    PROVE  BillInv'
<1>1. AgreesAt(task[h].pc) => AgreesAt(pc)'
  BY DEF AgreesAt, Issued
<1>2. bill' \in BillStates /\ inFirma' \in Int /\ everIssued' \in BOOLEAN
  BY FlagsTyped DEF BillInv, InvoicingTypeOK, BillStates
<1> QED BY <1>1, <1>2, BillStepStays

LEMMA AskingKeepsBill ==
    ASSUME BillInv, NEW h \in InvoiceHandlers,
           \/ AfterShipment(h) \/ LoadBill(h) \/ MailInvoice(h) \/ ReadBack(h) \/ ReserveRule(h)
           \/ FindDraft(h) \/ CheckScans(h) \/ ConfirmGoods(h) \/ EnsureWz(h)
    PROVE  BillInv'
<1>1. task[h] # NoTask /\ task[h].pc # "record" /\ UNCHANGED <<bill, inFirma, raced, everIssued>>
  BY DEF AfterShipment, LoadBill, MailInvoice, ReadBack, ReserveRule, FindDraft, CheckScans,
         ConfirmGoods, EnsureWz, NoTask, outside, counted
<1>2. PICK pc \in {"idle", "wz", "load", "create", "reset", "sent", "rule", "draft", "scan",
                   "confirm", "refresh"},
           then \in {"end", "stop", "wz"} :
        /\ (Finish(h) /\ pc = "idle") \/ Do(h, pc, then)
        /\ pc \in {"create", "reset"} => ~Issued(bill)
        /\ pc = "sent" => Issued(bill)
  BY ThenIs DEF AfterShipment, LoadBill, MailInvoice, ReadBack, ReserveRule, FindDraft, CheckScans,
         ConfirmGoods, EnsureWz, BillInv
<1>3. pc \in Steps
  BY DEF Steps
<1>4. ruleRan' \in BOOLEAN /\ scanned' \in BOOLEAN
  BY FlagsTyped DEF AfterShipment, LoadBill, MailInvoice, ReadBack, ReserveRule, FindDraft,
         CheckScans, ConfirmGoods, EnsureWz, BillInv, stock
<1>5. goods' \in {"none", "DRAFT", "CONFIRMED"}
  BY DEF AfterShipment, LoadBill, MailInvoice, ReadBack, ReserveRule, FindDraft,
         CheckScans, ConfirmGoods, EnsureWz, BillInv, InvoicingTypeOK, stock
<1>6. goodsFirst' \in BOOLEAN
  BY FlagsTyped DEF AfterShipment, LoadBill, MailInvoice, ReadBack, ReserveRule, FindDraft,
         CheckScans, ConfirmGoods, EnsureWz, BillInv, stock
<1> QED BY <1>1, <1>2, <1>3, <1>4, <1>5, <1>6, ReadingKeepsBill DEF BeforeIssued

LEMMA WritingKeepsBill ==
    ASSUME BillInv, NEW h \in InvoiceHandlers,
           \/ Withdraw(h) \/ PrepareInvoice(h) \/ CallFirma(h) \/ RecordIssued(h)
           \/ RecordFailed(h) \/ RecordSent(h)
    PROVE  BillInv'
<1>1. task[h] # NoTask /\ UNCHANGED <<goods, ruleRan, scanned, goodsFirst, raced>>
  <2>1. task[h].pc # "idle"
    BY DEF Withdraw, PrepareInvoice, CallFirma, RecordIssued, RecordFailed, RecordSent
  <2>2. UNCHANGED <<goods, scanned, goodsFirst>>
    BY DEF Withdraw, PrepareInvoice, CallFirma, RecordIssued, RecordFailed, RecordSent, stock
  <2>3. UNCHANGED <<ruleRan, raced>>
    BY DEF Withdraw, PrepareInvoice, CallFirma, RecordIssued, RecordFailed, RecordSent, counted
  <2> QED BY <2>1, <2>2, <2>3 DEF NoTask
<1>2. /\ ruleRan' \in BOOLEAN /\ scanned' \in BOOLEAN /\ goodsFirst' \in BOOLEAN
      /\ goods' \in {"none", "DRAFT", "CONFIRMED"}
  BY <1>1, FlagsTyped DEF BillInv, InvoicingTypeOK
<1>3. everIssued' \in BOOLEAN
  BY FlagsTyped DEF Withdraw, PrepareInvoice, CallFirma, RecordIssued, RecordFailed, RecordSent,
         outside, BillInv
<1>4. bill' \in BillStates /\ inFirma' \in Int
  <2>1. bill' \in BillStates
    BY DEF Withdraw, PrepareInvoice, CallFirma, RecordIssued, RecordFailed, RecordSent,
           BillInv, InvoicingTypeOK, BillStates
  <2>2. inFirma' = inFirma \/ inFirma' = inFirma - 1 \/ inFirma' = inFirma + 1
    BY DEF Withdraw, PrepareInvoice, CallFirma, RecordIssued, RecordFailed, RecordSent, outside
  <2> QED BY <2>1, <2>2 DEF BillInv, InvoicingTypeOK
<1>5. task[h].then \in {"end", "stop", "wz"}
  BY ThenIs DEF BillInv
<1>6. CASE Withdraw(h)
  <2>1. Finish(h) /\ (AgreesAt(task[h].pc) => AgreesAt("idle")')
    BY <1>6 DEF Withdraw, AgreesAt, BeforeIssued, Issued
  <2> QED BY <1>1, <1>2, <1>3, <1>4, <2>1, BillStepStays DEF Steps
<1>7. CASE PrepareInvoice(h)
  <2>1. CASE Finish(h)
    <3>1. AgreesAt(task[h].pc) => AgreesAt("idle")'
      BY <1>7, <2>1 DEF PrepareInvoice, AgreesAt, BeforeIssued, Issued, outside
    <3> QED BY <1>1, <1>2, <1>3, <1>4, <2>1, <3>1, BillStepStays DEF Steps
  <2>2. CASE bill' = "PENDING" /\ Do(h, "call", task[h].then)
    <3>1. AgreesAt(task[h].pc) => AgreesAt("call")'
      BY <1>7, <2>2 DEF PrepareInvoice, AgreesAt, BeforeIssued, Issued, outside
    <3> QED BY <1>1, <1>2, <1>3, <1>4, <1>5, <2>2, <3>1, BillStepStays DEF Steps
  <2> QED BY <1>7, <2>1, <2>2 DEF PrepareInvoice
<1>8. CASE CallFirma(h)
  <2>1. CASE inFirma' = inFirma + 1 /\ Do(h, "record", task[h].then)
    <3>1. AgreesAt(task[h].pc) => AgreesAt("record")'
      BY <1>8, <2>1 DEF CallFirma, AgreesAt, BeforeIssued, Issued
    <3> QED BY <1>1, <1>2, <1>3, <1>4, <1>5, <2>1, <3>1, BillStepStays DEF Steps
  <2>2. CASE UNCHANGED inFirma /\ Do(h, "fail", task[h].then)
    <3>1. AgreesAt(task[h].pc) => AgreesAt("fail")'
      BY <1>8, <2>2 DEF CallFirma, AgreesAt, BeforeIssued, Issued
    <3> QED BY <1>1, <1>2, <1>3, <1>4, <1>5, <2>2, <3>1, BillStepStays DEF Steps
  <2> QED BY <1>8, <2>1, <2>2 DEF CallFirma
<1>9. CASE RecordIssued(h)
  <2>1. PICK pc \in {"idle", "mail"} :
          (Finish(h) /\ pc = "idle") \/ Do(h, pc, task[h].then)
    BY <1>9 DEF RecordIssued
  <2>2. AgreesAt(task[h].pc) => AgreesAt(pc)'
    BY <1>9 DEF RecordIssued, AgreesAt, BeforeIssued, Issued, outside
  <2> QED BY <1>1, <1>2, <1>3, <1>4, <1>5, <2>1, <2>2, BillStepStays DEF Steps
<1>10. CASE RecordFailed(h)
  <2>1. Finish(h)
    BY <1>10 DEF RecordFailed, AfterFailure
  <2>2. AgreesAt(task[h].pc) => AgreesAt("idle")'
    BY <1>10 DEF RecordFailed, AgreesAt, BeforeIssued, Issued, outside
  <2> QED BY <1>1, <1>2, <1>3, <1>4, <2>1, <2>2, BillStepStays DEF Steps
<1>11. CASE RecordSent(h)
  <2>1. Do(h, "rule", task[h].then) /\ (AgreesAt(task[h].pc) => AgreesAt("rule")')
    BY <1>11 DEF RecordSent, AgreesAt, BeforeIssued, Issued, outside
  <2> QED BY <1>1, <1>2, <1>3, <1>4, <1>5, <2>1, BillStepStays DEF Steps
<1> QED BY <1>6, <1>7, <1>8, <1>9, <1>10, <1>11

LEMMA OthersKeepBill ==
    ASSUME BillInv,
           (\E h \in InvoiceHandlers : BillingDies(h)) \/ WarehouseWorks \/ UNCHANGED billVars
    PROVE  BillInv'
<1>1. ASSUME NEW h \in InvoiceHandlers, BillingDies(h) PROVE BillInv'
  <2>1. /\ task[h] # NoTask /\ Finish(h)
        /\ UNCHANGED <<bill, ruleRan, goods, scanned, goodsFirst, everIssued, raced>>
    BY <1>1 DEF BillingDies, stock, counted
  <2>2. AgreesAt(task[h].pc) => AgreesAt("idle")'
    BY <1>1 DEF BillingDies, AgreesAt, BeforeIssued, Issued
  <2>3. inFirma' \in Int
    BY <1>1 DEF BillingDies, BillInv, InvoicingTypeOK
  <2>4. /\ bill' \in BillStates /\ goods' \in {"none", "DRAFT", "CONFIRMED"}
        /\ ruleRan' \in BOOLEAN /\ scanned' \in BOOLEAN /\ goodsFirst' \in BOOLEAN
        /\ everIssued' \in BOOLEAN
    BY <2>1, FlagsTyped DEF BillInv, InvoicingTypeOK, BillStates
  <2> QED BY <2>1, <2>2, <2>3, <2>4, BillStepStays DEF Steps
<1>2. CASE WarehouseWorks \/ UNCHANGED billVars
  <2>1. UNCHANGED <<bill, ruleRan, task, goodsFirst, inFirma, everIssued, raced>>
    BY <1>2 DEF WarehouseWorks, billVars, outside, counted
  <2>2. goods' \in {"none", "DRAFT", "CONFIRMED"} /\ scanned' \in BOOLEAN
    BY <1>2, FlagsTyped DEF WarehouseWorks, billVars, BillInv, InvoicingTypeOK
  <2>3. InvoicingTypeOK'
    BY <2>1, <2>2, FlagsTyped, BillStaysTyped DEF BillInv, InvoicingTypeOK, BillStates
  <2> QED BY <2>1, <2>3 DEF BillInv, Agreement, OneServed, RowAgrees, Recording, AgreesAt, Issued
<1> QED BY <1>1, <1>2

LEMMA BillIsInductive == BillInv /\ [InvoicingNext]_billVars => BillInv'
<1> SUFFICES ASSUME BillInv, [InvoicingNext]_billVars PROVE BillInv' OBVIOUS
<1>1. ASSUME NEW h \in InvoiceHandlers, BillingStep(h) PROVE BillInv'
  BY <1>1, AskingKeepsBill, WritingKeepsBill DEF BillingStep
<1> QED BY <1>1, RequestsKeepBill, OthersKeepBill DEF InvoicingNext

(* issueOrderInvoice: "Faktura dla tego zamowienia zostala juz             *)
(* wystawiona".  For any number of requests served one after another,      *)
(* failures, crashes, repetitions and cancellations, iFirma holds at most  *)
(* one invoice the panel knows of, and one exactly when the row says so.   *)
THEOREM InvoiceIsOne == InvoicingSpec => []InvoicedOnce
<1>1. BillInv => InvoicedOnce
  BY DEF BillInv, Agreement, RowAgrees, Recording, InvoicedOnce
<1> QED BY <1>1, BillInvAtFirst, BillIsInductive, PTL DEF InvoicingSpec

(* The rows and requests of the invoice stay in their domains, whatever is *)
(* raced.                                                                  *)
THEOREM InvoicingTypes == InvoicingSpec => []InvoicingTypeOK
<1>1. BillInv => InvoicingTypeOK
  BY DEF BillInv
<1> QED BY <1>1, BillInvAtFirst, BillIsInductive, PTL DEF InvoicingSpec

-----------------------------------------------------------------------------
(***************************************************************************)
(* Returns and cancellations, one request at a time.                       *)
(***************************************************************************)

(* One request is served at a time. *)
OneReturnRequest == \E h : ReturnHandlers = {h}

(* What an execution has told iFirma and the shop. *)
CorrectionTold(row) == row.opt.correct /\ invoice => row.correction = "ISSUED"
SlipTold(row) == row.opt.slip /\ row.qty > 0 => row.slip

(* Nothing of the order is out any more. *)
OrderEmptied == ~reserved /\ wz = "CANCELLED"

(* A row of a return, with the ZW it names and the WZ of its order. *)
RowFits(r, row) ==
    /\ row.st = "FREE" => row = NoReturn
    /\ row.zw # 0 => row.type = "RETURN" /\ row.opt.restock
    /\ row.zw # 0 => zwDocs[row.zw].ret = r /\ zwDocs[row.zw].st # "FREE"
    /\ row.st = "CANCELLED" => row.type = "RETURN" /\ row.correction # "ISSUED" /\ ~row.slip
    /\ row.st = "CANCELLED" /\ row.zw # 0 => zwDocs[row.zw].st = "CANCELLED"
    /\ row.st = "COMPLETED" => CorrectionTold(row) /\ SlipTold(row)
    /\ row.st = "COMPLETED" /\ row.type = "CANCELLATION" => OrderEmptied
    /\ row.st \notin {"FREE", "CANCELLED"} /\ wz # "CONFIRMED" => row.zw = 0

(* A ZW belongs to a return; one that is confirmed is the one it names. *)
DocFits(d) ==
    /\ zwDocs[d].st # "FREE" => zwDocs[d].ret \in ReturnIds
    /\ zwDocs[d].st = "CONFIRMED" => returns[zwDocs[d].ret].zw = d

(* What iFirma and the shop were told of an operation is what its row      *)
(* says, but for what a request is about to record.                        *)
Awaits(s, pc, r) == s.pc = pc /\ s.r = r
Counted(r, row, x, s) ==
    /\ x.corrections - x.lostCorrections =
         IF row.correction = "ISSUED" \/ Awaits(s, "recordCorrection", r) THEN 1 ELSE 0
    /\ x.slips - x.lostSlips = IF row.slip \/ Awaits(s, "recordSlip", r) THEN 1 ELSE 0

(* The statements of an execution: before and after the warehouse's part,  *)
(* after iFirma's, after the shop's.                                       *)
ToldAll == {"final", "complete"}
ToldFirma == {"presta", "slip", "recordSlip", "history", "notRefunded"} \cup ToldAll
Emptied == {"ifirma", "issue", "recordCorrection", "recordIssued", "notIssued"} \cup ToldFirma
Executing == {"warehouse", "cancelWz", "link", "confirm", "failed"} \cup Emptied

(* What a request relies on at its next statement. *)
ExecutionFits(s, row) ==
    /\ s.r \in ReturnIds /\ row.st = "PENDING"
    /\ s.pc = "cancelWz" => /\ row.type = "CANCELLATION" /\ ~reserved
                            /\ \A q \in ReturnIds : Active(q) => returns[q].zw = 0
    /\ s.pc = "link" => /\ row.type = "RETURN" /\ row.opt.restock /\ row.zw = 0
                        /\ wz = "CONFIRMED" /\ s.d \in ZwIds
                        /\ zwDocs[s.d] = [ret |-> s.r, st |-> "DRAFT"]
    /\ s.pc = "confirm" => row.type = "RETURN" /\ wz = "CONFIRMED"
    /\ s.pc \in Emptied /\ row.type = "CANCELLATION" => OrderEmptied
    /\ s.pc \in {"issue", "recordCorrection", "notIssued"} => row.correction # "ISSUED"
    /\ s.pc = "recordIssued" => row.correction = "ISSUED"
    /\ s.pc \in ToldFirma => CorrectionTold(row)
    /\ s.pc \in {"slip", "recordSlip"} => ~row.slip
    /\ s.pc \in {"history"} \cup ToldAll => SlipTold(row)
DeletionFits(s, row) ==
    /\ s = [pc |-> s.pc, r |-> s.r, row |-> s.row, zwSt |-> s.zwSt]
    /\ s.r \in ReturnIds /\ row.st \notin {"FREE", "CANCELLED"} /\ row.type = "RETURN"
    /\ NoExternalEffects(row) /\ s.row \in ReturnRows
    /\ s.zwSt \in {"null", "DRAFT", "CONFIRMED", "CANCELLED"}
    /\ s.zwSt \in {"CONFIRMED", "CANCELLED"} => s.row.zw # 0 /\ row.zw = s.row.zw
    /\ s.zwSt = "CANCELLED" => zwDocs[s.row.zw].st = "CANCELLED"
    /\ s.zwSt = "null" => row.zw = 0
    /\ s.pc = "undo" /\ s.zwSt = "DRAFT" => s.row.zw # 0 /\ row.zw = s.row.zw
    /\ s.pc = "cancelRow" /\ s.zwSt = "CONFIRMED" => zwDocs[s.row.zw].st = "CANCELLED"
    /\ s.pc = "cancelRow" /\ s.zwSt = "DRAFT" => row.zw = 0
SagaFits(s) ==
    /\ s.pc \in {"idle", "create", "begin", "undo", "cancelRow", "refresh"} \cup Executing
    /\ s.pc = "create" => /\ s.type \in {"RETURN", "CANCELLATION"} /\ s.opt \in ReturnOptions
                          /\ s.qty \in 0..Ordered /\ s.qty <= Available
    /\ s.pc = "begin" => s.r \in ReturnIds /\ Retriable(s.r)
    /\ s.pc \in Executing => ExecutionFits(s, returns[s.r])
    /\ s.pc \in {"undo", "cancelRow"} => DeletionFits(s, returns[s.r])

ReturnsInv(h) ==
    /\ ReturnsTypeOK
    /\ DOMAIN saga = ReturnHandlers
    /\ \A r \in ReturnIds : RowFits(r, returns[r]) /\ Counted(r, returns[r], ext[r], saga[h])
    /\ \A d \in ZwIds : DocFits(d)
    /\ Returned <= Ordered
    /\ SagaFits(saga[h])

(* A request is done with, or goes on. *)
Goes(h, s) == saga' = [saga EXCEPT ![h] = s]
AboutToRecord == {"recordCorrection", "recordSlip"}

LEMMA SagaGoes ==
    ASSUME NEW h, ReturnHandlers = {h}, DOMAIN saga = ReturnHandlers, NEW s, Goes(h, s)
    PROVE  saga'[h] = s /\ DOMAIN saga' = ReturnHandlers
BY DEF Goes

LEMMA RowTyped ==
    ASSUME ReturnsTypeOK, NEW r \in ReturnIds
    PROVE  returns[r] \in ReturnRows
BY DEF ReturnsTypeOK

(* A request that records nothing leaves the counts alone. *)
LEMMA CountedElsewhere ==
    ASSUME NEW r, NEW row, NEW x, NEW s, NEW t, Counted(r, row, x, s),
           s.pc \in AboutToRecord => s.r # r, t.pc \in AboutToRecord => t.r # r
    PROVE  Counted(r, row, x, t)
BY DEF Counted, Awaits, AboutToRecord

(* A step that changes nothing but what a request does next.               *)
LEMMA SagaStep ==
    ASSUME NEW h, ReturnHandlers = {h}, ReturnsInv(h), NEW s, Goes(h, s), SagaFits(s),
           UNCHANGED <<returns, zwDocs, wz, reserved, invoice, ext>>,
           operational' \in {"PROCESSING", "CANCELLED", "RETURNED", "PARTIALLY_RETURNED"},
           faults' \in 0..MaxReturnFaults,
           saga[h].pc \notin AboutToRecord, s.pc \notin AboutToRecord
    PROVE  ReturnsInv(h)'
<1>1. saga'[h] = s /\ DOMAIN saga' = ReturnHandlers
  BY SagaGoes DEF ReturnsInv
<1>2. ReturnsTypeOK'
  BY DEF ReturnsInv, ReturnsTypeOK
<1>3. \A r \in ReturnIds : RowFits(r, returns[r])'
  BY DEF ReturnsInv, RowFits, CorrectionTold, SlipTold, OrderEmptied
<1>4. \A r \in ReturnIds : Counted(r, returns[r], ext[r], saga[h])'
  <2> SUFFICES ASSUME NEW r \in ReturnIds PROVE Counted(r, returns[r], ext[r], saga[h])'
    OBVIOUS
  <2>1. Counted(r, returns[r], ext[r], s)
    BY CountedElsewhere DEF ReturnsInv
  <2> QED BY <1>1, <2>1 DEF Counted, Awaits
<1>5. \A d \in ZwIds : DocFits(d)'
  BY DEF ReturnsInv, DocFits
<1>6. Returned' <= Ordered
  BY DEF ReturnsInv, Returned, SumOf, Active
<1>7. SagaFits(saga[h])'
  BY <1>1 DEF SagaFits, ExecutionFits, DeletionFits, CorrectionTold, SlipTold, OrderEmptied,
              NoExternalEffects, Retriable, Available, Returned, SumOf, Active
<1> QED BY <1>1, <1>2, <1>3, <1>4, <1>5, <1>6, <1>7 DEF ReturnsInv

-----------------------------------------------------------------------------
(* Pieces *)

LEMMA PiecesTyped ==
    ASSUME ReturnsTypeOK
    PROVE  /\ \A r \in ReturnIds : returns[r].qty \in Nat
           /\ \A S \in SUBSET ReturnIds : IsFiniteSet(S) /\ SumOf(S) \in Nat
<1>1. \A r \in ReturnIds : returns[r].qty \in Nat
  BY ReturnsAssumption DEF ReturnsTypeOK, ReturnRows
<1> DEFINE f == [r \in ReturnIds |-> returns[r].qty]
<1>2. ASSUME NEW S \in SUBSET ReturnIds PROVE IsFiniteSet(S) /\ SumOf(S) \in Nat
  <2>1. IsFiniteSet(S)
    BY FS_Subset, ReturnsAssumption
  <2>2. \A x \in S : f[x] \in Nat
    BY <1>1
  <2> HIDE DEF f
  <2>3. SumFunctionOnSet(f, S) \in Nat
    BY <2>1, <2>2, SumNatural
  <2> QED BY <2>1, <2>3 DEF SumOf, f
<1> QED BY <1>1, <1>2

(* A row that counts no pieces that its old one did not. *)
LEMMA PiecesStay ==
    ASSUME ReturnsTypeOK, NEW r \in ReturnIds, NEW row, Set(r, row), row.qty = returns[r].qty,
           row.st \notin {"FREE", "CANCELLED"} => Active(r)
    PROVE  Returned' <= Returned /\ Returned \in Nat /\ Returned' \in Nat
<1> DEFINE f == [q \in ReturnIds |-> returns[q].qty]
           g == [q \in ReturnIds |-> returns'[q].qty]
           A == {q \in ReturnIds : Active(q)}
           B == {q \in ReturnIds : Active(q)'}
<1>1. \A q \in ReturnIds : returns'[q] = IF q = r THEN row ELSE returns[q]
  BY DEF Set, ReturnsTypeOK
<1>2. B \subseteq A
  BY <1>1 DEF Active
<1>3. f = g
  BY <1>1
<1>4. IsFiniteSet(A) /\ \A x \in A : f[x] \in Nat
  BY PiecesTyped
<1>5. Returned = SumFunctionOnSet(f, A) /\ Returned' = SumFunctionOnSet(g, B)
  BY DEF Returned, SumOf
<1> HIDE DEF f, g, A, B
<1>6. IsFiniteSet(B) /\ \A x \in B : f[x] \in Nat
  BY <1>2, <1>4, FS_Subset
<1>7. Returned \in Nat /\ Returned' \in Nat
  BY <1>3, <1>4, <1>5, <1>6, SumNatural
<1> QED BY <1>2, <1>3, <1>4, <1>5, <1>7, SumPart

(* A row that begins to count. *)
LEMMA PiecesGrow ==
    ASSUME ReturnsTypeOK, NEW r \in ReturnIds, NEW row, Set(r, row), ~Active(r), row.qty \in Nat,
           row.st \notin {"FREE", "CANCELLED"}
    PROVE  Returned' = Returned + row.qty
<1> DEFINE f == [q \in ReturnIds |-> returns[q].qty]
           g == [q \in ReturnIds |-> returns'[q].qty]
           A == {q \in ReturnIds : Active(q)}
           B == {q \in ReturnIds : Active(q)'}
<1>1. \A q \in ReturnIds : returns'[q] = IF q = r THEN row ELSE returns[q]
  BY DEF Set, ReturnsTypeOK
<1>2. B = A \cup {r} /\ r \notin A
  BY <1>1 DEF Active
<1>3. g[r] = row.qty /\ \A q \in A : g[q] = f[q]
  BY <1>1, <1>2
<1>4. IsFiniteSet(A) /\ \A x \in A : f[x] \in Nat
  BY PiecesTyped
<1>5. Returned = SumFunctionOnSet(f, A) /\ Returned' = SumFunctionOnSet(g, B)
  BY DEF Returned, SumOf
<1> HIDE DEF f, g, A, B
<1>6. \A y \in A \cup {r} : g[y] \in Int
  BY <1>3, <1>4
<1>7. SumFunctionOnSet(g, A \cup {r}) = g[r] + SumFunctionOnSet(g, A)
  BY <1>2, <1>4, <1>6, SumAdd
<1>8. SumFunctionOnSet(g, A) = SumFunctionOnSet(f, A)
  BY <1>3, <1>4, SumEqual
<1>9. SumFunctionOnSet(f, A) \in Nat
  BY <1>4, SumNatural
<1> QED BY <1>2, <1>3, <1>5, <1>7, <1>8, <1>9

-----------------------------------------------------------------------------
(* A step that writes one row *)

LEMMA RowStep ==
    ASSUME NEW h, ReturnHandlers = {h}, ReturnsInv(h), NEW s, Goes(h, s),
           NEW r \in ReturnIds, NEW row \in ReturnRows, Set(r, row), RowFits(r, row),
           returns[r].zw # 0 => row.zw = returns[r].zw,
           Counted(r, row, ext[r], s),
           saga[h].pc \in AboutToRecord => saga[h].r = r, s.pc \in AboutToRecord => s.r = r,
           UNCHANGED <<zwDocs, wz, reserved, invoice, ext, operational>>,
           faults' \in 0..MaxReturnFaults,
           Returned' <= Ordered, SagaFits(s)'
    PROVE  ReturnsInv(h)'
<1>1. saga'[h] = s /\ DOMAIN saga' = ReturnHandlers
  BY SagaGoes DEF ReturnsInv
<1>2. \A q \in ReturnIds : returns'[q] = IF q = r THEN row ELSE returns[q]
  BY DEF Set, ReturnsInv, ReturnsTypeOK
<1>3. ReturnsTypeOK'
  <2>1. returns' \in [ReturnIds -> ReturnRows]
    BY DEF Set, ReturnsInv, ReturnsTypeOK
  <2>2. \A q \in ReturnIds : returns'[q].zw # 0 => zwDocs'[returns'[q].zw].ret = q
    BY <1>2 DEF RowFits, ReturnsInv, ReturnsTypeOK
  <2> QED BY <2>1, <2>2 DEF ReturnsInv, ReturnsTypeOK
<1>4. \A q \in ReturnIds : RowFits(q, returns[q])'
  BY <1>2 DEF ReturnsInv, RowFits, CorrectionTold, SlipTold, OrderEmptied
<1>5. \A q \in ReturnIds : Counted(q, returns[q], ext[q], saga[h])'
  <2> SUFFICES ASSUME NEW q \in ReturnIds PROVE Counted(q, returns[q], ext[q], saga[h])'
    OBVIOUS
  <2>1. CASE q = r
    BY <1>1, <1>2, <2>1 DEF Counted, Awaits
  <2>2. CASE q # r
    <3>1. Counted(q, returns[q], ext[q], s)
      BY <2>2, CountedElsewhere DEF ReturnsInv
    <3> QED BY <1>1, <1>2, <2>2, <3>1 DEF Counted, Awaits
  <2> QED BY <2>1, <2>2
<1>6. \A d \in ZwIds : DocFits(d)'
  <2> SUFFICES ASSUME NEW d \in ZwIds PROVE DocFits(d)'
    OBVIOUS
  <2>1. DocFits(d) /\ d # 0
    BY ReturnsAssumption DEF ReturnsInv
  <2> QED BY <1>2, <2>1 DEF DocFits
<1>7. SagaFits(saga[h])'
  BY <1>1 DEF SagaFits, ExecutionFits, DeletionFits, Retriable
<1> QED BY <1>1, <1>3, <1>4, <1>5, <1>6, <1>7 DEF ReturnsInv

(* The next statement of an execution. *)
LEMMA ExecutionGoesOn ==
    ASSUME NEW r \in ReturnIds, NEW row, NEW pc \in Executing \ {"cancelWz", "link"},
           returns'[r] = row, ExecutionFits(At(pc, r), row),
           UNCHANGED <<zwDocs, wz, reserved, invoice>>
    PROVE  SagaFits(At(pc, r))'
BY DEF SagaFits, ExecutionFits, At, CorrectionTold, SlipTold, OrderEmptied, Executing, Emptied, ToldFirma, ToldAll

LEMMA RestFits == SagaFits(Resting) /\ SagaFits(Resting)'
BY DEF SagaFits, Resting, Executing, Emptied, ToldFirma, ToldAll

(* A row that is executed may change all but what it is about. *)
LEMMA RowFitsOn ==
    ASSUME NEW r, NEW old, NEW row, RowFits(r, old), old.st \in {"PENDING", "FAILED"},
           row.st \in {"PENDING", "FAILED"}, row.zw = old.zw, row.type = old.type, row.opt = old.opt
    PROVE  RowFits(r, row)
BY DEF RowFits

(* The statements of an execution that write its row. *)
LEMMA ExecutionStep ==
    ASSUME NEW h, ReturnHandlers = {h}, ReturnsInv(h), saga[h].pc \in Executing \cup {"begin"},
           NEW r, r = saga[h].r, NEW row \in ReturnRows, Set(r, row),
           RowFits(r, row), row.zw = returns[r].zw, row.qty = returns[r].qty,
           NEW s, Goes(h, s),
           \/ s = Resting
           \/ \E pc \in Executing \ {"cancelWz", "link"} : s = At(pc, r) /\ ExecutionFits(s, row),
           Counted(r, row, ext[r], s),
           UNCHANGED <<zwDocs, wz, reserved, invoice, ext, operational>>,
           faults' \in 0..MaxReturnFaults
    PROVE  ReturnsInv(h)'
<1>1. r \in ReturnIds /\ returns[r].st \in {"PENDING", "FAILED"}
  BY RowTyped DEF ReturnsInv, SagaFits, ExecutionFits, Retriable, ReturnRows
<1>2. Returned' <= Ordered
  <2>1. Returned' <= Returned /\ Returned \in Nat /\ Returned' \in Nat
    BY <1>1, PiecesStay DEF ReturnsInv, Active
  <2> QED BY <2>1, ReturnsAssumption DEF ReturnsInv
<1>3. returns'[r] = row
  BY <1>1 DEF Set, ReturnsInv, ReturnsTypeOK
<1>4. SagaFits(s)' /\ (s.pc \in AboutToRecord => s.r = r)
  <2>1. CASE s = Resting
    BY <2>1, RestFits DEF Resting, AboutToRecord
  <2>2. CASE \E pc \in Executing \ {"cancelWz", "link"} : s = At(pc, r) /\ ExecutionFits(s, row)
    BY <1>1, <1>3, <2>2, ExecutionGoesOn DEF At
  <2> QED BY <2>1, <2>2
<1> QED BY <1>1, <1>2, <1>4, RowStep

LEMMA ThenGoes ==
    ASSUME NEW h, ReturnHandlers = {h}, DOMAIN saga = ReturnHandlers, NEW pc
    PROVE  /\ Then(h, pc) => Goes(h, At(pc, saga[h].r))
           /\ Rest(h) => Goes(h, Resting)
BY DEF Then, Rest, Goes

(* What a request in an execution knows of its row. *)
LEMMA ExecutedRow ==
    ASSUME NEW h, ReturnHandlers = {h}, ReturnsInv(h), saga[h].pc \in Executing \cup {"begin"},
           NEW r, r = saga[h].r
    PROVE  /\ r \in ReturnIds /\ returns[r] \in ReturnRows
           /\ returns[r].st \in {"PENDING", "FAILED"}
           /\ saga[h].pc # "begin" => ExecutionFits(saga[h], returns[r])
           /\ RowFits(r, returns[r]) /\ Counted(r, returns[r], ext[r], saga[h])
           /\ faults \in 0..MaxReturnFaults
BY RowTyped DEF ReturnsInv, SagaFits, ExecutionFits, Retriable, ReturnRows, ReturnsTypeOK

LEMMA BeginningKeepsReturns ==
    ASSUME NEW h, ReturnHandlers = {h}, ReturnsInv(h), BeginExecution(h) \/ FailExecution(h)
    PROVE  ReturnsInv(h)'
<1>1. PICK r : r = saga[h].r
  OBVIOUS
<1>2. saga[h].pc \in Executing \cup {"begin"} /\ saga[h].pc \notin AboutToRecord
  BY DEF BeginExecution, FailExecution, In, Executing, AboutToRecord
<1>3. PICK old : old = returns[r]
  OBVIOUS
<1>4. /\ r \in ReturnIds /\ old \in ReturnRows /\ old.st \in {"PENDING", "FAILED"}
      /\ RowFits(r, old) /\ Counted(r, old, ext[r], saga[h])
  BY <1>1, <1>2, <1>3, ExecutedRow
<1>5. UNCHANGED <<zwDocs, wz, reserved, invoice, ext, operational, faults>>
  BY DEF BeginExecution, FailExecution, warehouseVars
<1>6. faults' \in 0..MaxReturnFaults
  BY <1>1, <1>2, <1>5, ExecutedRow
<1>7. CASE BeginExecution(h)
  <2>1. PICK row : row = [old EXCEPT !.st = "PENDING"]
    OBVIOUS
  <2>2. Set(r, row) /\ Goes(h, At("warehouse", r))
    BY <1>1, <1>3, <1>7, <2>1, ThenGoes DEF BeginExecution, ReturnsInv
  <2>3. /\ row \in ReturnRows /\ row.zw = old.zw /\ row.qty = old.qty /\ row.st = "PENDING"
        /\ row.correction = old.correction /\ row.slip = old.slip
        /\ row.type = old.type /\ row.opt = old.opt
    BY <1>4, <2>1 DEF ReturnRows
  <2>4. RowFits(r, row)
    BY <1>4, <2>3, RowFitsOn
  <2>5. Counted(r, row, ext[r], At("warehouse", r))
    BY <1>2, <1>4, <2>3 DEF Counted, Awaits, At, AboutToRecord
  <2>6. ExecutionFits(At("warehouse", r), row)
    BY <1>4, <2>3 DEF ExecutionFits, At, Emptied, ToldFirma, ToldAll
  <2>7. "warehouse" \in Executing \ {"cancelWz", "link"}
    BY DEF Executing
  <2> QED BY <1>1, <1>2, <1>3, <1>5, <1>6, <2>2, <2>3, <2>4, <2>5, <2>6, <2>7, ExecutionStep
<1>8. CASE FailExecution(h)
  <2>1. PICK row : row = [old EXCEPT !.st = "FAILED"]
    OBVIOUS
  <2>2. Set(r, row) /\ Goes(h, Resting)
    BY <1>1, <1>3, <1>8, <2>1, ThenGoes DEF FailExecution, ReturnsInv
  <2>3. /\ row \in ReturnRows /\ row.zw = old.zw /\ row.qty = old.qty /\ row.st = "FAILED"
        /\ row.correction = old.correction /\ row.slip = old.slip
        /\ row.type = old.type /\ row.opt = old.opt
    BY <1>4, <2>1 DEF ReturnRows
  <2>4. RowFits(r, row)
    BY <1>4, <2>3, RowFitsOn
  <2>5. Counted(r, row, ext[r], Resting)
    BY <1>2, <1>4, <2>3 DEF Counted, Awaits, Resting, AboutToRecord
  <2> QED BY <1>1, <1>2, <1>3, <1>5, <1>6, <2>2, <2>3, <2>4, <2>5, ExecutionStep
<1> QED BY <1>7, <1>8

(* The statements of an execution that write correction, ifirma, slip and  *)
(* presta of its row. *)
LEMMA AnswerStep ==
    ASSUME NEW h, ReturnHandlers = {h}, ReturnsInv(h), saga[h].pc \in Executing,
           NEW r, r = saga[h].r, NEW row \in ReturnRows, Set(r, row),
           row.st = "PENDING", row.zw = returns[r].zw, row.type = returns[r].type,
           row.opt = returns[r].opt, row.qty = returns[r].qty,
           NEW pc \in Emptied \cup {"failed"}, Then(h, pc),
           ExecutionFits(At(pc, r), row), Counted(r, row, ext[r], At(pc, r)),
           UNCHANGED <<zwDocs, wz, reserved, invoice, ext, operational>>,
           faults' \in 0..MaxReturnFaults
    PROVE  ReturnsInv(h)'
<1>1. RowFits(r, row)
  BY ExecutedRow, RowFitsOn
<1>2. pc \in Executing \ {"cancelWz", "link"}
  BY DEF Executing, Emptied, ToldFirma, ToldAll
<1>3. Goes(h, At(pc, r))
  BY ThenGoes DEF ReturnsInv
<1> QED BY <1>1, <1>2, <1>3, ExecutionStep

LEMMA IfirmaKeepsReturns ==
    ASSUME NEW h, ReturnHandlers = {h}, ReturnsInv(h), Ifirma(h)
    PROVE  ReturnsInv(h)'
<1>1. PICK r : r = saga[h].r
  OBVIOUS
<1>2. saga[h].pc = "ifirma" /\ saga[h].pc \in Executing /\ saga[h].pc \in Emptied
  BY DEF Ifirma, In, Executing, Emptied
<1>3. PICK old : old = returns[r]
  OBVIOUS
<1>4. /\ r \in ReturnIds /\ old \in ReturnRows
      /\ ExecutionFits(saga[h], old) /\ Counted(r, old, ext[r], saga[h])
  BY <1>1, <1>2, <1>3, ExecutedRow
<1>5. UNCHANGED <<zwDocs, wz, reserved, invoice, ext, operational, faults>>
  BY DEF Ifirma, warehouseVars
<1>6. faults' \in 0..MaxReturnFaults
  BY <1>1, <1>2, <1>5, ExecutedRow
<1>7. old.st = "PENDING" /\ (old.type = "CANCELLATION" => OrderEmptied)
  BY <1>2, <1>4 DEF ExecutionFits
<1>8. CASE (~old.opt.correct \/ ~invoice) /\ Set(r, [old EXCEPT !.ifirma = "SKIPPED"]) /\ Then(h, "presta")
  <2>1. PICK row : row = [old EXCEPT !.ifirma = "SKIPPED"]
    OBVIOUS
  <2>2. /\ row \in ReturnRows /\ row.zw = old.zw /\ row.qty = old.qty /\ row.st = old.st
        /\ row.correction = old.correction /\ row.slip = old.slip
        /\ row.type = old.type /\ row.opt = old.opt
    BY <1>4, <2>1 DEF ReturnRows, Statuses
  <2>3. Counted(r, row, ext[r], At("presta", r))
    BY <1>2, <1>4, <2>2 DEF Counted, Awaits, At
  <2>4. ExecutionFits(At("presta", r), row)
    BY <1>4, <1>7, <1>8, <2>2 DEF ExecutionFits, At, Emptied, ToldFirma, ToldAll, CorrectionTold
  <2>5. "presta" \in Emptied
    BY DEF Emptied, ToldFirma
  <2> QED BY <1>1, <1>2, <1>3, <1>5, <1>6, <1>7, <1>8, <2>1, <2>2, <2>3, <2>4, <2>5, AnswerStep
<1>9. CASE Corrected(old) /\ Set(r, [old EXCEPT !.ifirma = "ISSUED"]) /\ Then(h, "presta")
  <2>1. PICK row : row = [old EXCEPT !.ifirma = "ISSUED"]
    OBVIOUS
  <2>2. /\ row \in ReturnRows /\ row.zw = old.zw /\ row.qty = old.qty /\ row.st = old.st
        /\ row.correction = old.correction /\ row.slip = old.slip
        /\ row.type = old.type /\ row.opt = old.opt
    BY <1>4, <2>1 DEF ReturnRows, Statuses
  <2>3. Counted(r, row, ext[r], At("presta", r))
    BY <1>2, <1>4, <2>2 DEF Counted, Awaits, At
  <2>4. ExecutionFits(At("presta", r), row)
    BY <1>4, <1>7, <1>9, <2>2 DEF ExecutionFits, At, Emptied, ToldFirma, ToldAll, CorrectionTold, Corrected
  <2>5. "presta" \in Emptied
    BY DEF Emptied, ToldFirma
  <2> QED BY <1>1, <1>2, <1>3, <1>5, <1>6, <1>7, <1>9, <2>1, <2>2, <2>3, <2>4, <2>5, AnswerStep
<1>10. CASE /\ ~Corrected(old) /\ Then(h, "issue")
            /\ Set(r, [old EXCEPT !.correction = "PENDING", !.ifirma = "PENDING"])
  <2>1. PICK row : row = [old EXCEPT !.correction = "PENDING", !.ifirma = "PENDING"]
    OBVIOUS
  <2>2. /\ row \in ReturnRows /\ row.zw = old.zw /\ row.qty = old.qty /\ row.st = old.st
        /\ row.correction = "PENDING" /\ row.slip = old.slip
        /\ row.type = old.type /\ row.opt = old.opt
    BY <1>4, <2>1 DEF ReturnRows, Statuses
  <2>3. Counted(r, row, ext[r], At("issue", r))
    BY <1>2, <1>4, <1>10, <2>2 DEF Counted, Awaits, At, Corrected
  <2>4. ExecutionFits(At("issue", r), row)
    BY <1>4, <1>7, <2>2 DEF ExecutionFits, At, Emptied, ToldFirma, ToldAll
  <2>5. "issue" \in Emptied
    BY DEF Emptied
  <2> QED BY <1>1, <1>2, <1>3, <1>5, <1>6, <1>7, <1>10, <2>1, <2>2, <2>3, <2>4, <2>5, AnswerStep
<1> QED BY <1>1, <1>3, <1>8, <1>9, <1>10 DEF Ifirma

LEMMA RecordCorrectionKeepsReturns ==
    ASSUME NEW h, ReturnHandlers = {h}, ReturnsInv(h), RecordCorrection(h)
    PROVE  ReturnsInv(h)'
<1>1. PICK r : r = saga[h].r
  OBVIOUS
<1>2. /\ saga[h].pc \in {"recordCorrection", "recordIssued", "notIssued"}
      /\ saga[h].pc \in Executing /\ saga[h].pc \in Emptied
  BY DEF RecordCorrection, In, Executing, Emptied
<1>3. PICK old : old = returns[r]
  OBVIOUS
<1>4. /\ r \in ReturnIds /\ old \in ReturnRows
      /\ ExecutionFits(saga[h], old) /\ Counted(r, old, ext[r], saga[h])
  BY <1>1, <1>2, <1>3, ExecutedRow
<1>5. UNCHANGED <<zwDocs, wz, reserved, invoice, ext, operational, faults>>
  BY DEF RecordCorrection, warehouseVars
<1>6. faults' \in 0..MaxReturnFaults
  BY <1>1, <1>2, <1>5, ExecutedRow
<1>7. old.st = "PENDING" /\ (old.type = "CANCELLATION" => OrderEmptied)
  BY <1>2, <1>4 DEF ExecutionFits
<1>8. CASE /\ In(h, "recordCorrection") /\ Then(h, "recordIssued")
           /\ Set(r, [old EXCEPT !.correction = "ISSUED"])
  <2>1. PICK row : row = [old EXCEPT !.correction = "ISSUED"]
    OBVIOUS
  <2>2. /\ row \in ReturnRows /\ row.zw = old.zw /\ row.qty = old.qty /\ row.st = old.st
        /\ row.correction = "ISSUED" /\ row.slip = old.slip
        /\ row.type = old.type /\ row.opt = old.opt
    BY <1>4, <2>1 DEF ReturnRows, Statuses
  <2>3. Counted(r, row, ext[r], At("recordIssued", r))
    BY <1>1, <1>4, <1>8, <2>2 DEF Counted, Awaits, At, In
  <2>4. ExecutionFits(At("recordIssued", r), row)
    BY <1>4, <1>7, <2>2 DEF ExecutionFits, At, Emptied, ToldFirma, ToldAll
  <2>5. "recordIssued" \in Emptied
    BY DEF Emptied
  <2> QED BY <1>1, <1>2, <1>3, <1>5, <1>6, <1>7, <1>8, <2>1, <2>2, <2>3, <2>4, <2>5, AnswerStep
<1>9. CASE /\ In(h, "recordIssued") /\ Then(h, "presta")
           /\ Set(r, [old EXCEPT !.ifirma = "ISSUED"])
  <2>1. PICK row : row = [old EXCEPT !.ifirma = "ISSUED"]
    OBVIOUS
  <2>2. /\ row \in ReturnRows /\ row.zw = old.zw /\ row.qty = old.qty /\ row.st = old.st
        /\ row.correction = old.correction /\ row.slip = old.slip
        /\ row.type = old.type /\ row.opt = old.opt
    BY <1>4, <2>1 DEF ReturnRows, Statuses
  <2>3. Counted(r, row, ext[r], At("presta", r))
    BY <1>4, <1>9, <2>2 DEF Counted, Awaits, At, In
  <2>4. ExecutionFits(At("presta", r), row)
    BY <1>4, <1>7, <1>9, <2>2 DEF ExecutionFits, At, Emptied, ToldFirma, ToldAll, CorrectionTold, In
  <2>5. "presta" \in Emptied
    BY DEF Emptied, ToldFirma
  <2> QED BY <1>1, <1>2, <1>3, <1>5, <1>6, <1>7, <1>9, <2>1, <2>2, <2>3, <2>4, <2>5, AnswerStep
<1>10. CASE /\ In(h, "notIssued") /\ Then(h, "failed")
            /\ Set(r, [old EXCEPT !.correction = "FAILED", !.ifirma = "FAILED"])
  <2>1. PICK row : row = [old EXCEPT !.correction = "FAILED", !.ifirma = "FAILED"]
    OBVIOUS
  <2>2. /\ row \in ReturnRows /\ row.zw = old.zw /\ row.qty = old.qty /\ row.st = old.st
        /\ row.correction = "FAILED" /\ row.slip = old.slip
        /\ row.type = old.type /\ row.opt = old.opt
    BY <1>4, <2>1 DEF ReturnRows, Statuses
  <2>3. old.correction # "ISSUED"
    BY <1>4, <1>10 DEF ExecutionFits, In
  <2>4. Counted(r, row, ext[r], At("failed", r))
    BY <1>4, <1>10, <2>2, <2>3 DEF Counted, Awaits, At, In
  <2>5. ExecutionFits(At("failed", r), row)
    BY <1>4, <1>7, <2>2 DEF ExecutionFits, At, Emptied, ToldFirma, ToldAll
  <2> QED BY <1>1, <1>2, <1>3, <1>5, <1>6, <1>7, <1>10, <2>1, <2>2, <2>4, <2>5, AnswerStep
<1> QED BY <1>1, <1>3, <1>8, <1>9, <1>10 DEF RecordCorrection

LEMMA PrestaKeepsReturns ==
    ASSUME NEW h, ReturnHandlers = {h}, ReturnsInv(h), Presta(h)
    PROVE  ReturnsInv(h)'
<1>1. PICK r : r = saga[h].r
  OBVIOUS
<1>2. saga[h].pc = "presta" /\ saga[h].pc \in Executing /\ saga[h].pc \in Emptied
      /\ saga[h].pc \in ToldFirma
  BY DEF Presta, In, Executing, Emptied, ToldFirma
<1>3. PICK old : old = returns[r]
  OBVIOUS
<1>4. /\ r \in ReturnIds /\ old \in ReturnRows
      /\ ExecutionFits(saga[h], old) /\ Counted(r, old, ext[r], saga[h])
  BY <1>1, <1>2, <1>3, ExecutedRow
<1>5. UNCHANGED <<zwDocs, wz, reserved, invoice, ext, operational, faults>>
  BY DEF Presta, warehouseVars
<1>6. faults' \in 0..MaxReturnFaults
  BY <1>1, <1>2, <1>5, ExecutedRow
<1>7. old.st = "PENDING" /\ (old.type = "CANCELLATION" => OrderEmptied) /\ CorrectionTold(old)
  BY <1>2, <1>4 DEF ExecutionFits
<1>8. CASE (~old.opt.slip \/ old.qty = 0) /\ Set(r, [old EXCEPT !.presta = "SKIPPED"]) /\ Then(h, "final")
  <2>1. PICK row : row = [old EXCEPT !.presta = "SKIPPED"]
    OBVIOUS
  <2>2. /\ row \in ReturnRows /\ row.zw = old.zw /\ row.qty = old.qty /\ row.st = old.st
        /\ row.correction = old.correction /\ row.slip = old.slip
        /\ row.type = old.type /\ row.opt = old.opt
    BY <1>4, <2>1 DEF ReturnRows, Statuses
  <2>3. Counted(r, row, ext[r], At("final", r))
    BY <1>2, <1>4, <2>2 DEF Counted, Awaits, At
  <2>4. CorrectionTold(row) /\ SlipTold(row)
    BY <1>7, <1>8, <2>2 DEF CorrectionTold, SlipTold
  <2>5. ExecutionFits(At("final", r), row)
    BY <1>4, <1>7, <2>2, <2>4 DEF ExecutionFits, At, Emptied, ToldFirma, ToldAll
  <2>6. "final" \in Emptied
    BY DEF Emptied, ToldFirma, ToldAll
  <2> QED BY <1>1, <1>2, <1>3, <1>5, <1>6, <1>7, <1>8, <2>1, <2>2, <2>3, <2>5, <2>6, AnswerStep
<1>9. ASSUME Set(r, [old EXCEPT !.presta = "PENDING"]), NEW pc \in {"slip", "history"}, Then(h, pc),
             pc = "slip" <=> ~old.slip
      PROVE  ReturnsInv(h)'
  <2>1. PICK row : row = [old EXCEPT !.presta = "PENDING"]
    OBVIOUS
  <2>2. /\ row \in ReturnRows /\ row.zw = old.zw /\ row.qty = old.qty /\ row.st = old.st
        /\ row.correction = old.correction /\ row.slip = old.slip
        /\ row.type = old.type /\ row.opt = old.opt
    BY <1>4, <2>1 DEF ReturnRows, Statuses
  <2>3. Counted(r, row, ext[r], At(pc, r))
    BY <1>2, <1>4, <1>9, <2>2 DEF Counted, Awaits, At
  <2>4. CorrectionTold(row) /\ (pc = "history" => SlipTold(row))
    BY <1>7, <1>9, <2>2 DEF CorrectionTold, SlipTold
  <2>5. ExecutionFits(At(pc, r), row)
    BY <1>4, <1>7, <1>9, <2>2, <2>4 DEF ExecutionFits, At, Emptied, ToldFirma, ToldAll
  <2>6. pc \in Emptied
    BY <1>9 DEF Emptied, ToldFirma, ToldAll
  <2> QED BY <1>1, <1>2, <1>3, <1>5, <1>6, <1>7, <1>9, <2>1, <2>2, <2>3, <2>5, <2>6, AnswerStep
<1> QED BY <1>1, <1>3, <1>8, <1>9 DEF Presta, NeedsSlip

LEMMA RecordSlipKeepsReturns ==
    ASSUME NEW h, ReturnHandlers = {h}, ReturnsInv(h), RecordSlip(h)
    PROVE  ReturnsInv(h)'
<1>1. PICK r : r = saga[h].r
  OBVIOUS
<1>2. /\ saga[h].pc \in {"recordSlip", "history", "notRefunded"}
      /\ saga[h].pc \in Executing /\ saga[h].pc \in Emptied /\ saga[h].pc \in ToldFirma
  BY DEF RecordSlip, In, Executing, Emptied, ToldFirma
<1>3. PICK old : old = returns[r]
  OBVIOUS
<1>4. /\ r \in ReturnIds /\ old \in ReturnRows
      /\ ExecutionFits(saga[h], old) /\ Counted(r, old, ext[r], saga[h])
      /\ faults \in 0..MaxReturnFaults
  BY <1>1, <1>2, <1>3, ExecutedRow
<1>5. UNCHANGED <<zwDocs, wz, reserved, invoice, ext, operational>>
  BY DEF RecordSlip, warehouseVars
<1>6. faults' \in 0..MaxReturnFaults
  BY <1>4, ReturnsAssumption DEF RecordSlip, Fault
<1>7. old.st = "PENDING" /\ (old.type = "CANCELLATION" => OrderEmptied) /\ CorrectionTold(old)
  BY <1>2, <1>4 DEF ExecutionFits
<1>8. CASE In(h, "recordSlip") /\ Then(h, "history") /\ Set(r, [old EXCEPT !.slip = TRUE])
  <2>1. PICK row : row = [old EXCEPT !.slip = TRUE]
    OBVIOUS
  <2>2. /\ row \in ReturnRows /\ row.zw = old.zw /\ row.qty = old.qty /\ row.st = old.st
        /\ row.correction = old.correction /\ row.slip = TRUE
        /\ row.type = old.type /\ row.opt = old.opt
    BY <1>4, <2>1 DEF ReturnRows
  <2>3. Counted(r, row, ext[r], At("history", r))
    BY <1>1, <1>4, <1>8, <2>2 DEF Counted, Awaits, At, In
  <2>4. CorrectionTold(row) /\ SlipTold(row)
    BY <1>7, <1>8, <2>2 DEF CorrectionTold, SlipTold
  <2>5. ExecutionFits(At("history", r), row)
    BY <1>4, <1>7, <2>2, <2>4 DEF ExecutionFits, At, Emptied, ToldFirma, ToldAll
  <2>6. "history" \in Emptied
    BY DEF Emptied, ToldFirma, ToldAll
  <2> QED BY <1>1, <1>2, <1>3, <1>5, <1>6, <1>7, <1>8, <2>1, <2>2, <2>3, <2>5, <2>6, AnswerStep
<1>9. CASE In(h, "history") /\ Then(h, "final") /\ Set(r, [old EXCEPT !.presta = "COMPLETED"])
  <2>1. PICK row : row = [old EXCEPT !.presta = "COMPLETED"]
    OBVIOUS
  <2>2. /\ row \in ReturnRows /\ row.zw = old.zw /\ row.qty = old.qty /\ row.st = old.st
        /\ row.correction = old.correction /\ row.slip = old.slip
        /\ row.type = old.type /\ row.opt = old.opt
    BY <1>4, <2>1 DEF ReturnRows, Statuses
  <2>3. Counted(r, row, ext[r], At("final", r))
    BY <1>4, <1>9, <2>2 DEF Counted, Awaits, At, In
  <2>4. SlipTold(old)
    BY <1>4, <1>9 DEF ExecutionFits, In
  <2>5. CorrectionTold(row) /\ SlipTold(row)
    BY <1>7, <2>2, <2>4 DEF CorrectionTold, SlipTold
  <2>6. ExecutionFits(At("final", r), row)
    BY <1>4, <1>7, <2>2, <2>5 DEF ExecutionFits, At, Emptied, ToldFirma, ToldAll
  <2>7. "final" \in Emptied
    BY DEF Emptied, ToldFirma, ToldAll
  <2> QED BY <1>1, <1>2, <1>3, <1>5, <1>6, <1>7, <1>9, <2>1, <2>2, <2>3, <2>6, <2>7, AnswerStep
<1>10. CASE In(h, "history") /\ Then(h, "notRefunded") /\ UNCHANGED returns
  <2>1. Goes(h, At("notRefunded", r)) /\ saga[h].pc = "history"
    BY <1>1, <1>10, ThenGoes DEF ReturnsInv, In
  <2>2. ExecutionFits(At("notRefunded", r), returns[r])
    BY <1>3, <1>4, <1>7 DEF ExecutionFits, At, Emptied, ToldFirma, ToldAll
  <2>3. "notRefunded" \in Executing
    BY DEF Executing, Emptied, ToldFirma
  <2>4. SagaFits(At("notRefunded", r))
    BY <2>2, <2>3 DEF SagaFits, At
  <2>5. saga[h].pc \notin AboutToRecord /\ At("notRefunded", r).pc \notin AboutToRecord
    BY <2>1 DEF AboutToRecord, At
  <2>6. operational' \in {"PROCESSING", "CANCELLED", "RETURNED", "PARTIALLY_RETURNED"}
    BY <1>5 DEF ReturnsInv, ReturnsTypeOK
  <2> QED BY <1>5, <1>6, <1>10, <2>1, <2>4, <2>5, <2>6, SagaStep
<1>11. CASE In(h, "notRefunded") /\ Then(h, "failed") /\ Set(r, [old EXCEPT !.presta = "FAILED"])
  <2>1. PICK row : row = [old EXCEPT !.presta = "FAILED"]
    OBVIOUS
  <2>2. /\ row \in ReturnRows /\ row.zw = old.zw /\ row.qty = old.qty /\ row.st = old.st
        /\ row.correction = old.correction /\ row.slip = old.slip
        /\ row.type = old.type /\ row.opt = old.opt
    BY <1>4, <2>1 DEF ReturnRows, Statuses
  <2>3. Counted(r, row, ext[r], At("failed", r))
    BY <1>4, <1>11, <2>2 DEF Counted, Awaits, At, In
  <2>4. ExecutionFits(At("failed", r), row)
    BY <1>4, <1>7, <2>2 DEF ExecutionFits, At, Emptied, ToldFirma, ToldAll
  <2> QED BY <1>1, <1>2, <1>3, <1>5, <1>6, <1>7, <1>11, <2>1, <2>2, <2>3, <2>4, AnswerStep
<1> QED BY <1>1, <1>3, <1>8, <1>9, <1>10, <1>11 DEF RecordSlip

LEMMA CompleteExecutionKeepsReturns ==
    ASSUME NEW h, ReturnHandlers = {h}, ReturnsInv(h), CompleteExecution(h)
    PROVE  ReturnsInv(h)'
<1>1. PICK r : r = saga[h].r
  OBVIOUS
<1>2. /\ saga[h].pc = "complete" /\ saga[h].pc \in Executing \cup {"begin"}
      /\ saga[h].pc \in Emptied /\ saga[h].pc \in ToldFirma /\ saga[h].pc \in ToldAll
  BY DEF CompleteExecution, In, Executing, Emptied, ToldFirma, ToldAll
<1>3. PICK old : old = returns[r]
  OBVIOUS
<1>4. /\ r \in ReturnIds /\ old \in ReturnRows /\ RowFits(r, old)
      /\ ExecutionFits(saga[h], old) /\ Counted(r, old, ext[r], saga[h])
  BY <1>1, <1>2, <1>3, ExecutedRow
<1>5. UNCHANGED <<zwDocs, wz, reserved, invoice, ext, operational, faults>>
  BY DEF CompleteExecution, warehouseVars
<1>6. faults' \in 0..MaxReturnFaults
  BY <1>1, <1>2, <1>5, ExecutedRow
<1>7. /\ old.st = "PENDING" /\ (old.type = "CANCELLATION" => OrderEmptied)
      /\ CorrectionTold(old) /\ SlipTold(old)
  BY <1>2, <1>4 DEF ExecutionFits
<1>8. PICK row : row = [old EXCEPT !.st = "COMPLETED"]
  OBVIOUS
<1>9. Set(r, row) /\ Goes(h, Resting)
  BY <1>1, <1>3, <1>8, ThenGoes DEF CompleteExecution, ReturnsInv
<1>10. /\ row \in ReturnRows /\ row.zw = old.zw /\ row.qty = old.qty /\ row.st = "COMPLETED"
       /\ row.correction = old.correction /\ row.slip = old.slip
       /\ row.type = old.type /\ row.opt = old.opt
  BY <1>4, <1>8 DEF ReturnRows
<1>11. CorrectionTold(row) /\ SlipTold(row)
  BY <1>7, <1>10 DEF CorrectionTold, SlipTold
<1>12. RowFits(r, row)
  BY <1>4, <1>7, <1>10, <1>11 DEF RowFits
<1>13. Counted(r, row, ext[r], Resting)
  BY <1>2, <1>4, <1>10 DEF Counted, Awaits, Resting
<1> QED BY <1>1, <1>2, <1>3, <1>5, <1>6, <1>9, <1>10, <1>12, <1>13, ExecutionStep

LEMMA FinalStatusKeepsReturns ==
    ASSUME NEW h, ReturnHandlers = {h}, ReturnsInv(h), FinalStatus(h)
    PROVE  ReturnsInv(h)'
<1>1. PICK r : r = saga[h].r
  OBVIOUS
<1>2. saga[h].pc = "final" /\ saga[h].pc \in Executing /\ saga[h].pc \in Emptied
      /\ saga[h].pc \in ToldFirma /\ saga[h].pc \in ToldAll
  BY DEF FinalStatus, In, Executing, Emptied, ToldFirma, ToldAll
<1>3. ExecutionFits(saga[h], returns[r]) /\ r \in ReturnIds /\ faults \in 0..MaxReturnFaults
  BY <1>1, <1>2, ExecutedRow
<1>4. Goes(h, At("complete", r))
  BY <1>1, ThenGoes DEF FinalStatus, ReturnsInv
<1>5. ExecutionFits(At("complete", r), returns[r])
  BY <1>2, <1>3 DEF ExecutionFits, At, Emptied, ToldFirma, ToldAll
<1>6. SagaFits(At("complete", r))
  BY <1>5 DEF SagaFits, At, Executing, Emptied, ToldFirma, ToldAll
<1>7. operational' \in {"PROCESSING", "CANCELLED", "RETURNED", "PARTIALLY_RETURNED"}
  BY DEF FinalStatus, ReturnStatus
<1>8. UNCHANGED <<returns, zwDocs, wz, reserved, invoice, ext, faults>>
  BY DEF FinalStatus, warehouseVars
<1>9. saga[h].pc \notin AboutToRecord /\ At("complete", r).pc \notin AboutToRecord
  BY <1>2 DEF AboutToRecord, At
<1> QED BY <1>3, <1>4, <1>6, <1>7, <1>8, <1>9, SagaStep

-----------------------------------------------------------------------------
(* iFirma and the shop *)

ToldOf == [corrections : Nat, lostCorrections : Nat, slips : Nat, lostSlips : Nat]

(* A step that changes what is known of iFirma and the shop. *)
LEMMA ExtStep ==
    ASSUME NEW h, ReturnHandlers = {h}, ReturnsInv(h), NEW s, Goes(h, s), SagaFits(s),
           NEW r \in ReturnIds, NEW x \in ToldOf, ext' = [ext EXCEPT ![r] = x],
           Counted(r, returns[r], x, s),
           saga[h].pc \in AboutToRecord => saga[h].r = r, s.pc \in AboutToRecord => s.r = r,
           UNCHANGED <<returns, zwDocs, wz, reserved, invoice, operational>>,
           faults' \in 0..MaxReturnFaults
    PROVE  ReturnsInv(h)'
<1>1. saga'[h] = s /\ DOMAIN saga' = ReturnHandlers
  BY SagaGoes DEF ReturnsInv
<1>2. \A q \in ReturnIds : ext'[q] = IF q = r THEN x ELSE ext[q]
  BY DEF ReturnsInv, ReturnsTypeOK
<1>3. ReturnsTypeOK'
  <2>1. ext' \in [ReturnIds -> ToldOf]
    BY DEF ReturnsInv, ReturnsTypeOK, ToldOf
  <2> QED BY <2>1 DEF ReturnsInv, ReturnsTypeOK, ToldOf
<1>4. \A q \in ReturnIds : RowFits(q, returns[q])'
  BY DEF ReturnsInv, RowFits, CorrectionTold, SlipTold, OrderEmptied
<1>5. \A q \in ReturnIds : Counted(q, returns[q], ext[q], saga[h])'
  <2> SUFFICES ASSUME NEW q \in ReturnIds PROVE Counted(q, returns[q], ext[q], saga[h])'
    OBVIOUS
  <2>1. CASE q = r
    BY <1>1, <1>2, <2>1 DEF Counted, Awaits
  <2>2. CASE q # r
    <3>1. Counted(q, returns[q], ext[q], s)
      BY <2>2, CountedElsewhere DEF ReturnsInv
    <3> QED BY <1>1, <1>2, <2>2, <3>1 DEF Counted, Awaits
  <2> QED BY <2>1, <2>2
<1>6. \A d \in ZwIds : DocFits(d)'
  BY DEF ReturnsInv, DocFits
<1>7. Returned' <= Ordered
  BY DEF ReturnsInv, Returned, SumOf, Active
<1>8. SagaFits(saga[h])'
  BY <1>1 DEF SagaFits, ExecutionFits, DeletionFits, CorrectionTold, SlipTold, OrderEmptied,
              NoExternalEffects, Retriable, Available, Returned, SumOf, Active
<1> QED BY <1>1, <1>3, <1>4, <1>5, <1>6, <1>7, <1>8 DEF ReturnsInv

(* The next statement of an execution that leaves its row alone. *)
LEMMA ExecutionFitsNext ==
    ASSUME NEW r \in ReturnIds, NEW pc \in Executing \ {"cancelWz", "link"},
           ExecutionFits(At(pc, r), returns[r])
    PROVE  SagaFits(At(pc, r))
BY DEF SagaFits, At, Executing, Emptied, ToldFirma, ToldAll

LEMMA IssueCorrectionKeepsReturns ==
    ASSUME NEW h, ReturnHandlers = {h}, ReturnsInv(h), IssueCorrection(h)
    PROVE  ReturnsInv(h)'
<1>1. PICK r : r = saga[h].r
  OBVIOUS
<1>2. saga[h].pc = "issue" /\ saga[h].pc \in Executing /\ saga[h].pc \in Emptied
  BY DEF IssueCorrection, In, Executing, Emptied
<1>3. PICK old : old = returns[r]
  OBVIOUS
<1>4. /\ r \in ReturnIds /\ old \in ReturnRows
      /\ ExecutionFits(saga[h], old) /\ Counted(r, old, ext[r], saga[h])
      /\ faults \in 0..MaxReturnFaults
  BY <1>1, <1>2, <1>3, ExecutedRow
<1>5. /\ UNCHANGED <<returns, zwDocs, wz, reserved, invoice, operational>>
      /\ faults' \in 0..MaxReturnFaults
  BY <1>4, ReturnsAssumption DEF IssueCorrection, warehouseVars, Fault
<1>6. /\ old.st = "PENDING" /\ (old.type = "CANCELLATION" => OrderEmptied)
      /\ old.correction # "ISSUED"
  BY <1>2, <1>4 DEF ExecutionFits
<1>7. PICK e : e = ext[r]
  OBVIOUS
<1>8. e \in ToldOf /\ \A x : [ext EXCEPT ![r] = x] = [q \in ReturnIds |-> IF q = r THEN x ELSE ext[q]]
  BY <1>4, <1>7 DEF ReturnsInv, ReturnsTypeOK, ToldOf
<1>9. /\ e.corrections \in Nat /\ e.lostCorrections \in Nat
      /\ e.corrections - e.lostCorrections = 0
      /\ e.slips - e.lostSlips = IF old.slip THEN 1 ELSE 0
  BY <1>2, <1>4, <1>6, <1>7, <1>8 DEF Counted, Awaits, ToldOf
<1>10. \A pc \in {"recordCorrection", "notIssued"} : SagaFits(At(pc, r))
  <2> SUFFICES ASSUME NEW pc \in {"recordCorrection", "notIssued"} PROVE SagaFits(At(pc, r))
    OBVIOUS
  <2>1. ExecutionFits(At(pc, r), returns[r])
    BY <1>3, <1>4, <1>6 DEF ExecutionFits, At, Emptied, ToldFirma, ToldAll
  <2>2. pc \in Executing \ {"cancelWz", "link"}
    BY DEF Executing, Emptied
  <2> QED BY <1>4, <2>1, <2>2, ExecutionFitsNext
<1>11. saga[h].pc \notin AboutToRecord
  BY <1>2 DEF AboutToRecord
<1>12. CASE Count(r, "corrections") /\ Then(h, "recordCorrection")
  <2>1. PICK x : x = [e EXCEPT !.corrections = @ + 1]
    OBVIOUS
  <2>2. ext' = [ext EXCEPT ![r] = x] /\ Goes(h, At("recordCorrection", r))
    BY <1>1, <1>7, <1>12, <2>1, ThenGoes DEF Count, ReturnsInv
  <2>3. /\ x \in ToldOf /\ x.corrections = e.corrections + 1 /\ x.lostCorrections = e.lostCorrections
        /\ x.slips = e.slips /\ x.lostSlips = e.lostSlips
    BY <1>8, <2>1 DEF ToldOf
  <2>4. Awaits(At("recordCorrection", r), "recordCorrection", r)
        /\ ~Awaits(At("recordCorrection", r), "recordSlip", r)
    BY DEF Awaits, At
  <2>5. Counted(r, returns[r], x, At("recordCorrection", r))
    BY <1>3, <1>9, <2>3, <2>4 DEF Counted
  <2>6. At("recordCorrection", r).r = r
    BY DEF At
  <2> QED BY <1>4, <1>5, <1>10, <1>11, <2>2, <2>3, <2>5, <2>6, ExtStep
<1>13. CASE CountLost(r, "corrections", "lostCorrections") /\ Then(h, "notIssued")
  <2>0. PICK m : m = [e EXCEPT !.corrections = @ + 1]
    OBVIOUS
  <2>a. /\ m \in ToldOf /\ m.corrections = e.corrections + 1
        /\ m.lostCorrections = e.lostCorrections /\ m.slips = e.slips /\ m.lostSlips = e.lostSlips
    BY <1>8, <2>0 DEF ToldOf
  <2>1. PICK x : x = [m EXCEPT !.lostCorrections = @ + 1]
    OBVIOUS
  <2>2. ext' = [ext EXCEPT ![r] = x] /\ Goes(h, At("notIssued", r))
    <3>1. Goes(h, At("notIssued", r))
      BY <1>1, <1>13, ThenGoes DEF ReturnsInv
    <3>2. r \in DOMAIN ext
      BY <1>4 DEF ReturnsInv, ReturnsTypeOK
    <3>3. ext' = [ext EXCEPT ![r] = x]
      BY <1>7, <1>13, <2>0, <2>1, <3>2 DEF CountLost
    <3> QED BY <3>1, <3>3
  <2>3. /\ x \in ToldOf /\ x.corrections = e.corrections + 1
        /\ x.lostCorrections = e.lostCorrections + 1
        /\ x.slips = e.slips /\ x.lostSlips = e.lostSlips
    BY <2>a, <2>1 DEF ToldOf
  <2>4. ~Awaits(At("notIssued", r), "recordCorrection", r)
        /\ ~Awaits(At("notIssued", r), "recordSlip", r)
    BY DEF Awaits, At
  <2>5. Counted(r, returns[r], x, At("notIssued", r))
    BY <1>3, <1>6, <1>9, <2>3, <2>4 DEF Counted
  <2>6. At("notIssued", r).r = r
    BY DEF At
  <2> QED BY <1>4, <1>5, <1>10, <1>11, <2>2, <2>3, <2>5, <2>6, ExtStep
<1>14. CASE Then(h, "notIssued") /\ UNCHANGED ext
  <2>1. Goes(h, At("notIssued", r)) /\ At("notIssued", r).pc \notin AboutToRecord
    BY <1>1, <1>14, ThenGoes DEF ReturnsInv, At, AboutToRecord
  <2>2. operational' \in {"PROCESSING", "CANCELLED", "RETURNED", "PARTIALLY_RETURNED"}
    BY <1>5 DEF ReturnsInv, ReturnsTypeOK
  <2> QED BY <1>5, <1>10, <1>11, <1>14, <2>1, <2>2, SagaStep
<1> QED BY <1>1, <1>12, <1>13, <1>14 DEF IssueCorrection

LEMMA CreateSlipKeepsReturns ==
    ASSUME NEW h, ReturnHandlers = {h}, ReturnsInv(h), CreateSlip(h)
    PROVE  ReturnsInv(h)'
<1>1. PICK r : r = saga[h].r
  OBVIOUS
<1>2. saga[h].pc = "slip" /\ saga[h].pc \in Executing /\ saga[h].pc \in Emptied
      /\ saga[h].pc \in ToldFirma
  BY DEF CreateSlip, In, Executing, Emptied, ToldFirma
<1>3. PICK old : old = returns[r]
  OBVIOUS
<1>4. /\ r \in ReturnIds /\ old \in ReturnRows
      /\ ExecutionFits(saga[h], old) /\ Counted(r, old, ext[r], saga[h])
      /\ faults \in 0..MaxReturnFaults
  BY <1>1, <1>2, <1>3, ExecutedRow
<1>5. /\ UNCHANGED <<returns, zwDocs, wz, reserved, invoice, operational>>
      /\ faults' \in 0..MaxReturnFaults
  BY <1>4, ReturnsAssumption DEF CreateSlip, warehouseVars, Fault
<1>6. /\ old.st = "PENDING" /\ (old.type = "CANCELLATION" => OrderEmptied)
      /\ CorrectionTold(old) /\ ~old.slip
  BY <1>2, <1>4 DEF ExecutionFits
<1>7. PICK e : e = ext[r]
  OBVIOUS
<1>8. e \in ToldOf /\ \A x : [ext EXCEPT ![r] = x] = [q \in ReturnIds |-> IF q = r THEN x ELSE ext[q]]
  BY <1>4, <1>7 DEF ReturnsInv, ReturnsTypeOK, ToldOf
<1>9. /\ e.slips \in Nat /\ e.lostSlips \in Nat
      /\ e.slips - e.lostSlips = 0
      /\ e.corrections - e.lostCorrections = IF old.correction = "ISSUED" THEN 1 ELSE 0
  BY <1>2, <1>4, <1>6, <1>7, <1>8 DEF Counted, Awaits, ToldOf
<1>10. \A pc \in {"recordSlip", "notRefunded"} : SagaFits(At(pc, r))
  <2> SUFFICES ASSUME NEW pc \in {"recordSlip", "notRefunded"} PROVE SagaFits(At(pc, r))
    OBVIOUS
  <2>1. ExecutionFits(At(pc, r), returns[r])
    BY <1>3, <1>4, <1>6 DEF ExecutionFits, At, Emptied, ToldFirma, ToldAll
  <2>2. pc \in Executing \ {"cancelWz", "link"}
    BY DEF Executing, Emptied, ToldFirma
  <2> QED BY <1>4, <2>1, <2>2, ExecutionFitsNext
<1>11. saga[h].pc \notin AboutToRecord
  BY <1>2 DEF AboutToRecord
<1>12. CASE Count(r, "slips") /\ Then(h, "recordSlip")
  <2>1. PICK x : x = [e EXCEPT !.slips = @ + 1]
    OBVIOUS
  <2>2. ext' = [ext EXCEPT ![r] = x] /\ Goes(h, At("recordSlip", r))
    BY <1>1, <1>7, <1>12, <2>1, ThenGoes DEF Count, ReturnsInv
  <2>3. /\ x \in ToldOf /\ x.slips = e.slips + 1 /\ x.lostSlips = e.lostSlips
        /\ x.corrections = e.corrections /\ x.lostCorrections = e.lostCorrections
    BY <1>8, <2>1 DEF ToldOf
  <2>4. Awaits(At("recordSlip", r), "recordSlip", r)
        /\ ~Awaits(At("recordSlip", r), "recordCorrection", r)
    BY DEF Awaits, At
  <2>5. Counted(r, returns[r], x, At("recordSlip", r))
    BY <1>3, <1>9, <2>3, <2>4 DEF Counted
  <2>6. At("recordSlip", r).r = r
    BY DEF At
  <2> QED BY <1>4, <1>5, <1>10, <1>11, <2>2, <2>3, <2>5, <2>6, ExtStep
<1>13. CASE CountLost(r, "slips", "lostSlips") /\ Then(h, "notRefunded")
  <2>0. PICK m : m = [e EXCEPT !.slips = @ + 1]
    OBVIOUS
  <2>a. /\ m \in ToldOf /\ m.slips = e.slips + 1
        /\ m.lostSlips = e.lostSlips /\ m.corrections = e.corrections /\ m.lostCorrections = e.lostCorrections
    BY <1>8, <2>0 DEF ToldOf
  <2>1. PICK x : x = [m EXCEPT !.lostSlips = @ + 1]
    OBVIOUS
  <2>2. ext' = [ext EXCEPT ![r] = x] /\ Goes(h, At("notRefunded", r))
    <3>1. Goes(h, At("notRefunded", r))
      BY <1>1, <1>13, ThenGoes DEF ReturnsInv
    <3>2. r \in DOMAIN ext
      BY <1>4 DEF ReturnsInv, ReturnsTypeOK
    <3>3. ext' = [ext EXCEPT ![r] = x]
      BY <1>7, <1>13, <2>0, <2>1, <3>2 DEF CountLost
    <3> QED BY <3>1, <3>3
  <2>3. /\ x \in ToldOf /\ x.slips = e.slips + 1
        /\ x.lostSlips = e.lostSlips + 1
        /\ x.corrections = e.corrections /\ x.lostCorrections = e.lostCorrections
    BY <2>a, <2>1 DEF ToldOf
  <2>4. ~Awaits(At("notRefunded", r), "recordSlip", r)
        /\ ~Awaits(At("notRefunded", r), "recordCorrection", r)
    BY DEF Awaits, At
  <2>5. Counted(r, returns[r], x, At("notRefunded", r))
    BY <1>3, <1>6, <1>9, <2>3, <2>4 DEF Counted
  <2>6. At("notRefunded", r).r = r
    BY DEF At
  <2> QED BY <1>4, <1>5, <1>10, <1>11, <2>2, <2>3, <2>5, <2>6, ExtStep
<1>14. CASE Then(h, "notRefunded") /\ UNCHANGED ext
  <2>1. Goes(h, At("notRefunded", r)) /\ At("notRefunded", r).pc \notin AboutToRecord
    BY <1>1, <1>14, ThenGoes DEF ReturnsInv, At, AboutToRecord
  <2>2. operational' \in {"PROCESSING", "CANCELLED", "RETURNED", "PARTIALLY_RETURNED"}
    BY <1>5 DEF ReturnsInv, ReturnsTypeOK
  <2> QED BY <1>5, <1>10, <1>11, <1>14, <2>1, <2>2, SagaStep
<1> QED BY <1>1, <1>12, <1>13, <1>14 DEF CreateSlip

(* The request dies before its next statement. *)
LEMMA CrashKeepsReturns ==
    ASSUME NEW h, ReturnHandlers = {h}, ReturnsInv(h), CrashReturn(h)
    PROVE  ReturnsInv(h)'
<1>1. Goes(h, Resting) /\ UNCHANGED <<returns, zwDocs, wz, reserved, invoice, operational>>
  BY ThenGoes DEF CrashReturn, ReturnsInv, warehouseVars
<1>2. faults' \in 0..MaxReturnFaults
  BY ReturnsAssumption DEF CrashReturn, Fault, ReturnsInv, ReturnsTypeOK
<1>3. SagaFits(Resting) /\ Resting.pc \notin AboutToRecord
  BY RestFits DEF Resting, AboutToRecord
<1>4. ASSUME saga[h].pc \in AboutToRecord PROVE ReturnsInv(h)'
  <2>1. PICK r : r = saga[h].r
    OBVIOUS
  <2>2. PICK old : old = returns[r]
    OBVIOUS
  <2>3. PICK e : e = ext[r]
    OBVIOUS
  <2>4. saga[h].pc \in Executing /\ saga[h].pc # "begin"
    BY <1>4 DEF AboutToRecord, Executing, Emptied, ToldFirma
  <2>5. /\ r \in ReturnIds /\ ExecutionFits(saga[h], old) /\ Counted(r, old, e, saga[h])
    BY <2>1, <2>2, <2>3, <2>4, ExecutedRow
  <2>6. e \in ToldOf
    BY <2>3, <2>5 DEF ReturnsInv, ReturnsTypeOK, ToldOf
  <2>7. CASE saga[h].pc = "recordCorrection"
    <3>1. PICK x : x = [e EXCEPT !.lostCorrections = @ + 1]
      OBVIOUS
    <3>2. ext' = [ext EXCEPT ![r] = x]
      BY <2>1, <2>3, <2>7, <3>1 DEF CrashReturn, In
    <3>3. /\ x \in ToldOf /\ x.corrections = e.corrections
          /\ x.lostCorrections = e.lostCorrections + 1
          /\ x.slips = e.slips /\ x.lostSlips = e.lostSlips
      BY <2>6, <3>1 DEF ToldOf
    <3>4. e.corrections - e.lostCorrections = 1 /\ old.correction # "ISSUED"
          /\ e.slips - e.lostSlips = IF old.slip THEN 1 ELSE 0
      BY <2>1, <2>5, <2>7 DEF Counted, Awaits, ExecutionFits
    <3>5. e.corrections \in Nat /\ e.lostCorrections \in Nat
      BY <2>6 DEF ToldOf
    <3>6. ~Awaits(Resting, "recordCorrection", r) /\ ~Awaits(Resting, "recordSlip", r)
      BY DEF Awaits, Resting
    <3>7. Counted(r, returns[r], x, Resting)
      BY <2>2, <3>3, <3>4, <3>5, <3>6 DEF Counted
    <3> QED BY <1>1, <1>2, <1>3, <2>1, <2>5, <3>2, <3>3, <3>7, ExtStep
  <2>8. CASE saga[h].pc = "recordSlip"
    <3>1. PICK x : x = [e EXCEPT !.lostSlips = @ + 1]
      OBVIOUS
    <3>2. ext' = [ext EXCEPT ![r] = x]
      BY <2>1, <2>3, <2>8, <3>1 DEF CrashReturn, In
    <3>3. /\ x \in ToldOf /\ x.slips = e.slips /\ x.lostSlips = e.lostSlips + 1
          /\ x.corrections = e.corrections /\ x.lostCorrections = e.lostCorrections
      BY <2>6, <3>1 DEF ToldOf
    <3>4. e.slips - e.lostSlips = 1 /\ ~old.slip
          /\ e.corrections - e.lostCorrections = IF old.correction = "ISSUED" THEN 1 ELSE 0
      BY <2>1, <2>5, <2>8 DEF Counted, Awaits, ExecutionFits
    <3>5. e.slips \in Nat /\ e.lostSlips \in Nat
      BY <2>6 DEF ToldOf
    <3>6. ~Awaits(Resting, "recordCorrection", r) /\ ~Awaits(Resting, "recordSlip", r)
      BY DEF Awaits, Resting
    <3>7. Counted(r, returns[r], x, Resting)
      BY <2>2, <3>3, <3>4, <3>5, <3>6 DEF Counted
    <3> QED BY <1>1, <1>2, <1>3, <2>1, <2>5, <3>2, <3>3, <3>7, ExtStep
  <2> QED BY <1>4, <2>7, <2>8 DEF AboutToRecord
<1>5. ASSUME saga[h].pc \notin AboutToRecord PROVE ReturnsInv(h)'
  <2>1. UNCHANGED ext
    BY <1>5 DEF CrashReturn, In, AboutToRecord
  <2>2. operational' \in {"PROCESSING", "CANCELLED", "RETURNED", "PARTIALLY_RETURNED"}
    BY <1>1 DEF ReturnsInv, ReturnsTypeOK
  <2> QED BY <1>1, <1>2, <1>3, <1>5, <2>1, <2>2, SagaStep
<1> QED BY <1>4, <1>5

-----------------------------------------------------------------------------
(* The warehouse *)

(* The return is given the ZW that was made for it. *)
LEMMA LinkZwKeepsReturns ==
    ASSUME NEW h, ReturnHandlers = {h}, ReturnsInv(h), LinkZw(h)
    PROVE  ReturnsInv(h)'
<1>1. PICK r : r = saga[h].r
  OBVIOUS
<1>2. saga[h].pc = "link" /\ saga[h].pc \in Executing
  BY DEF LinkZw, In, Executing
<1>3. PICK old : old = returns[r]
  OBVIOUS
<1>4. /\ r \in ReturnIds /\ old \in ReturnRows /\ RowFits(r, old)
      /\ ExecutionFits(saga[h], old) /\ Counted(r, old, ext[r], saga[h])
      /\ faults \in 0..MaxReturnFaults
  BY <1>1, <1>2, <1>3, ExecutedRow
<1>5. UNCHANGED <<zwDocs, wz, reserved, invoice, ext, operational, faults>>
  BY DEF LinkZw, warehouseVars
<1>6. PICK d : d = saga[h].d
  OBVIOUS
<1>7. /\ old.st = "PENDING" /\ old.type = "RETURN" /\ old.opt.restock /\ old.zw = 0
      /\ wz = "CONFIRMED" /\ d \in ZwIds /\ d # 0
      /\ zwDocs[d].ret = r /\ zwDocs[d].st = "DRAFT"
  BY <1>1, <1>2, <1>4, <1>6, ReturnsAssumption DEF ExecutionFits
<1>8. PICK row : row = [old EXCEPT !.zw = d]
  OBVIOUS
<1>9. /\ row \in ReturnRows /\ row.zw = d /\ row.qty = old.qty /\ row.st = "PENDING"
      /\ row.correction = old.correction /\ row.slip = old.slip
      /\ row.type = "RETURN" /\ row.opt = old.opt
  BY <1>4, <1>7, <1>8 DEF ReturnRows
<1>10. PICK pc \in {"confirm", "ifirma"} : Set(r, row) /\ Then(h, pc)
  BY <1>1, <1>3, <1>6, <1>8 DEF LinkZw
<1>11. Goes(h, At(pc, r))
  BY <1>1, <1>10, ThenGoes DEF ReturnsInv
<1>12. RowFits(r, row)
  BY <1>7, <1>9 DEF RowFits
<1>13. returns[r].zw # 0 => row.zw = returns[r].zw
  BY <1>3, <1>7
<1>14. Counted(r, row, ext[r], At(pc, r))
  BY <1>2, <1>4, <1>9 DEF Counted, Awaits, At
<1>15. Returned' <= Ordered
  <2>1. row.qty = returns[r].qty /\ (row.st \notin {"FREE", "CANCELLED"} => Active(r))
    BY <1>3, <1>7, <1>9 DEF Active
  <2>2. Returned' <= Returned /\ Returned \in Nat /\ Returned' \in Nat
    BY <1>4, <1>10, <2>1, PiecesStay DEF ReturnsInv
  <2> QED BY <2>2, ReturnsAssumption DEF ReturnsInv
<1>16. SagaFits(At(pc, r))'
  <2>1. ExecutionFits(At(pc, r), row)
    BY <1>4, <1>7, <1>9 DEF ExecutionFits, At, Emptied, ToldFirma, ToldAll
  <2>2. returns'[r] = row
    BY <1>4, <1>10 DEF Set, ReturnsInv, ReturnsTypeOK
  <2>3. pc \in Executing \ {"cancelWz", "link"}
    BY DEF Executing, Emptied
  <2> QED BY <1>4, <1>5, <2>1, <2>2, <2>3, ExecutionGoesOn
<1>17. /\ saga[h].pc \in AboutToRecord => saga[h].r = r
       /\ At(pc, r).pc \in AboutToRecord => At(pc, r).r = r
  BY <1>1 DEF At
<1>18. faults' \in 0..MaxReturnFaults
  BY <1>4, <1>5
<1> QED BY <1>4, <1>5, <1>9, <1>10, <1>11, <1>12, <1>13, <1>14, <1>15, <1>16, <1>17, <1>18, RowStep

(* A step that writes no row and tells nobody. *)
LEMMA RowsKept ==
    ASSUME NEW h, ReturnHandlers = {h}, ReturnsInv(h), NEW s,
           saga'[h] = s, DOMAIN saga' = ReturnHandlers,
           s = saga[h] \/ (saga[h].pc \notin AboutToRecord /\ s.pc \notin AboutToRecord),
           UNCHANGED <<returns, ext>>, ReturnsTypeOK',
           \A r \in ReturnIds : RowFits(r, returns[r])', \A d \in ZwIds : DocFits(d)', SagaFits(s)'
    PROVE  ReturnsInv(h)'
<1>1. \A r \in ReturnIds : Counted(r, returns[r], ext[r], saga[h])'
  <2> SUFFICES ASSUME NEW r \in ReturnIds PROVE Counted(r, returns[r], ext[r], saga[h])'
    OBVIOUS
  <2>1. Counted(r, returns[r], ext[r], s)
    BY CountedElsewhere DEF ReturnsInv
  <2> QED BY <2>1 DEF Counted, Awaits
<1>2. Returned' <= Ordered
  BY DEF ReturnsInv, Returned, SumOf, Active
<1>3. SagaFits(saga[h])'
  BY DEF SagaFits, ExecutionFits, DeletionFits
<1> QED BY <1>1, <1>2, <1>3 DEF ReturnsInv

(* A step of an execution that cancels or releases what the order holds. *)
LEMMA CancelWarehouseKeepsReturns ==
    ASSUME NEW h, ReturnHandlers = {h}, ReturnsInv(h), CancelWarehouse(h)
    PROVE  ReturnsInv(h)'
<1>1. PICK r : r = saga[h].r
  OBVIOUS
<1>2. saga[h].pc = "warehouse" /\ saga[h].pc \in Executing /\ saga[h].pc \notin AboutToRecord
  BY DEF CancelWarehouse, In, Executing, AboutToRecord
<1>3. /\ r \in ReturnIds /\ returns[r] \in ReturnRows /\ RowFits(r, returns[r])
      /\ ExecutionFits(saga[h], returns[r]) /\ faults \in 0..MaxReturnFaults
  BY <1>1, <1>2, ExecutedRow
<1>4. returns[r].st = "PENDING" /\ returns[r].type = "CANCELLATION"
  BY <1>1, <1>3 DEF ExecutionFits, CancelWarehouse
<1>5. UNCHANGED <<returns, zwDocs, wz, invoice, operational, ext, faults>>
  BY DEF CancelWarehouse
<1>6. CASE Then(h, "failed") /\ UNCHANGED reserved
  <2>1. Goes(h, At("failed", r)) /\ At("failed", r).pc \notin AboutToRecord
    BY <1>1, <1>6, ThenGoes DEF ReturnsInv, At, AboutToRecord
  <2>2. ExecutionFits(At("failed", r), returns[r])
    BY <1>3, <1>4 DEF ExecutionFits, At, Emptied, ToldFirma, ToldAll
  <2>3. SagaFits(At("failed", r))
    BY <2>2 DEF SagaFits, At, Executing, Emptied, ToldFirma, ToldAll
  <2>4. operational' \in {"PROCESSING", "CANCELLED", "RETURNED", "PARTIALLY_RETURNED"}
    BY <1>5 DEF ReturnsInv, ReturnsTypeOK
  <2>5. faults' \in 0..MaxReturnFaults
    BY <1>3, <1>5
  <2> QED BY <1>2, <1>5, <1>6, <2>1, <2>3, <2>4, <2>5, SagaStep
<1>7. ASSUME Restocked(r) = {}, reserved' = FALSE, NEW pc \in {"cancelWz", "ifirma"}, Then(h, pc),
             pc = "ifirma" => wz \notin {"DRAFT", "CONFIRMED"}
      PROVE  ReturnsInv(h)'
  <2>1. Goes(h, At(pc, r)) /\ At(pc, r).pc \notin AboutToRecord
    BY <1>1, <1>7, ThenGoes DEF ReturnsInv, At, AboutToRecord
  <2>2. saga'[h] = At(pc, r) /\ DOMAIN saga' = ReturnHandlers
    BY <2>1, SagaGoes DEF ReturnsInv
  <2>3. ReturnsTypeOK'
    BY <1>5, <1>7 DEF ReturnsInv, ReturnsTypeOK
  <2>4. \A q \in ReturnIds : RowFits(q, returns[q])'
    BY <1>5, <1>7 DEF ReturnsInv, RowFits, CorrectionTold, SlipTold, OrderEmptied
  <2>5. \A d \in ZwIds : DocFits(d)'
    BY <1>5 DEF ReturnsInv, DocFits
  <2>6. \A q \in ReturnIds : Active(q) => returns[q].zw = 0
    <3> SUFFICES ASSUME NEW q \in ReturnIds, Active(q), returns[q].zw # 0 PROVE FALSE
      OBVIOUS
    <3>1. returns[q].type = "RETURN" /\ returns[q].opt.restock
      BY DEF ReturnsInv, RowFits
    <3>2. q # r
      BY <1>4, <3>1
    <3>3. q \in Restocked(r)
      BY <3>1, <3>2 DEF Restocked
    <3> QED BY <1>7, <3>3
  <2>7. pc = "ifirma" => wz = "CANCELLED"
    BY <1>7 DEF ReturnsInv, ReturnsTypeOK
  <2>8. SagaFits(At(pc, r))'
    BY <1>3, <1>4, <1>5, <1>7, <2>6, <2>7 DEF SagaFits, ExecutionFits, At, OrderEmptied, Active,
       Executing, Emptied, ToldFirma, ToldAll
  <2> QED BY <1>2, <1>5, <2>1, <2>2, <2>3, <2>4, <2>5, <2>8, RowsKept
<1> QED BY <1>1, <1>6, <1>7 DEF CancelWarehouse

LEMMA CancelWzKeepsReturns ==
    ASSUME NEW h, ReturnHandlers = {h}, ReturnsInv(h), CancelWz(h)
    PROVE  ReturnsInv(h)'
<1>1. PICK r : r = saga[h].r
  OBVIOUS
<1>2. saga[h].pc = "cancelWz" /\ saga[h].pc \in Executing /\ saga[h].pc \notin AboutToRecord
  BY DEF CancelWz, In, Executing, AboutToRecord
<1>3. /\ r \in ReturnIds /\ ExecutionFits(saga[h], returns[r]) /\ faults \in 0..MaxReturnFaults
  BY <1>1, <1>2, ExecutedRow
<1>4. /\ returns[r].st = "PENDING" /\ returns[r].type = "CANCELLATION" /\ ~reserved
      /\ \A q \in ReturnIds : Active(q) => returns[q].zw = 0
  BY <1>2, <1>3 DEF ExecutionFits
<1>5. UNCHANGED <<returns, zwDocs, reserved, invoice, operational, ext, faults>>
  BY DEF CancelWz
<1>6. CASE Then(h, "failed") /\ UNCHANGED wz
  <2>1. Goes(h, At("failed", r)) /\ At("failed", r).pc \notin AboutToRecord
    BY <1>1, <1>6, ThenGoes DEF ReturnsInv, At, AboutToRecord
  <2>2. ExecutionFits(At("failed", r), returns[r])
    BY <1>3, <1>4 DEF ExecutionFits, At, Emptied, ToldFirma, ToldAll
  <2>3. SagaFits(At("failed", r))
    BY <2>2 DEF SagaFits, At, Executing, Emptied, ToldFirma, ToldAll
  <2>4. operational' \in {"PROCESSING", "CANCELLED", "RETURNED", "PARTIALLY_RETURNED"}
    BY <1>5 DEF ReturnsInv, ReturnsTypeOK
  <2>5. faults' \in 0..MaxReturnFaults
    BY <1>3, <1>5
  <2> QED BY <1>2, <1>5, <1>6, <2>1, <2>3, <2>4, <2>5, SagaStep
<1>7. CASE wz' = "CANCELLED" /\ Then(h, "ifirma")
  <2>1. Goes(h, At("ifirma", r)) /\ At("ifirma", r).pc \notin AboutToRecord
    BY <1>1, <1>7, ThenGoes DEF ReturnsInv, At, AboutToRecord
  <2>2. saga'[h] = At("ifirma", r) /\ DOMAIN saga' = ReturnHandlers
    BY <2>1, SagaGoes DEF ReturnsInv
  <2>3. ReturnsTypeOK'
    BY <1>5, <1>7 DEF ReturnsInv, ReturnsTypeOK
  <2>4. \A q \in ReturnIds : RowFits(q, returns[q])'
    BY <1>4, <1>5, <1>7 DEF ReturnsInv, RowFits, CorrectionTold, SlipTold, OrderEmptied, Active
  <2>5. \A d \in ZwIds : DocFits(d)'
    BY <1>5 DEF ReturnsInv, DocFits
  <2>6. SagaFits(At("ifirma", r))'
    BY <1>3, <1>4, <1>5, <1>7 DEF SagaFits, ExecutionFits, At, OrderEmptied,
       Executing, Emptied, ToldFirma, ToldAll
  <2> QED BY <1>2, <1>5, <2>1, <2>2, <2>3, <2>4, <2>5, <2>6, RowsKept
<1> QED BY <1>6, <1>7 DEF CancelWz

(* The goods leave: a cancellation that is past its warehouse step has no  *)
(* draft WZ left for this.                                                 *)
LEMMA ShipKeepsReturns ==
    ASSUME NEW h, ReturnHandlers = {h}, ReturnsInv(h), Ship
    PROVE  ReturnsInv(h)'
<1>1. /\ wz = "DRAFT" /\ wz' = "CONFIRMED" /\ reserved' = FALSE
      /\ UNCHANGED <<returns, zwDocs, invoice, operational, ext, saga, faults>>
  BY DEF Ship
<1>2. saga'[h] = saga[h] /\ DOMAIN saga' = ReturnHandlers
  BY <1>1 DEF ReturnsInv
<1>3. ReturnsTypeOK'
  BY <1>1 DEF ReturnsInv, ReturnsTypeOK
<1>4. \A q \in ReturnIds : RowFits(q, returns[q])'
  BY <1>1 DEF ReturnsInv, RowFits, CorrectionTold, SlipTold, OrderEmptied
<1>5. \A d \in ZwIds : DocFits(d)'
  BY <1>1 DEF ReturnsInv, DocFits
<1>6. Returned' = Returned
  BY <1>1 DEF Returned, SumOf, Active
<1>7. SagaFits(saga[h])'
  BY <1>1, <1>6 DEF ReturnsInv, SagaFits, ExecutionFits, DeletionFits, CorrectionTold, SlipTold,
     OrderEmptied, NoExternalEffects, Retriable, Available, Active
<1>8. PICK s : s = saga[h]
  OBVIOUS
<1>9. SagaFits(s)' /\ saga'[h] = s
  BY <1>1, <1>7, <1>8
<1> QED BY <1>1, <1>2, <1>3, <1>4, <1>5, <1>8, <1>9, RowsKept

(* An operation that is deleted gives back what it kept from the order. *)
LEMMA RefreshOrderKeepsReturns ==
    ASSUME NEW h, ReturnHandlers = {h}, ReturnsInv(h), RefreshOrder(h)
    PROVE  ReturnsInv(h)'
<1>1. /\ UNCHANGED <<returns, zwDocs, wz, invoice, ext, faults>> /\ Goes(h, Resting)
      /\ saga[h].pc = "refresh" /\ saga[h].pc \notin AboutToRecord
  BY ThenGoes DEF RefreshOrder, ReturnsInv, In, AboutToRecord
<1>2. saga'[h] = Resting /\ DOMAIN saga' = ReturnHandlers
  BY <1>1, SagaGoes DEF ReturnsInv
<1>3. /\ operational' \in {"PROCESSING", "CANCELLED", "RETURNED", "PARTIALLY_RETURNED"}
      /\ reserved' \in BOOLEAN
  <2>1. operational' \in {"PROCESSING", "CANCELLED", "RETURNED", "PARTIALLY_RETURNED"}
    BY DEF RefreshOrder, ReturnStatus, ReturnsInv, ReturnsTypeOK
  <2>2. ASSUME UNCHANGED reserved PROVE reserved' \in BOOLEAN
    BY <2>2 DEF ReturnsInv, ReturnsTypeOK
  <2>3. ASSUME reserved' = (reserved \/ wz # "CONFIRMED") PROVE reserved' \in BOOLEAN
    BY <2>3, Zenon
  <2> QED BY <2>1, <2>2, <2>3 DEF RefreshOrder
<1>4. ReturnsTypeOK'
  BY <1>1, <1>3 DEF ReturnsInv, ReturnsTypeOK
<1>5. reserved' = reserved \/ Cancellations = {}
  BY DEF RefreshOrder
<1>6. \A q \in ReturnIds : RowFits(q, returns[q])'
  <2> SUFFICES ASSUME NEW q \in ReturnIds PROVE RowFits(q, returns[q])'
    OBVIOUS
  <2>1. RowFits(q, returns[q])
    BY DEF ReturnsInv
  <2>2. returns[q].st = "COMPLETED" /\ returns[q].type = "CANCELLATION" => reserved' = reserved
    BY <1>5 DEF Cancellations, Active
  <2> QED BY <1>1, <2>1, <2>2 DEF RowFits, CorrectionTold, SlipTold, OrderEmptied
<1>7. \A d \in ZwIds : DocFits(d)'
  BY <1>1 DEF ReturnsInv, DocFits
<1>8. Resting.pc \notin AboutToRecord
  BY DEF Resting, AboutToRecord
<1> QED BY <1>1, <1>2, <1>4, <1>6, <1>7, <1>8, RestFits, RowsKept

(* The first of some numbers is one of them. *)
LEMMA LowestIsThere ==
    ASSUME NEW S, S # {}, S \subseteq Nat
    PROVE  Lowest(S) \in S
BY LeastNatural DEF Lowest

(* Goods that come back: what a return is given, or goes on with. *)
LEMMA RestockKeepsReturns ==
    ASSUME NEW h, ReturnHandlers = {h}, ReturnsInv(h), Restock(h)
    PROVE  ReturnsInv(h)'
<1>1. PICK r : r = saga[h].r
  OBVIOUS
<1>2. saga[h].pc = "warehouse" /\ saga[h].pc \in Executing /\ saga[h].pc \notin AboutToRecord
  BY DEF Restock, In, Executing, AboutToRecord
<1>3. /\ r \in ReturnIds /\ returns[r] \in ReturnRows /\ RowFits(r, returns[r])
      /\ ExecutionFits(saga[h], returns[r]) /\ faults \in 0..MaxReturnFaults
  BY <1>1, <1>2, ExecutedRow
<1>4. returns[r].st = "PENDING" /\ returns[r].type = "RETURN"
  BY <1>1, <1>3 DEF ExecutionFits, Restock
<1>5. UNCHANGED <<returns, wz, reserved, invoice, operational, ext, faults>>
  BY DEF Restock
<1>6. faults' \in 0..MaxReturnFaults
      /\ operational' \in {"PROCESSING", "CANCELLED", "RETURNED", "PARTIALLY_RETURNED"}
  BY <1>3, <1>5 DEF ReturnsInv, ReturnsTypeOK
<1>7. ASSUME NEW pc \in {"ifirma", "failed", "confirm"}, Then(h, pc), UNCHANGED zwDocs,
             pc = "confirm" => wz = "CONFIRMED"
      PROVE  ReturnsInv(h)'
  <2>1. Goes(h, At(pc, r)) /\ At(pc, r).pc \notin AboutToRecord
    BY <1>1, <1>7, ThenGoes DEF ReturnsInv, At, AboutToRecord
  <2>2. ExecutionFits(At(pc, r), returns[r])
    BY <1>3, <1>4, <1>7 DEF ExecutionFits, At, Emptied, ToldFirma, ToldAll
  <2>3. SagaFits(At(pc, r))
    BY <2>2 DEF SagaFits, At, Executing, Emptied, ToldFirma, ToldAll
  <2> QED BY <1>2, <1>5, <1>6, <1>7, <2>1, <2>3, SagaStep
<1>8. ASSUME returns[r].opt.restock, wz = "CONFIRMED", returns[r].zw = 0, FreeZws # {},
             NEW d, d = Lowest(FreeZws), zwDocs' = [zwDocs EXCEPT ![d] = [ret |-> r, st |-> "DRAFT"]],
             Goes(h, [pc |-> "link", r |-> r, d |-> d])
      PROVE  ReturnsInv(h)'
  <2>1. d \in ZwIds /\ zwDocs[d].st = "FREE" /\ d # 0
    <3>1. FreeZws \subseteq Nat /\ FreeZws \subseteq ZwIds /\ \A z \in FreeZws : zwDocs[z].st = "FREE"
      BY ReturnsAssumption DEF FreeZws
    <3>2. d \in FreeZws
      BY <1>8, <3>1, LowestIsThere
    <3> QED BY <3>1, <3>2, ReturnsAssumption
  <2>2. \A z \in ZwIds : zwDocs'[z] = IF z = d THEN [ret |-> r, st |-> "DRAFT"] ELSE zwDocs[z]
    BY <1>8, <2>1 DEF ReturnsInv, ReturnsTypeOK
  <2>3. \A q \in ReturnIds : returns[q].zw # 0 => returns[q].zw \in ZwIds \ {d}
    BY <2>1, RowTyped DEF ReturnsInv, RowFits, ReturnRows
  <2>4. PICK s : s = [pc |-> "link", r |-> r, d |-> d]
    OBVIOUS
  <2>5. saga'[h] = s /\ DOMAIN saga' = ReturnHandlers /\ s.pc \notin AboutToRecord
    BY <1>8, <2>4, SagaGoes DEF ReturnsInv, AboutToRecord
  <2>6. ReturnsTypeOK'
    <3>1. zwDocs' \in [ZwIds -> [ret : ReturnIds \cup {0},
                                 st : {"FREE", "DRAFT", "CONFIRMED", "CANCELLED"}]]
      BY <1>3, <1>8 DEF ReturnsInv, ReturnsTypeOK
    <3>2. \A q \in ReturnIds : returns'[q].zw # 0 => zwDocs'[returns'[q].zw].ret = q
      BY <1>5, <2>2, <2>3 DEF ReturnsInv, ReturnsTypeOK
    <3> QED BY <1>5, <3>1, <3>2 DEF ReturnsInv, ReturnsTypeOK
  <2>7. \A q \in ReturnIds : RowFits(q, returns[q])'
    BY <1>5, <2>2, <2>3 DEF ReturnsInv, RowFits, CorrectionTold, SlipTold, OrderEmptied
  <2>8. \A z \in ZwIds : DocFits(z)'
    BY <1>3, <1>5, <2>2 DEF ReturnsInv, DocFits
  <2>9. SagaFits(s)'
    BY <1>3, <1>4, <1>5, <1>8, <2>1, <2>2, <2>4 DEF SagaFits, ExecutionFits, Executing,
       Emptied, ToldFirma, ToldAll
  <2> QED BY <1>2, <1>5, <2>5, <2>6, <2>7, <2>8, <2>9, RowsKept
<1> QED BY <1>1, <1>7, <1>8 DEF Restock, Goes

(* The ZW that a return names is accepted, by the return or an operator. *)
LEMMA AcceptStep ==
    ASSUME NEW h, ReturnHandlers = {h}, ReturnsInv(h), NEW d \in ZwIds,
           zwDocs[d].st = "DRAFT", returns[zwDocs[d].ret].zw = d,
           zwDocs' = [zwDocs EXCEPT ![d].st = "CONFIRMED"],
           UNCHANGED <<returns, wz, reserved, invoice, operational, ext, faults>>
    PROVE  /\ ReturnsTypeOK' /\ \A q \in ReturnIds : RowFits(q, returns[q])'
           /\ \A z \in ZwIds : DocFits(z)'
           /\ \A z \in ZwIds : zwDocs'[z] = IF z = d THEN [zwDocs[d] EXCEPT !.st = "CONFIRMED"]
                                            ELSE zwDocs[z]
<1>1. \A z \in ZwIds : zwDocs'[z] = IF z = d THEN [zwDocs[d] EXCEPT !.st = "CONFIRMED"]
                                    ELSE zwDocs[z]
  BY DEF ReturnsInv, ReturnsTypeOK
<1>2. zwDocs[d] \in [ret : ReturnIds \cup {0}, st : {"FREE", "DRAFT", "CONFIRMED", "CANCELLED"}]
  BY DEF ReturnsInv, ReturnsTypeOK
<1>3. zwDocs'[d].ret = zwDocs[d].ret /\ zwDocs'[d].st = "CONFIRMED"
  BY <1>1, <1>2
<1>4. \A q \in ReturnIds : returns[q].zw \in ZwIds \cup {0}
  BY RowTyped DEF ReturnsInv, ReturnRows
<1>5. ReturnsTypeOK'
  <2>1. zwDocs' \in [ZwIds -> [ret : ReturnIds \cup {0},
                               st : {"FREE", "DRAFT", "CONFIRMED", "CANCELLED"}]]
    BY DEF ReturnsInv, ReturnsTypeOK
  <2>2. \A q \in ReturnIds : returns'[q].zw # 0 => zwDocs'[returns'[q].zw].ret = q
    BY <1>1, <1>3, <1>4 DEF ReturnsInv, ReturnsTypeOK
  <2> QED BY <2>1, <2>2 DEF ReturnsInv, ReturnsTypeOK
<1>6. \A q \in ReturnIds : RowFits(q, returns[q])'
  <2> SUFFICES ASSUME NEW q \in ReturnIds PROVE RowFits(q, returns[q])'
    OBVIOUS
  <2>1. RowFits(q, returns[q]) /\ (returns[q].zw # 0 => returns[q].zw \in ZwIds)
    BY <1>4 DEF ReturnsInv
  <2> QED BY <1>1, <1>3, <2>1 DEF RowFits, CorrectionTold, SlipTold, OrderEmptied
<1>7. \A z \in ZwIds : DocFits(z)'
  BY <1>1, <1>3 DEF ReturnsInv, DocFits
<1> QED BY <1>1, <1>5, <1>6, <1>7

LEMMA ConfirmZwKeepsReturns ==
    ASSUME NEW h, ReturnHandlers = {h}, ReturnsInv(h), ConfirmZw(h)
    PROVE  ReturnsInv(h)'
<1>1. PICK r : r = saga[h].r
  OBVIOUS
<1>2. saga[h].pc = "confirm" /\ saga[h].pc \in Executing /\ saga[h].pc \notin AboutToRecord
  BY DEF ConfirmZw, In, Executing, AboutToRecord
<1>3. /\ r \in ReturnIds /\ returns[r] \in ReturnRows /\ RowFits(r, returns[r])
      /\ ExecutionFits(saga[h], returns[r]) /\ faults \in 0..MaxReturnFaults
  BY <1>1, <1>2, ExecutedRow
<1>4. returns[r].st = "PENDING" /\ returns[r].type = "RETURN"
  BY <1>2, <1>3 DEF ExecutionFits
<1>5. UNCHANGED <<returns, wz, reserved, invoice, operational, ext, faults>>
  BY DEF ConfirmZw
<1>6. faults' \in 0..MaxReturnFaults
      /\ operational' \in {"PROCESSING", "CANCELLED", "RETURNED", "PARTIALLY_RETURNED"}
  BY <1>3, <1>5 DEF ReturnsInv, ReturnsTypeOK
<1>7. ASSUME NEW pc \in {"ifirma", "failed"}
      PROVE  /\ ExecutionFits(At(pc, r), returns[r])
             /\ Then(h, pc) => Goes(h, At(pc, r)) /\ At(pc, r).pc \notin AboutToRecord
  BY <1>1, <1>3, <1>4, ThenGoes DEF ExecutionFits, At, Emptied, ToldFirma, ToldAll, ReturnsInv,
     AboutToRecord
<1>8. CASE Then(h, "failed") /\ UNCHANGED zwDocs
  <2>1. Goes(h, At("failed", r)) /\ At("failed", r).pc \notin AboutToRecord
    BY <1>7, <1>8
  <2>2. SagaFits(At("failed", r))
    BY <1>7 DEF SagaFits, At, Executing, Emptied, ToldFirma, ToldAll
  <2> QED BY <1>2, <1>5, <1>6, <1>8, <2>1, <2>2, SagaStep
<1>9. ASSUME NEW d, d = returns[r].zw, d # 0, zwDocs[d].st = "DRAFT",
             zwDocs' = [zwDocs EXCEPT ![d].st = "CONFIRMED"], Then(h, "ifirma")
      PROVE  ReturnsInv(h)'
  <2>1. d \in ZwIds /\ zwDocs[d].ret = r
    BY <1>3, <1>9 DEF ReturnRows, RowFits
  <2>2. /\ ReturnsTypeOK' /\ \A q \in ReturnIds : RowFits(q, returns[q])'
        /\ \A z \in ZwIds : DocFits(z)'
    BY <1>5, <1>9, <2>1, AcceptStep
  <2>3. Goes(h, At("ifirma", r)) /\ At("ifirma", r).pc \notin AboutToRecord
    BY <1>7, <1>9
  <2>4. saga'[h] = At("ifirma", r) /\ DOMAIN saga' = ReturnHandlers
    BY <2>3, SagaGoes DEF ReturnsInv
  <2>5. SagaFits(At("ifirma", r))'
    BY <1>3, <1>4, <1>5 DEF SagaFits, ExecutionFits, At, OrderEmptied, Executing, Emptied,
       ToldFirma, ToldAll
  <2> QED BY <1>2, <1>5, <2>2, <2>3, <2>4, <2>5, RowsKept
<1> QED BY <1>1, <1>8, <1>9 DEF ConfirmZw

(* What a request relies on is not a draft that a return names. *)
LEMMA AcceptGoodsKeepsReturns ==
    ASSUME NEW h, ReturnHandlers = {h}, ReturnsInv(h), NEW d \in ZwIds, AcceptGoods(d)
    PROVE  ReturnsInv(h)'
<1>1. /\ UNCHANGED <<returns, wz, reserved, invoice, operational, ext, saga, faults>>
      /\ zwDocs[d].st = "DRAFT" /\ returns[zwDocs[d].ret].zw = d
      /\ zwDocs' = [zwDocs EXCEPT ![d].st = "CONFIRMED"] /\ d # 0
  BY ReturnsAssumption DEF AcceptGoods
<1>2. /\ ReturnsTypeOK' /\ \A q \in ReturnIds : RowFits(q, returns[q])'
      /\ \A z \in ZwIds : DocFits(z)'
      /\ \A z \in ZwIds : zwDocs'[z] = IF z = d THEN [zwDocs[d] EXCEPT !.st = "CONFIRMED"]
                                       ELSE zwDocs[z]
  BY <1>1, AcceptStep
<1>3. PICK s : s = saga[h]
  OBVIOUS
<1>4. saga'[h] = s /\ DOMAIN saga' = ReturnHandlers /\ SagaFits(s)
  BY <1>1, <1>3 DEF ReturnsInv
<1>5. Returned' = Returned
  BY <1>1 DEF Returned, SumOf, Active
<1>6. s.pc \in Executing => ExecutionFits(s, returns[s.r])'
  <2> SUFFICES ASSUME s.pc \in Executing PROVE ExecutionFits(s, returns[s.r])'
    OBVIOUS
  <2>1. ExecutionFits(s, returns[s.r])
    BY <1>4 DEF SagaFits
  <2>2. s.pc = "link" => s.d # d
    BY <1>1, <2>1 DEF ExecutionFits
  <2> QED BY <1>1, <1>2, <2>1, <2>2 DEF ExecutionFits, CorrectionTold, SlipTold, OrderEmptied, Active
<1>7. s.pc \in {"undo", "cancelRow"} => DeletionFits(s, returns[s.r])'
  <2> SUFFICES ASSUME s.pc \in {"undo", "cancelRow"} PROVE DeletionFits(s, returns[s.r])'
    OBVIOUS
  <2>1. DeletionFits(s, returns[s.r]) /\ s.row \in ReturnRows
    BY <1>4 DEF SagaFits, DeletionFits
  <2>2. s.row.zw # 0 => s.row.zw \in ZwIds
    BY <2>1 DEF ReturnRows
  <2> QED BY <1>1, <1>2, <2>1, <2>2 DEF DeletionFits, NoExternalEffects
<1>8. SagaFits(s)'
  BY <1>1, <1>4, <1>5, <1>6, <1>7 DEF SagaFits, Available, Retriable
<1> QED BY <1>1, <1>2, <1>3, <1>4, <1>8, RowsKept

-----------------------------------------------------------------------------
(* Deletions *)

(* What a request that deletes knows of its row. *)
LEMMA DeletedRow ==
    ASSUME NEW h, ReturnHandlers = {h}, ReturnsInv(h), saga[h].pc \in {"undo", "cancelRow"},
           NEW r, r = saga[h].r
    PROVE  /\ r \in ReturnIds /\ returns[r] \in ReturnRows
           /\ DeletionFits(saga[h], returns[r]) /\ saga[h].row \in ReturnRows
           /\ RowFits(r, returns[r]) /\ Counted(r, returns[r], ext[r], saga[h])
           /\ faults \in 0..MaxReturnFaults
BY RowTyped DEF ReturnsInv, SagaFits, DeletionFits, ReturnsTypeOK

(* The request goes on to cancel its row. *)
LEMMA DeletionGoesOn ==
    ASSUME NEW h, ReturnHandlers = {h}, ReturnsInv(h), In(h, "undo"),
           NEW s, s = [saga[h] EXCEPT !.pc = "cancelRow"]
    PROVE  /\ s.pc = "cancelRow" /\ s.r = saga[h].r /\ s.row = saga[h].row
           /\ s.zwSt = saga[h].zwSt
           /\ s = [pc |-> s.pc, r |-> s.r, row |-> s.row, zwSt |-> s.zwSt]
           /\ saga[h].pc \notin AboutToRecord /\ s.pc \notin AboutToRecord
<1>1. saga[h].pc = "undo"
  BY DEF In
<1>2. DeletionFits(saga[h], returns[saga[h].r])
  BY <1>1 DEF ReturnsInv, SagaFits
<1>3. PICK old : old = saga[h]
  OBVIOUS
<1>4. old = [pc |-> old.pc, r |-> old.r, row |-> old.row, zwSt |-> old.zwSt]
  BY <1>2, <1>3 DEF DeletionFits
<1>5. s = [pc |-> "cancelRow", r |-> old.r, row |-> old.row, zwSt |-> old.zwSt]
  BY <1>3, <1>4
<1> QED BY <1>1, <1>3, <1>5 DEF AboutToRecord

(* A draft ZW goes, and its return names it no more. *)
LEMMA DraftUndoneKeepsReturns ==
    ASSUME NEW h, ReturnHandlers = {h}, ReturnsInv(h), In(h, "undo"),
           NEW s, s = [saga[h] EXCEPT !.pc = "cancelRow"], Goes(h, s),
           NEW d, d = saga[h].row.zw, saga[h].zwSt = "DRAFT", zwDocs[d].st = "DRAFT",
           zwDocs' = [zwDocs EXCEPT ![d] = NoZw],
           returns' = [q \in ReturnIds |-> IF returns[q].zw = d
                                           THEN [returns[q] EXCEPT !.zw = 0] ELSE returns[q]],
           UNCHANGED <<wz, reserved, invoice, operational, ext, faults>>
    PROVE  ReturnsInv(h)'
<1>1. PICK r : r = saga[h].r
  OBVIOUS
<1>2. saga[h].pc = "undo"
  BY DEF In
<1>3. PICK old : old = returns[r]
  OBVIOUS
<1>4. /\ r \in ReturnIds /\ old \in ReturnRows /\ DeletionFits(saga[h], old)
      /\ saga[h].row \in ReturnRows /\ RowFits(r, old)
  BY <1>1, <1>2, <1>3, DeletedRow
<1>5. d # 0 /\ old.zw = d /\ d \in ZwIds /\ zwDocs[d].ret = r
  BY <1>2, <1>4 DEF DeletionFits, ReturnRows, RowFits
<1>6. /\ s.pc = "cancelRow" /\ s.r = r /\ s.row = saga[h].row /\ s.zwSt = "DRAFT"
      /\ s = [pc |-> s.pc, r |-> s.r, row |-> s.row, zwSt |-> s.zwSt]
      /\ saga[h].pc \notin AboutToRecord /\ s.pc \notin AboutToRecord
  BY <1>1, DeletionGoesOn
<1>7. PICK row : row = [old EXCEPT !.zw = 0]
  OBVIOUS
<1>8. /\ row \in ReturnRows /\ row.zw = 0 /\ row.qty = old.qty /\ row.st = old.st
      /\ row.correction = old.correction /\ row.slip = old.slip /\ row.ifirma = old.ifirma
      /\ row.presta = old.presta /\ row.type = old.type /\ row.opt = old.opt
  BY <1>4, <1>7 DEF ReturnRows
<1>9. \A q \in ReturnIds : returns[q].zw = d <=> q = r
  BY <1>3, <1>5 DEF ReturnsInv, ReturnsTypeOK
<1>10. \A q \in ReturnIds : returns'[q] = IF q = r THEN row ELSE returns[q]
  BY <1>3, <1>7, <1>9
<1>11. Set(r, row)
  <2>1. returns \in [ReturnIds -> ReturnRows] /\ returns' \in [ReturnIds -> ReturnRows]
    BY <1>8, <1>10 DEF ReturnsInv, ReturnsTypeOK
  <2> QED BY <1>4, <1>10, <2>1 DEF Set
<1>12. \A z \in ZwIds : zwDocs'[z] = IF z = d THEN NoZw ELSE zwDocs[z]
  BY DEF ReturnsInv, ReturnsTypeOK
<1>13. \A q \in ReturnIds : returns[q].zw \in ZwIds \cup {0}
  BY RowTyped DEF ReturnsInv, ReturnRows
<1>14. \A q \in ReturnIds \ {r} : returns[q].zw # 0 => zwDocs'[returns[q].zw] = zwDocs[returns[q].zw]
  BY <1>9, <1>12, <1>13
<1>15. saga'[h] = s /\ DOMAIN saga' = ReturnHandlers
  BY SagaGoes DEF ReturnsInv
<1>16. ReturnsTypeOK'
  <2>1. zwDocs' \in [ZwIds -> [ret : ReturnIds \cup {0},
                               st : {"FREE", "DRAFT", "CONFIRMED", "CANCELLED"}]]
    BY DEF ReturnsInv, ReturnsTypeOK, NoZw
  <2>2. returns' \in [ReturnIds -> ReturnRows]
    BY <1>8, <1>11 DEF Set, ReturnsInv, ReturnsTypeOK
  <2>3. \A q \in ReturnIds : returns'[q].zw # 0 => zwDocs'[returns'[q].zw].ret = q
    BY <1>8, <1>10, <1>14 DEF ReturnsInv, ReturnsTypeOK
  <2> QED BY <2>1, <2>2, <2>3 DEF ReturnsInv, ReturnsTypeOK
<1>17. \A q \in ReturnIds : RowFits(q, returns[q])'
  <2> SUFFICES ASSUME NEW q \in ReturnIds PROVE RowFits(q, returns[q])'
    OBVIOUS
  <2>1. CASE q = r
    <3>1. row.st # "FREE" /\ row.st # "CANCELLED" /\ row.zw = 0 /\ row.type = "RETURN"
      BY <1>4, <1>8 DEF DeletionFits
    <3>2. row.st = "COMPLETED" => CorrectionTold(row) /\ SlipTold(row)
      BY <1>4, <1>8 DEF RowFits, CorrectionTold, SlipTold
    <3> QED BY <1>10, <2>1, <3>1, <3>2 DEF RowFits, CorrectionTold, SlipTold
  <2>2. CASE q # r
    BY <1>10, <1>14, <2>2 DEF ReturnsInv, RowFits, CorrectionTold, SlipTold, OrderEmptied
  <2> QED BY <2>1, <2>2
<1>18. \A z \in ZwIds : DocFits(z)'
  <2> SUFFICES ASSUME NEW z \in ZwIds PROVE DocFits(z)'
    OBVIOUS
  <2>1. CASE z = d
    BY <1>12, <2>1 DEF DocFits, NoZw
  <2>2. CASE z # d
    BY <1>3, <1>5, <1>10, <1>12, <2>2 DEF ReturnsInv, DocFits
  <2> QED BY <2>1, <2>2
<1>19. \A q \in ReturnIds : Counted(q, returns[q], ext[q], saga[h])'
  <2> SUFFICES ASSUME NEW q \in ReturnIds PROVE Counted(q, returns[q], ext[q], saga[h])'
    OBVIOUS
  <2>1. Counted(q, returns[q], ext[q], s)
    BY <1>6, CountedElsewhere DEF ReturnsInv
  <2>2. returns'[q].correction = returns[q].correction /\ returns'[q].slip = returns[q].slip
    BY <1>3, <1>8, <1>10
  <2> QED BY <1>15, <2>1, <2>2 DEF Counted, Awaits
<1>20. Returned' <= Ordered
  <2>1. row.qty = returns[r].qty /\ (row.st \notin {"FREE", "CANCELLED"} => Active(r))
    BY <1>3, <1>8 DEF Active
  <2>2. Returned' <= Returned /\ Returned \in Nat /\ Returned' \in Nat
    BY <1>4, <1>11, <2>1, PiecesStay DEF ReturnsInv
  <2> QED BY <2>2, ReturnsAssumption DEF ReturnsInv
<1>21. SagaFits(s)'
  <2>1. DeletionFits(s, row)
    BY <1>4, <1>6, <1>8 DEF DeletionFits, NoExternalEffects
  <2>2. returns'[s.r] = row
    BY <1>4, <1>6, <1>10
  <2>3. DeletionFits(s, returns[s.r])'
    BY <1>6, <2>1, <2>2 DEF DeletionFits, NoExternalEffects
  <2> QED BY <1>6, <2>3 DEF SagaFits, Executing, Emptied, ToldFirma, ToldAll
<1>22. SagaFits(saga[h])'
  BY <1>6, <1>15, <1>21 DEF SagaFits, DeletionFits, Executing, Emptied, ToldFirma, ToldAll
<1> QED BY <1>15, <1>16, <1>17, <1>18, <1>19, <1>20, <1>22 DEF ReturnsInv

LEMMA UndoWarehouseKeepsReturns ==
    ASSUME NEW h, ReturnHandlers = {h}, ReturnsInv(h), UndoWarehouse(h)
    PROVE  ReturnsInv(h)'
<1>1. PICK r : r = saga[h].r
  OBVIOUS
<1>2. saga[h].pc = "undo" /\ In(h, "undo")
  BY DEF UndoWarehouse, In
<1>3. /\ r \in ReturnIds /\ returns[r] \in ReturnRows /\ DeletionFits(saga[h], returns[r])
      /\ saga[h].row \in ReturnRows /\ RowFits(r, returns[r]) /\ faults \in 0..MaxReturnFaults
  BY <1>1, <1>2, DeletedRow
<1>4. UNCHANGED <<wz, reserved, invoice, operational, ext, faults>>
  BY DEF UndoWarehouse
<1>5. faults' \in 0..MaxReturnFaults
      /\ operational' \in {"PROCESSING", "CANCELLED", "RETURNED", "PARTIALLY_RETURNED"}
  BY <1>3, <1>4 DEF ReturnsInv, ReturnsTypeOK
<1>6. PICK s : s = [saga[h] EXCEPT !.pc = "cancelRow"]
  OBVIOUS
<1>7. /\ s.pc = "cancelRow" /\ s.r = r /\ s.row = saga[h].row /\ s.zwSt = saga[h].zwSt
      /\ s = [pc |-> s.pc, r |-> s.r, row |-> s.row, zwSt |-> s.zwSt]
      /\ saga[h].pc \notin AboutToRecord /\ s.pc \notin AboutToRecord
  BY <1>1, <1>2, <1>6, DeletionGoesOn
<1>8. PICK d : d = saga[h].row.zw
  OBVIOUS
<1>9. CASE /\ saga[h].zwSt = "DRAFT" /\ zwDocs[d].st = "DRAFT"
           /\ zwDocs' = [zwDocs EXCEPT ![d] = NoZw]
           /\ returns' = [q \in ReturnIds |-> IF returns[q].zw = d
                                              THEN [returns[q] EXCEPT !.zw = 0] ELSE returns[q]]
           /\ Goes(h, s)
  BY <1>2, <1>4, <1>6, <1>8, <1>9, DraftUndoneKeepsReturns
<1>10. CASE /\ saga[h].zwSt = "CONFIRMED" /\ zwDocs[d].st # "CANCELLED"
            /\ zwDocs' = [zwDocs EXCEPT ![d].st = "CANCELLED"]
            /\ Goes(h, s) /\ UNCHANGED returns
  <2>1. d # 0 /\ returns[r].zw = d /\ d \in ZwIds /\ zwDocs[d].ret = r
    BY <1>3, <1>8, <1>10 DEF DeletionFits, ReturnRows, RowFits
  <2>2. \A z \in ZwIds : zwDocs'[z] = IF z = d THEN [zwDocs[d] EXCEPT !.st = "CANCELLED"]
                                      ELSE zwDocs[z]
    BY <1>10 DEF ReturnsInv, ReturnsTypeOK
  <2>3. zwDocs'[d].ret = r /\ zwDocs'[d].st = "CANCELLED"
    BY <2>1, <2>2 DEF ReturnsInv, ReturnsTypeOK
  <2>4. \A q \in ReturnIds : returns[q].zw \in ZwIds \cup {0}
    BY RowTyped DEF ReturnsInv, ReturnRows
  <2>5. saga'[h] = s /\ DOMAIN saga' = ReturnHandlers
    BY <1>10, SagaGoes DEF ReturnsInv
  <2>6. ReturnsTypeOK'
    <3>1. zwDocs' \in [ZwIds -> [ret : ReturnIds \cup {0},
                                 st : {"FREE", "DRAFT", "CONFIRMED", "CANCELLED"}]]
      BY <1>10 DEF ReturnsInv, ReturnsTypeOK
    <3>2. \A q \in ReturnIds : returns'[q].zw # 0 => zwDocs'[returns'[q].zw].ret = q
      BY <1>10, <2>1, <2>2, <2>3, <2>4 DEF ReturnsInv, ReturnsTypeOK
    <3> QED BY <1>4, <1>10, <3>1, <3>2 DEF ReturnsInv, ReturnsTypeOK
  <2>7. \A q \in ReturnIds : RowFits(q, returns[q])'
    <3> SUFFICES ASSUME NEW q \in ReturnIds PROVE RowFits(q, returns[q])'
      OBVIOUS
    <3>1. RowFits(q, returns[q]) /\ (returns[q].zw # 0 => returns[q].zw \in ZwIds)
      BY <2>4 DEF ReturnsInv
    <3> QED BY <1>4, <1>10, <2>1, <2>2, <2>3, <3>1 DEF RowFits, CorrectionTold, SlipTold, OrderEmptied
  <2>8. \A z \in ZwIds : DocFits(z)'
    BY <1>3, <1>10, <2>2, <2>3 DEF ReturnsInv, DocFits
  <2>9. DeletionFits(s, returns[s.r])'
    BY <1>3, <1>7, <1>8, <1>10, <2>1, <2>3 DEF DeletionFits, NoExternalEffects
  <2>10. SagaFits(s)'
    BY <1>7, <2>9 DEF SagaFits, Executing, Emptied, ToldFirma, ToldAll
  <2> QED BY <1>4, <1>7, <1>10, <2>5, <2>6, <2>7, <2>8, <2>10, RowsKept
<1>11. CASE /\ saga[h].zwSt \in {"null", "CANCELLED"} /\ Goes(h, s) /\ UNCHANGED <<returns, zwDocs>>
  <2>1. DeletionFits(s, returns[s.r])
    BY <1>3, <1>7, <1>11 DEF DeletionFits
  <2>2. SagaFits(s)
    BY <1>7, <2>1 DEF SagaFits, Executing, Emptied, ToldFirma, ToldAll
  <2> QED BY <1>4, <1>5, <1>7, <1>11, <2>2, SagaStep
<1>12. CASE Rest(h) /\ UNCHANGED <<returns, zwDocs>>
  <2>1. Goes(h, Resting) /\ Resting.pc \notin AboutToRecord
    BY <1>12, ThenGoes DEF ReturnsInv, Resting, AboutToRecord
  <2> QED BY <1>4, <1>5, <1>7, <1>12, <2>1, RestFits, SagaStep
<1> QED BY <1>6, <1>8, <1>9, <1>10, <1>11, <1>12 DEF UndoWarehouse, Goes

(* The deleted row names no ZW that is not cancelled. *)
LEMMA CancelRowKeepsReturns ==
    ASSUME NEW h, ReturnHandlers = {h}, ReturnsInv(h), CancelRow(h)
    PROVE  ReturnsInv(h)'
<1>1. PICK r : r = saga[h].r
  OBVIOUS
<1>2. saga[h].pc = "cancelRow" /\ saga[h].pc \notin AboutToRecord
  BY DEF CancelRow, In, AboutToRecord
<1>3. PICK old : old = returns[r]
  OBVIOUS
<1>4. /\ r \in ReturnIds /\ old \in ReturnRows /\ DeletionFits(saga[h], old)
      /\ saga[h].row \in ReturnRows /\ RowFits(r, old) /\ Counted(r, old, ext[r], saga[h])
      /\ faults \in 0..MaxReturnFaults
  BY <1>1, <1>2, <1>3, DeletedRow
<1>5. UNCHANGED <<zwDocs, wz, reserved, invoice, ext, operational, faults>>
  BY DEF CancelRow, warehouseVars
<1>6. PICK zw, correction, ifirma, presta :
        /\ zw = LeftZw(saga[h].row, saga[h].zwSt)
        /\ correction = IF saga[h].row.correction = "none" THEN old.correction ELSE "CANCELLED"
        /\ ifirma = CancelledIfSet(saga[h].row.ifirma)
        /\ presta = CancelledIfSet(saga[h].row.presta)
  OBVIOUS
<1>7. PICK row : row = [old EXCEPT !.st = "CANCELLED", !.zw = zw, !.correction = correction,
                                   !.ifirma = ifirma, !.presta = presta]
  OBVIOUS
<1>8. Set(r, row) /\ Then(h, "refresh")
  BY <1>1, <1>3, <1>6, <1>7 DEF CancelRow
<1>9. Goes(h, At("refresh", r)) /\ At("refresh", r).pc \notin AboutToRecord
  BY <1>1, <1>8, ThenGoes DEF ReturnsInv, At, AboutToRecord
<1>10. zw = old.zw /\ (zw # 0 => zwDocs[zw].st = "CANCELLED")
  BY <1>2, <1>4, <1>6 DEF DeletionFits, LeftZw
<1>11. /\ old.type = "RETURN" /\ old.correction # "ISSUED" /\ ~old.slip
       /\ correction \in {"none", "PENDING", "FAILED", "CANCELLED"}
       /\ ifirma \in Statuses /\ presta \in Statuses
  <2>1. old.type = "RETURN" /\ old.correction # "ISSUED" /\ ~old.slip
    BY <1>4 DEF DeletionFits, NoExternalEffects
  <2>2. correction \in {"none", "PENDING", "FAILED", "CANCELLED"}
    BY <1>4, <1>6, <2>1 DEF ReturnRows
  <2>3. ifirma \in Statuses /\ presta \in Statuses
    BY <1>6 DEF CancelledIfSet, Statuses
  <2> QED BY <2>1, <2>2, <2>3
<1>12. /\ row = [type |-> old.type, st |-> "CANCELLED", qty |-> old.qty, opt |-> old.opt,
                 zw |-> zw, correction |-> correction, ifirma |-> ifirma, presta |-> presta,
                 slip |-> old.slip]
  BY <1>4, <1>7 DEF ReturnRows
<1>13. /\ row \in ReturnRows /\ row.zw = old.zw /\ row.qty = old.qty /\ row.st = "CANCELLED"
       /\ row.correction # "ISSUED" /\ row.slip = old.slip /\ row.type = "RETURN"
       /\ row.opt = old.opt
  BY <1>4, <1>10, <1>11, <1>12 DEF ReturnRows
<1>14. RowFits(r, row)
  BY <1>4, <1>10, <1>11, <1>13 DEF RowFits
<1>15. Counted(r, row, ext[r], At("refresh", r))
  BY <1>2, <1>4, <1>11, <1>13 DEF Counted, Awaits, At
<1>16. Returned' <= Ordered
  <2>1. row.qty = returns[r].qty /\ (row.st \notin {"FREE", "CANCELLED"} => Active(r))
    BY <1>3, <1>13
  <2>2. Returned' <= Returned /\ Returned \in Nat /\ Returned' \in Nat
    BY <1>4, <1>8, <2>1, PiecesStay DEF ReturnsInv
  <2> QED BY <2>2, ReturnsAssumption DEF ReturnsInv
<1>17. SagaFits(At("refresh", r))'
  BY DEF SagaFits, At, Executing, Emptied, ToldFirma, ToldAll
<1>18. faults' \in 0..MaxReturnFaults /\ (returns[r].zw # 0 => row.zw = returns[r].zw)
  BY <1>3, <1>4, <1>5, <1>13
<1> QED BY <1>2, <1>4, <1>5, <1>8, <1>9, <1>13, <1>14, <1>15, <1>16, <1>17, <1>18, RowStep

-----------------------------------------------------------------------------
(* Requests *)

LEMMA AvailableTyped ==
    ASSUME NEW h, ReturnsInv(h)
    PROVE  /\ Returned \in Nat /\ Returned <= Ordered /\ Ordered \in Nat
           /\ Available = Ordered - Returned /\ Available \in 0..Ordered
           /\ faults \in 0..MaxReturnFaults
           /\ operational \in {"PROCESSING", "CANCELLED", "RETURNED", "PARTIALLY_RETURNED"}
<1>1. ReturnsTypeOK /\ Returned <= Ordered
  BY DEF ReturnsInv
<1>2. {r \in ReturnIds : Active(r)} \in SUBSET ReturnIds
  OBVIOUS
<1>3. Returned \in Nat
  BY <1>1, <1>2, PiecesTyped DEF Returned
<1>4. Available = Ordered - Returned
  BY DEF Available
<1>5. Available \in 0..Ordered
  BY <1>1, <1>3, <1>4, ReturnsAssumption
<1> QED BY <1>1, <1>3, <1>4, <1>5, ReturnsAssumption DEF ReturnsTypeOK

LEMMA RequestsKeepReturns ==
    ASSUME NEW h, ReturnHandlers = {h}, ReturnsInv(h), ReturnRequest(h)
    PROVE  ReturnsInv(h)'
<1>1. /\ saga[h].pc = "idle" /\ saga[h].pc \notin AboutToRecord
      /\ UNCHANGED <<returns, zwDocs, wz, reserved, invoice, operational, ext, faults>>
  BY DEF ReturnRequest, CreateReturn, CancelOrder, RetryReturn, DeleteReturn, In, AboutToRecord,
     warehouseVars
<1>2. /\ faults' \in 0..MaxReturnFaults
      /\ operational' \in {"PROCESSING", "CANCELLED", "RETURNED", "PARTIALLY_RETURNED"}
  BY <1>1, AvailableTyped
<1>3. ASSUME NEW s, Goes(h, s), SagaFits(s), s.pc \notin AboutToRecord
      PROVE  ReturnsInv(h)'
  BY <1>1, <1>2, <1>3, SagaStep
<1>4. ASSUME NEW r \in ReturnIds, Retriable(r), Goes(h, At("begin", r))
      PROVE  ReturnsInv(h)'
  <2>1. SagaFits(At("begin", r)) /\ At("begin", r).pc \notin AboutToRecord
    BY <1>4 DEF SagaFits, At, AboutToRecord, Executing, Emptied, ToldFirma, ToldAll
  <2> QED BY <1>3, <1>4, <2>1
<1>5. ASSUME NEW type \in {"RETURN", "CANCELLATION"}, NEW qty \in 0..Ordered, qty <= Available,
             NEW opt \in ReturnOptions,
             Goes(h, [pc |-> "create", r |-> 0, type |-> type, qty |-> qty, opt |-> opt])
      PROVE  ReturnsInv(h)'
  <2>1. PICK s : s = [pc |-> "create", r |-> 0, type |-> type, qty |-> qty, opt |-> opt]
    OBVIOUS
  <2>2. SagaFits(s) /\ s.pc \notin AboutToRecord
    BY <1>5, <2>1 DEF SagaFits, AboutToRecord, Executing, Emptied, ToldFirma, ToldAll
  <2> QED BY <1>3, <1>5, <2>1, <2>2
<1>6. ASSUME NEW qty \in 1..Ordered, NEW opt \in ReturnOptions, CreateReturn(h, qty, opt)
      PROVE  ReturnsInv(h)'
  <2>1. qty \in 0..Ordered /\ qty <= Available
    BY <1>6, ReturnsAssumption DEF CreateReturn
  <2>2. Goes(h, [pc |-> "create", r |-> 0, type |-> "RETURN", qty |-> qty, opt |-> opt])
    BY <1>6 DEF CreateReturn, Goes
  <2> QED BY <1>5, <2>1, <2>2
<1>7. ASSUME NEW opt \in ReturnOptions, CancelOrder(h, opt)
      PROVE  ReturnsInv(h)'
  <2>1. CASE Cancellations # {}
    <3>1. Cancellations \subseteq Nat /\ Cancellations \subseteq ReturnIds
      BY ReturnsAssumption DEF Cancellations
    <3>2. Lowest(Cancellations) \in ReturnIds
      BY <2>1, <3>1, LowestIsThere
    <3>3. Retriable(Lowest(Cancellations)) /\ Goes(h, At("begin", Lowest(Cancellations)))
      BY <1>7, <2>1 DEF CancelOrder, Goes
    <3> QED BY <1>4, <3>2, <3>3
  <2>2. CASE Cancellations = {}
    <3>1. PICK qty : qty = IF Available > 0 THEN Available ELSE 0
      OBVIOUS
    <3>2. qty \in 0..Ordered /\ qty <= Available
      BY <3>1, AvailableTyped
    <3>3. Goes(h, [pc |-> "create", r |-> 0, type |-> "CANCELLATION", qty |-> qty, opt |-> opt])
      BY <1>7, <2>2, <3>1 DEF CancelOrder, Goes
    <3> QED BY <1>5, <3>2, <3>3
  <2> QED BY <2>1, <2>2
<1>8. ASSUME NEW r \in ReturnIds, DeleteReturn(h, r)
      PROVE  ReturnsInv(h)'
  <2>1. PICK old : old = returns[r]
    OBVIOUS
  <2>2. PICK zwSt : zwSt = IF old.zw = 0 THEN "null" ELSE zwDocs[old.zw].st
    OBVIOUS
  <2>3. PICK s : s = [pc |-> "undo", r |-> r, row |-> old, zwSt |-> zwSt]
    OBVIOUS
  <2>4. Goes(h, s)
    BY <1>8, <2>1, <2>2, <2>3 DEF DeleteReturn, Goes
  <2>5. /\ old \in ReturnRows /\ old.st \notin {"FREE", "CANCELLED"} /\ old.type = "RETURN"
        /\ NoExternalEffects(old) /\ RowFits(r, old)
    BY <1>8, <2>1, RowTyped DEF DeleteReturn, Active, ReturnsInv
  <2>6. zwSt \in {"null", "DRAFT", "CONFIRMED", "CANCELLED"}
    <3>1. CASE old.zw = 0
      BY <2>2, <3>1
    <3>2. CASE old.zw # 0
      <4>1. old.zw \in ZwIds /\ zwDocs[old.zw].st # "FREE"
        BY <2>5, <3>2 DEF ReturnRows, RowFits
      <4>2. zwDocs[old.zw].st \in {"FREE", "DRAFT", "CONFIRMED", "CANCELLED"}
        BY <4>1 DEF ReturnsInv, ReturnsTypeOK
      <4> QED BY <2>2, <3>2, <4>1, <4>2
    <3> QED BY <3>1, <3>2
  <2>7. zwSt = "null" <=> old.zw = 0
    BY <2>2, <2>6, <2>5 DEF RowFits, ReturnRows, ReturnsInv, ReturnsTypeOK
  <2>8. DeletionFits(s, returns[s.r])
    BY <2>1, <2>2, <2>3, <2>5, <2>6, <2>7 DEF DeletionFits
  <2>9. SagaFits(s) /\ s.pc \notin AboutToRecord
    BY <2>3, <2>8 DEF SagaFits, AboutToRecord, Executing, Emptied, ToldFirma, ToldAll
  <2> QED BY <1>3, <2>4, <2>9
<1>9. ASSUME NEW r \in ReturnIds, RetryReturn(h, r)
      PROVE  ReturnsInv(h)'
  BY <1>4, <1>9 DEF RetryReturn, Goes
<1> QED BY <1>6, <1>7, <1>8, <1>9 DEF ReturnRequest

(* A new operation covers what is left at most. *)
LEMMA CreateRecordKeepsReturns ==
    ASSUME NEW h, ReturnHandlers = {h}, ReturnsInv(h), CreateRecord(h)
    PROVE  ReturnsInv(h)'
<1>1. PICK r : r = Lowest(FreeReturns)
  OBVIOUS
<1>2. r \in ReturnIds /\ returns[r].st = "FREE"
  <2>1. /\ FreeReturns \subseteq Nat /\ FreeReturns \subseteq ReturnIds /\ FreeReturns # {}
        /\ \A q \in FreeReturns : returns[q].st = "FREE"
    BY ReturnsAssumption DEF FreeReturns, CreateRecord
  <2>2. r \in FreeReturns
    BY <1>1, <2>1, LowestIsThere
  <2> QED BY <2>1, <2>2
<1>3. returns[r] = NoReturn /\ Counted(r, returns[r], ext[r], saga[h])
  BY <1>2 DEF ReturnsInv, RowFits
<1>4. saga[h].pc = "create" /\ saga[h].pc \notin AboutToRecord
  BY DEF CreateRecord, In, AboutToRecord
<1>5. PICK s : s = saga[h]
  OBVIOUS
<1>6. /\ s.type \in {"RETURN", "CANCELLATION"} /\ s.opt \in ReturnOptions
      /\ s.qty \in 0..Ordered /\ s.qty <= Available
  BY <1>4, <1>5 DEF ReturnsInv, SagaFits
<1>7. PICK row : row = [NoReturn EXCEPT !.type = s.type, !.st = "PENDING",
                                        !.qty = s.qty, !.opt = s.opt]
  OBVIOUS
<1>8. Set(r, row) /\ Goes(h, At("begin", r)) /\ At("begin", r).pc \notin AboutToRecord
  BY <1>1, <1>5, <1>7 DEF CreateRecord, Goes, At, AboutToRecord
<1>9. UNCHANGED <<zwDocs, wz, reserved, invoice, operational, ext, faults>>
  BY DEF CreateRecord, warehouseVars
<1>10. row = [type |-> s.type, st |-> "PENDING", qty |-> s.qty, opt |-> s.opt, zw |-> 0,
              correction |-> "none", ifirma |-> "null", presta |-> "null", slip |-> FALSE]
  BY <1>7 DEF NoReturn
<1>11. row \in ReturnRows /\ row.st = "PENDING" /\ row.zw = 0 /\ row.qty = s.qty
       /\ row.correction = "none" /\ ~row.slip
  BY <1>6, <1>10 DEF ReturnRows, Statuses
<1>12. RowFits(r, row)
  BY <1>11 DEF RowFits
<1>13. returns[r].zw = 0 /\ returns[r].correction = "none" /\ ~returns[r].slip
  BY <1>3 DEF NoReturn
<1>14. Counted(r, row, ext[r], At("begin", r))
  BY <1>3, <1>4, <1>11, <1>13 DEF Counted, Awaits, At
<1>15. Returned' <= Ordered
  <2>1. ~Active(r) /\ row.qty \in Nat /\ row.st \notin {"FREE", "CANCELLED"}
    BY <1>2, <1>6, <1>11, ReturnsAssumption DEF Active
  <2>2. Returned' = Returned + row.qty
    BY <1>2, <1>8, <2>1, PiecesGrow DEF ReturnsInv
  <2>3. Returned \in Nat /\ Ordered \in Nat /\ Available = Ordered - Returned
    BY AvailableTyped
  <2> QED BY <1>6, <1>11, <2>1, <2>2, <2>3
<1>16. SagaFits(At("begin", r))'
  <2>1. returns'[r] = row
    BY <1>2, <1>8 DEF Set, ReturnsInv, ReturnsTypeOK
  <2>2. Retriable(r)'
    BY <1>11, <2>1 DEF Retriable
  <2> QED BY <1>2, <2>2 DEF SagaFits, At, Executing, Emptied, ToldFirma, ToldAll, Retriable
<1>17. faults' \in 0..MaxReturnFaults
  BY <1>9, AvailableTyped
<1> QED BY <1>2, <1>4, <1>8, <1>9, <1>11, <1>12, <1>13, <1>14, <1>15, <1>16, <1>17, RowStep

-----------------------------------------------------------------------------
(* The invariant *)

LEMMA ReturnsBegin ==
    ASSUME NEW h, ReturnHandlers = {h}, ReturnsInit
    PROVE  ReturnsInv(h)
<1>1. /\ returns = [r \in ReturnIds |-> NoReturn] /\ zwDocs = [d \in ZwIds |-> NoZw]
      /\ wz = "DRAFT" /\ reserved = TRUE /\ invoice \in BOOLEAN /\ operational = "PROCESSING"
      /\ ext = [r \in ReturnIds |-> NothingDone] /\ saga = [g \in ReturnHandlers |-> Resting]
      /\ faults = MaxReturnFaults
  BY DEF ReturnsInit
<1>2. saga[h] = Resting /\ DOMAIN saga = ReturnHandlers
  BY <1>1
<1>3. ReturnsTypeOK
  <2>1. NoReturn \in ReturnRows
    BY ReturnsAssumption DEF NoReturn, ReturnRows, Statuses
  <2>2. NoZw \in [ret : ReturnIds \cup {0}, st : {"FREE", "DRAFT", "CONFIRMED", "CANCELLED"}]
    BY DEF NoZw
  <2>3. NothingDone \in [corrections : Nat, lostCorrections : Nat, slips : Nat, lostSlips : Nat]
    BY DEF NothingDone
  <2>4. NoReturn.zw = 0
    BY DEF NoReturn
  <2>5. reserved \in BOOLEAN
    BY <1>1
  <2>6. faults \in 0..MaxReturnFaults
    BY <1>1, ReturnsAssumption
  <2> QED BY <1>1, <2>1, <2>2, <2>3, <2>4, <2>5, <2>6 DEF ReturnsTypeOK
<1>4. \A r \in ReturnIds : RowFits(r, returns[r])
  BY <1>1 DEF RowFits, NoReturn
<1>5. \A r \in ReturnIds : Counted(r, returns[r], ext[r], saga[h])
  BY <1>1, <1>2 DEF Counted, Awaits, NoReturn, NothingDone, Resting
<1>6. \A d \in ZwIds : DocFits(d)
  BY <1>1 DEF DocFits, NoZw
<1>7. Returned <= Ordered
  <2>1. {r \in ReturnIds : Active(r)} = {}
    BY <1>1 DEF Active, NoReturn
  <2>2. Returned = 0
    BY <2>1, SumEmpty DEF Returned, SumOf
  <2> QED BY <2>2, ReturnsAssumption
<1> QED BY <1>2, <1>3, <1>4, <1>5, <1>6, <1>7, RestFits DEF ReturnsInv

LEMMA ReturnsGoOn ==
    ASSUME NEW h, ReturnHandlers = {h}, ReturnsInv(h), [ReturnsNext]_returnVars
    PROVE  ReturnsInv(h)'
<1>1. CASE UNCHANGED returnVars
  <2>1. PICK s : s = saga[h]
    OBVIOUS
  <2>2. UNCHANGED <<returns, zwDocs, wz, reserved, invoice, operational, ext, saga, faults>>
    BY <1>1 DEF returnVars
  <2> QED BY <2>2 DEF ReturnsInv, ReturnsTypeOK, RowFits, DocFits, Counted, CorrectionTold, SlipTold,
        OrderEmptied, SagaFits, ExecutionFits, DeletionFits, NoExternalEffects, Retriable,
        Available, Returned, SumOf, Active, Awaits
<1>2. CASE ReturnRequest(h)
  BY <1>2, RequestsKeepReturns
<1>3. CASE ReturnStep(h)
  BY <1>3, CreateRecordKeepsReturns, BeginningKeepsReturns, CancelWarehouseKeepsReturns,
     CancelWzKeepsReturns, RestockKeepsReturns, LinkZwKeepsReturns, ConfirmZwKeepsReturns,
     IfirmaKeepsReturns, IssueCorrectionKeepsReturns, RecordCorrectionKeepsReturns,
     PrestaKeepsReturns, CreateSlipKeepsReturns, RecordSlipKeepsReturns, FinalStatusKeepsReturns,
     CompleteExecutionKeepsReturns, UndoWarehouseKeepsReturns, CancelRowKeepsReturns,
     RefreshOrderKeepsReturns DEF ReturnStep
<1>4. CASE CrashReturn(h)
  BY <1>4, CrashKeepsReturns
<1>5. CASE Ship
  BY <1>5, ShipKeepsReturns
<1>6. CASE \E d \in ZwIds : AcceptGoods(d)
  BY <1>6, AcceptGoodsKeepsReturns
<1> QED BY <1>1, <1>2, <1>3, <1>4, <1>5, <1>6 DEF ReturnsNext

(* From a single request, the invariant holds throughout. *)
LEMMA ReturnsAlways ==
    ASSUME NEW h, ReturnHandlers = {h}
    PROVE  ReturnsSpec => []ReturnsInv(h)
<1>1. ReturnsInit => ReturnsInv(h)
  BY ReturnsBegin
<1>2. ReturnsInv(h) /\ [ReturnsNext]_returnVars => ReturnsInv(h)'
  BY ReturnsGoOn
<1> QED BY <1>1, <1>2, PTL DEF ReturnsSpec

LEMMA InvToldOnce ==
    ASSUME NEW h, ReturnsInv(h)
    PROVE  ToldOnce
<1> SUFFICES ASSUME NEW r \in ReturnIds
             PROVE  /\ RecordedCorrections(r) <= 1 /\ RecordedSlips(r) <= 1
                    /\ returns[r].st = "COMPLETED" =>
                         /\ returns[r].opt.correct /\ invoice => RecordedCorrections(r) = 1
                         /\ returns[r].opt.slip /\ returns[r].qty > 0 => RecordedSlips(r) = 1
  BY DEF ToldOnce
<1>1. RowFits(r, returns[r]) /\ Counted(r, returns[r], ext[r], saga[h])
  BY DEF ReturnsInv
<1>2. RecordedCorrections(r) <= 1 /\ (returns[r].correction = "ISSUED" => RecordedCorrections(r) = 1)
  BY <1>1 DEF Counted, RecordedCorrections
<1>3. RecordedSlips(r) <= 1 /\ (returns[r].slip => RecordedSlips(r) = 1)
  BY <1>1 DEF Counted, RecordedSlips
<1>4. returns[r].st = "COMPLETED" => CorrectionTold(returns[r]) /\ SlipTold(returns[r])
  BY <1>1 DEF RowFits
<1> QED BY <1>2, <1>3, <1>4 DEF CorrectionTold, SlipTold

LEMMA InvUndone ==
    ASSUME NEW h, ReturnsInv(h)
    PROVE  UndoneIsUndone
<1>1. ASSUME NEW r \in ReturnIds, returns[r].st = "CANCELLED"
      PROVE  /\ RecordedCorrections(r) = 0 /\ RecordedSlips(r) = 0
             /\ \A d \in ZwIds : zwDocs[d].ret = r => zwDocs[d].st # "CONFIRMED"
  <2>1. /\ returns[r].correction # "ISSUED" /\ ~returns[r].slip
        /\ returns[r].zw # 0 => zwDocs[returns[r].zw].st = "CANCELLED"
        /\ Counted(r, returns[r], ext[r], saga[h])
    BY <1>1 DEF ReturnsInv, RowFits
  <2>2. ~Awaits(saga[h], "recordCorrection", r) /\ ~Awaits(saga[h], "recordSlip", r)
    BY <1>1 DEF Awaits, ReturnsInv, SagaFits, ExecutionFits, Executing, Emptied, ToldFirma
  <2>3. RecordedCorrections(r) = 0 /\ RecordedSlips(r) = 0
    BY <2>1, <2>2 DEF Counted, RecordedCorrections, RecordedSlips
  <2>4. ASSUME NEW d \in ZwIds, zwDocs[d].ret = r, zwDocs[d].st = "CONFIRMED" PROVE FALSE
    <3>1. returns[r].zw = d /\ d # 0
      BY <2>4, ReturnsAssumption DEF ReturnsInv, DocFits
    <3> QED BY <2>1, <2>4, <3>1
  <2> QED BY <2>3, <2>4
<1>2. DeletedLeavesNothing
  BY <1>1 DEF DeletedLeavesNothing
<1>3. \A r \in ReturnIds : returns[r].type = "CANCELLATION" /\ returns[r].st = "COMPLETED"
        => ~reserved /\ wz = "CANCELLED"
  BY DEF ReturnsInv, RowFits, OrderEmptied
<1> QED BY <1>2, <1>3 DEF UndoneIsUndone

(* A confirmed ZW brings back the goods of one operation that counts. *)
LEMMA InvPieces ==
    ASSUME NEW h, ReturnsInv(h)
    PROVE  PiecesCountOnce
<1> DEFINE g == [r \in ReturnIds |-> returns[r].qty]
           f == [d \in ZwIds |-> returns[zwDocs[d].ret].qty]
           e == [d \in ZwIds |-> zwDocs[d].ret]
           D == {d \in ZwIds : zwDocs[d].st = "CONFIRMED"}
           A == {r \in ReturnIds : Active(r)}
           E == {e[d] : d \in D}
<1>1. Returned \in Nat /\ Returned <= Ordered /\ Ordered \in Nat
  BY AvailableTyped
<1>2. \A d \in D : /\ zwDocs[d].ret \in ReturnIds /\ returns[zwDocs[d].ret].zw = d
                   /\ Active(zwDocs[d].ret) /\ wz = "CONFIRMED"
  <2> SUFFICES ASSUME NEW d \in D, NEW r, r = zwDocs[d].ret
               PROVE  r \in ReturnIds /\ returns[r].zw = d /\ Active(r) /\ wz = "CONFIRMED"
    OBVIOUS
  <2>1. r \in ReturnIds /\ returns[r].zw = d /\ d # 0 /\ zwDocs[d].st = "CONFIRMED"
    BY ReturnsAssumption DEF ReturnsInv, DocFits
  <2>2. RowFits(r, returns[r])
    BY <2>1 DEF ReturnsInv
  <2>3. returns[r].st # "FREE" /\ returns[r].st # "CANCELLED"
    BY <2>1, <2>2 DEF RowFits, NoReturn
  <2> QED BY <2>1, <2>2, <2>3 DEF RowFits, Active
<1>3. IsFiniteSet(D) /\ IsFiniteSet(A)
  BY FS_Subset, ReturnsAssumption
<1>4. \A r \in A : g[r] \in Nat
  BY PiecesTyped DEF ReturnsInv
<1>5. \A x, y \in D : e[x] = e[y] => x = y
  BY <1>2
<1>6. E \subseteq A
  BY <1>2
<1>7. \A x \in D : f[x] = g[e[x]] /\ e[x] \in E
  BY <1>2
<1>8. Returned = SumFunctionOnSet(g, A)
  BY DEF Returned, SumOf
<1>9. wz # "CONFIRMED" => D = {}
  BY <1>2
<1>10. PiecesCountOnce <=> /\ Returned <= Ordered
                           /\ SumFunctionOnSet(f, D) <= IF wz = "CONFIRMED" THEN Ordered ELSE 0
  BY DEF PiecesCountOnce
<1> HIDE DEF g, f, e, D, A
<1>11. \A x \in D : f[x] = g[e[x]] /\ g[e[x]] \in Int
  BY <1>4, <1>6, <1>7
<1>12. SumFunctionOnSet(f, D) = SumFunctionOnSet(g, E)
  BY <1>3, <1>5, <1>11, SumRenamed
<1>13. SumFunctionOnSet(g, E) <= SumFunctionOnSet(g, A)
  BY <1>3, <1>4, <1>6, SumPart
<1>14. IsFiniteSet(E) /\ \A x \in E : g[x] \in Nat
  BY <1>3, <1>4, <1>6, FS_Subset
<1>15. SumFunctionOnSet(g, E) \in Nat
  BY <1>14, SumNatural
<1>16. SumFunctionOnSet(f, D) <= Ordered
  BY <1>1, <1>8, <1>12, <1>13, <1>15
<1>17. CASE wz = "CONFIRMED"
  BY <1>1, <1>10, <1>16, <1>17
<1>18. CASE wz # "CONFIRMED"
  <2>1. SumFunctionOnSet(f, D) = 0
    BY <1>9, <1>18, SumEmpty
  <2> QED BY <1>1, <1>10, <1>18, <2>1
<1> QED BY <1>17, <1>18

(* ReturnsTypeOK: the rows, documents and counters of an order's returns   *)
(* stay in their domains, and a return names only a ZW made for it, if one *)
(* request is served at a time.                                            *)
THEOREM ReturnsTypes ==
    ASSUME OneReturnRequest
    PROVE  ReturnsSpec => []ReturnsTypeOK
<1>1. PICK h : ReturnHandlers = {h}
  BY DEF OneReturnRequest
<1>2. ReturnsSpec => []ReturnsInv(h)
  BY <1>1, ReturnsAlways
<1>3. ReturnsInv(h) => ReturnsTypeOK
  BY DEF ReturnsInv
<1> QED BY <1>2, <1>3, PTL

(* ToldOnce: executeOrderReturn, retried as often as it fails or crashes,  *)
(* tells iFirma and PrestaShop of an operation once, but for answers that  *)
(* were lost, if one request is served at a time.                          *)
THEOREM ReturnsToldOnce ==
    ASSUME OneReturnRequest
    PROVE  ReturnsSpec => []ToldOnce
<1>1. PICK h : ReturnHandlers = {h}
  BY DEF OneReturnRequest
<1>2. ReturnsSpec => []ReturnsInv(h)
  BY <1>1, ReturnsAlways
<1>3. ReturnsInv(h) => ToldOnce
  BY InvToldOnce
<1> QED BY <1>2, <1>3, PTL

(* UndoneIsUndone: a deleted return leaves no correction, refund or goods  *)
(* behind, and a completed cancellation leaves the order nothing, if one   *)
(* request is served at a time.                                            *)
THEOREM ReturnsUndone ==
    ASSUME OneReturnRequest
    PROVE  ReturnsSpec => []UndoneIsUndone
<1>1. PICK h : ReturnHandlers = {h}
  BY DEF OneReturnRequest
<1>2. ReturnsSpec => []ReturnsInv(h)
  BY <1>1, ReturnsAlways
<1>3. ReturnsInv(h) => UndoneIsUndone
  BY InvUndone
<1> QED BY <1>2, <1>3, PTL

(* PiecesCountOnce: the operations that count never cover more pieces than *)
(* were ordered, and what left with the WZ comes back once, if one request *)
(* is served at a time.                                                    *)
THEOREM ReturnsCountOnce ==
    ASSUME OneReturnRequest
    PROVE  ReturnsSpec => []PiecesCountOnce
<1>1. PICK h : ReturnHandlers = {h}
  BY DEF OneReturnRequest
<1>2. ReturnsSpec => []ReturnsInv(h)
  BY <1>1, ReturnsAlways
<1>3. ReturnsInv(h) => PiecesCountOnce
  BY InvPieces
<1> QED BY <1>2, <1>3, PTL

-----------------------------------------------------------------------------
(* ServicesTypeOK: in the behaviours TLC checks, where the services' part  *)
(* is chosen first, all of their state stays in its domain.  The           *)
(* composition is projected on each service's own specification.           *)
THEOREM ServicesTypes ==
    ASSUME OneReturnRequest
    PROVE  Spec => []ServicesTypeOK
<1>1. Init => ReturnsInit /\ AuthInit /\ InvoicingInit
  BY DEF Init
<1>2. [Next]_vars => [ReturnsNext]_returnVars
  BY DEF Next, vars, Returns, Serves, Bills
<1>3. [Next]_vars => [AuthNext]_authVars
  BY DEF Next, vars, Returns, Serves, Bills
<1>4. [Next]_vars => [InvoicingNext]_billVars
  <2> SUFFICES ASSUME [Next]_vars PROVE [InvoicingNext]_billVars
    OBVIOUS
  <2>1. CASE UNCHANGED vars
    BY <2>1 DEF vars
  <2>2. CASE Next
    BY <2>2 DEF Next, Returns, Serves, Bills
  <2> QED BY <2>1, <2>2
<1>5. ReturnsSpec => []ReturnsTypeOK
  BY ReturnsTypes
<1>6. AuthSpec => []AuthTypeOK
  <2>1. AuthInv => AuthTypeOK
    BY DEF AuthInv
  <2> QED BY <2>1, AuthInitInv, AuthStep, PTL DEF AuthSpec
<1>7. InvoicingSpec => []InvoicingTypeOK
  BY InvoicingTypes
<1>8. ReturnsTypeOK /\ AuthTypeOK /\ InvoicingTypeOK => ServicesTypeOK
  BY DEF ServicesTypeOK
<1> QED BY <1>1, <1>2, <1>3, <1>4, <1>5, <1>6, <1>7, <1>8, PTL
        DEF Spec, ReturnsSpec, AuthSpec, InvoicingSpec
=============================================================================
