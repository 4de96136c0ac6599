----------------------- MODULE WarehouseBalanceProofs -----------------------
(***************************************************************************)
(* What holds when the warehouse serves one request after another, however *)
(* each of them ends: the balance of stock, documents and reservations,    *)
(* and that documents and reservations agree on what was issued.  What a   *)
(* request has read is then still true when it writes.                     *)
(***************************************************************************)
EXTENDS WarehouseStockProofs

OneAtATime == \A g, h \in Handlers : g = h

(* The items a WZ gets from the reservations of its order. *)
LinesFor(o) == {[n |-> 1, res |-> r, qty |-> res[r].qty] : r \in ActiveLocal(o)}

(* The reservations that the transactions of a document read one by one. *)
ToConsume(d) == {l.res : l \in ConsumedLines(d)}
ToRelease(d) == IF doc[d].st = "CONFIRMED" THEN {l.res : l \in doc[d].lines} ELSE {}
SeenOf(R) == {[r |-> r, src |-> res[r].src, qty |-> res[r].qty] : r \in R}

Confirms(t) == ~t.draft /\ (t.force \/ AutoConfirmWz) /\ ~t.warn

(* A transaction finds what was read before it.                            *)
FreshReservation(t) ==
    /\ t.k = "reserveTx" => TakesReservations(t.o)
    /\ t.k = "apply" => /\ t.seen = SeenActive(t.o) /\ Planned(t.o, t)
                        /\ t.local + t.back > 0 => TakesReservations(t.o)
    /\ t.k = "wzTx" => /\ t.lines = LinesFor(t.o) /\ t.unread \subseteq ActiveLocal(t.o)
                       /\ t.consumed = ActiveLocal(t.o) \ t.unread
                       /\ Confirms(t) \/ t.consumed = {}
    /\ t.k = "recalculateTx" => "recalculate" \in Requests

OnDraftKinds == {"syncTx", "confirmTx", "addItemTx", "setItemTx", "dropItemTx", "dropOwnTx",
                 "deleteTx", "updateTx"}

(* What a document takes from stock itself when it is confirmed. *)
FreshConfirm(t) ==
    /\ t.own = doc[t.d].own /\ t.sys = doc[t.d].sys /\ t.detached = DetachedLines(t.d)
    /\ t.unread \subseteq ToConsume(t.d)
    /\ t.consumed = {r \in ToConsume(t.d) \ t.unread : res[r].st = "ACTIVE"}
    /\ t.cancelled = {l.res : l \in BackorderLines(t.d)}
    /\ doc[t.d].type \in {"WZ", "RW"} /\ NoNegative =>
         \/ t.own + SumQty(t.detached) <= 0
         \/ t.own + SumQty(t.detached) <= stock
FreshDocument(t) ==
    /\ t.k \in OnDraftKinds => doc[t.d].st = "DRAFT"
    /\ t.k = "syncTx" => t = SyncEdit(t.d) /\ doc[t.d].type = "WZ" /\ doc[t.d].o # None
    /\ t.k = "updateTx" => (t.order => "assign" \in Requests)
    /\ t.k = "confirmTx" => FreshConfirm(t)
    /\ t.k = "cancelTx" => /\ t.st = doc[t.d].st /\ t.own = doc[t.d].own
                           /\ t.sys = doc[t.d].sys /\ t.unread \subseteq ToRelease(t.d)
                           /\ t.seen = SeenOf({r \in ToRelease(t.d) \ t.unread : Holding(r)})
    /\ t.k = "pzTx" => doc[t.d].type = "ZH" /\ t.st = doc[t.d].st /\ ~Received(t.d)
Fresh(t) == FreshReservation(t) /\ FreshDocument(t)

(* Nothing of what was read waits behind another step. *)
QueuedKinds == {"collect", "wz", "confirm", "zhCollect", "reallocOrders", "reallocDrafts"}
Queued == {x \in PendingStep : x.k \in QueuedKinds}

FreshInv == /\ \A h \in Handlers : Fresh(at[h])
            /\ rest \in [Handlers -> Seq(Queued)]

ReadKinds == {"reserveTx", "apply", "wzTx", "recalculateTx", "cancelTx", "pzTx"} \cup OnDraftKinds
Plain(x) == x.k \notin ReadKinds

-----------------------------------------------------------------------------
(* Steps that rest on nothing that was read *)

LEMMA PlainFresh ==
    ASSUME NEW x, Plain(x)
    PROVE  Fresh(x) /\ Fresh(x)'
BY DEF Plain, ReadKinds, OnDraftKinds, Fresh, FreshReservation, FreshDocument

LEMMA QueuedPlain == \A x \in Queued : Plain(x)
BY DEF Queued, QueuedKinds, Plain, ReadKinds, OnDraftKinds

LEMMA IdlePlain == Plain(Idle)
BY DEF Idle, Plain, ReadKinds, OnDraftKinds

(* The next step is fresh. *)
LEMMA GotoFresh ==
    ASSUME OneAtATime, StepsTyped, FreshInv, NEW h \in Handlers, NEW x, Goto(h, x), Fresh(x)'
    PROVE  FreshInv'
<1>1. rest' = rest /\ at'[h] = x
  BY DEF Goto, StepsTyped
<1>2. \A g \in Handlers : at'[g] = x
  BY <1>1 DEF OneAtATime
<1> QED BY <1>1, <1>2 DEF FreshInv

LEMMA CallFresh ==
    ASSUME OneAtATime, StepsTyped, FreshInv, NEW h \in Handlers, NEW x, NEW after \in Seq(Queued),
           Call(h, x, after), Plain(x)
    PROVE  FreshInv'
<1>1. rest[h] \in Seq(Queued) /\ after \o rest[h] \in Seq(Queued)
  BY DEF FreshInv
<1>2. rest' = [rest EXCEPT ![h] = after \o rest[h]] /\ at'[h] = x
  BY DEF Call, StepsTyped
<1>3. \A g \in Handlers : at'[g] = x
  BY <1>2 DEF OneAtATime
<1>4. rest' \in [Handlers -> Seq(Queued)]
  BY <1>1, <1>2 DEF FreshInv
<1>5. Fresh(x)'
  BY PlainFresh
<1> QED BY <1>3, <1>4, <1>5 DEF FreshInv

LEMMA ThrowFresh ==
    ASSUME OneAtATime, StepsTyped, FreshInv, NEW h \in Handlers, Throw(h)
    PROVE  FreshInv'
<1>1. rest' = [rest EXCEPT ![h] = <<>>] /\ at'[h] = Idle
  BY DEF Throw, StepsTyped
<1>2. \A g \in Handlers : at'[g] = Idle
  BY <1>1 DEF OneAtATime
<1>3. rest' \in [Handlers -> Seq(Queued)]
  BY <1>1 DEF FreshInv
<1>4. Fresh(Idle)'
  BY PlainFresh, IdlePlain
<1> QED BY <1>2, <1>3, <1>4 DEF FreshInv

LEMMA ReturnFresh ==
    ASSUME OneAtATime, StepsTyped, FreshInv, NEW h \in Handlers, Return(h)
    PROVE  FreshInv'
<1>1. rest[h] \in Seq(Queued)
  BY DEF FreshInv
<1>2. CASE rest[h] = <<>>
  <2>1. rest' = rest /\ at'[h] = Idle
    BY <1>2 DEF Return, StepsTyped
  <2>2. \A g \in Handlers : at'[g] = Idle
    BY <2>1 DEF OneAtATime
  <2>3. Fresh(Idle)'
    BY PlainFresh, IdlePlain
  <2> QED BY <2>1, <2>2, <2>3 DEF FreshInv
<1>3. CASE rest[h] # <<>>
  <2>1. PICK x \in Queued : x = Head(rest[h])
    BY <1>1, <1>3
  <2>2. Tail(rest[h]) \in Seq(Queued)
    BY <1>1, <1>3
  <2>3. rest' = [rest EXCEPT ![h] = Tail(rest[h])] /\ at'[h] = x
    BY <1>3, <2>1 DEF Return, StepsTyped
  <2>4. \A g \in Handlers : at'[g] = x
    BY <2>3 DEF OneAtATime
  <2>5. rest' \in [Handlers -> Seq(Queued)]
    BY <2>2, <2>3 DEF FreshInv
  <2>6. Fresh(x)'
    BY PlainFresh, QueuedPlain
  <2> QED BY <2>4, <2>5, <2>6 DEF FreshInv
<1> QED BY <1>2, <1>3

(* What is fresh stays so while no row changes. *)
LEMMA SameReads ==
    ASSUME UNCHANGED rows, NEW o, NEW d
    PROVE  /\ TakesReservations(o)' = TakesReservations(o)
           /\ SeenActive(o)' = SeenActive(o)
           /\ LinesFor(o)' = LinesFor(o)
           /\ SyncEdit(d)' = SyncEdit(d)
           /\ DetachedLines(d)' = DetachedLines(d)
           /\ BackorderLines(d)' = BackorderLines(d)
           /\ ToConsume(d)' = ToConsume(d)
           /\ ToRelease(d)' = ToRelease(d)
           /\ ActiveLocal(o)' = ActiveLocal(o)
           /\ Received(d)' = Received(d)
<1>1. stock' = stock /\ order' = order /\ res' = res /\ doc' = doc
  BY DEF rows
<1>2. TakesReservations(o)' = TakesReservations(o)
  BY <1>1 DEF TakesReservations
<1>3. SeenActive(o)' = SeenActive(o)
  BY <1>1 DEF SeenActive, Active
<1>4. LinesFor(o)' = LinesFor(o)
  BY <1>1 DEF LinesFor, ActiveLocal, Active
<1>5. SyncEdit(d)' = SyncEdit(d)
  BY <1>1 DEF SyncEdit, ActiveLocal, Active
<1>6. /\ DetachedLines(d)' = DetachedLines(d) /\ BackorderLines(d)' = BackorderLines(d)
      /\ ToConsume(d)' = ToConsume(d)
  BY <1>1 DEF DetachedLines, BackorderLines, ConsumedLines, LinesOf, ToConsume
<1>7. Received(d)' = Received(d)
  BY <1>1 DEF Received
<1>8. ToRelease(d)' = ToRelease(d) /\ ActiveLocal(o)' = ActiveLocal(o)
  BY <1>1 DEF ToRelease, ActiveLocal, Active
<1> QED BY <1>2, <1>3, <1>4, <1>5, <1>6, <1>7, <1>8

LEMMA SamePlan ==
    ASSUME UNCHANGED rows, NEW o, NEW plan
    PROVE  Planned(o, plan)' = Planned(o, plan)
BY DEF rows, Planned, SumRes, Consumed, SeenQty, SeenActive, Active

LEMMA FreshKept ==
    ASSUME UNCHANGED rows, NEW x, Fresh(x)
    PROVE  Fresh(x)'
<1>1. stock' = stock /\ doc' = doc /\ res' = res
  BY DEF rows
<1>2. FreshReservation(x)'
  BY SameReads, SamePlan DEF Fresh, FreshReservation, Confirms
<1>3. FreshConfirm(x) => FreshConfirm(x)'
  BY <1>1, SameReads DEF FreshConfirm
<1>6. x.k = "cancelTx" =>
        /\ ToRelease(x.d)' = ToRelease(x.d)
        /\ SeenOf({r \in ToRelease(x.d) \ x.unread : Holding(r)})'
             = SeenOf({r \in ToRelease(x.d) \ x.unread : Holding(r)})
  BY <1>1, SameReads DEF SeenOf, Holding
<1>7. FreshDocument(x)'
  BY <1>1, <1>3, <1>6, SameReads DEF Fresh, FreshDocument
<1> QED BY <1>2, <1>7 DEF Fresh

-----------------------------------------------------------------------------
(* Every step leads to a fresh one *)

LEMMA PlainKinds ==
    /\ \A o \in Orders : /\ Plain(ReserveStep(o)) /\ Plain(ReleaseStep(o)) /\ Plain(FinalizeStep(o))
                         /\ Plain([k |-> "reserveAndWz", o |-> o]) /\ Plain([k |-> "zh", o |-> o])
    /\ \A d \in DocIds : /\ Plain(SyncStep(d)) /\ Plain(ConfirmStep(d))
                         /\ ConfirmStep(d) \in Queued
    /\ \A o \in Orders : \A q : Plain([k |-> "zhTx", o |-> o, qty |-> q])
    /\ \A w : Plain([k |-> "reallocOrders", left |-> w, all |-> w])
    /\ \A w : Plain([k |-> "reallocDrafts", left |-> w])
    /\ Plain([k |-> "realloc"])
BY PendingSteps
   DEF Plain, ReadKinds, OnDraftKinds, Queued, QueuedKinds, ReserveStep, ReleaseStep, FinalizeStep,
       SyncStep, ConfirmStep

LEMMA PlainWz ==
    ASSUME NEW o \in Orders, NEW f \in BOOLEAN, NEW d \in BOOLEAN, NEW r \in BOOLEAN
    PROVE  WzStep(o, f, d, r) \in Queued /\ Plain(WzStep(o, f, d, r))
<1>1. WzStep(o, f, d, r) \in PendingStep
  BY PendingSteps, Zenon
<1>2. WzStep(o, f, d, r).k = "wz"
  BY DEF WzStep
<1> QED BY <1>1, <1>2, QueuedPlain DEF Queued, QueuedKinds

LEMMA PlainCollect ==
    ASSUME NEW t, t.o \in Orders, {t.force, t.draft, t.retry} \subseteq BOOLEAN
    PROVE  CollectStep(t) \in Queued
BY DEF CollectStep, Queued, QueuedKinds, PendingStep, CollectSteps

LEMMA OneQueued == ASSUME NEW x \in Queued PROVE <<x>> \in Seq(Queued)
OBVIOUS

(* The steps of a request, all of whose rows stay as they are. *)
LEMMA GotoReads ==
    ASSUME OneAtATime, StepsTyped, FreshInv, NEW h \in Handlers, NEW x, Goto(h, x), Fresh(x),
           UNCHANGED rows
    PROVE  FreshInv'
BY GotoFresh, FreshKept

LEMMA GotoPlain ==
    ASSUME OneAtATime, StepsTyped, FreshInv, NEW h \in Handlers, NEW x, Goto(h, x), Plain(x)
    PROVE  FreshInv'
BY GotoFresh, PlainFresh

LEMMA FreshWz ==
    ASSUME NEW t, NEW warn
    PROVE  Fresh(WzTxStep(t, warn))
<1> DEFINE x == WzTxStep(t, warn)
<1>1. /\ x.k = "wzTx" /\ x.o = t.o /\ x.lines = LinesFor(t.o)
      /\ x.unread = ActiveLocal(t.o) /\ x.consumed = {}
  BY DEF WzTxStep, LinesFor
<1> HIDE DEF x
<1>2. Fresh(x)
  BY <1>1 DEF Fresh, FreshReservation, FreshDocument, OnDraftKinds
<1> QED BY <1>2 DEF x

(* Reading one more reservation leaves the step as fresh as it was. *)
LEMMA FreshReads ==
    ASSUME OneAtATime, StepShape, StepsTyped, FreshInv, UNCHANGED rows, NEW h \in Handlers,
           \/ at[h].k = "wzTx" /\ Confirms(at[h]) /\ ReadConsumed(h)
           \/ at[h].k = "confirmTx" /\ ReadConsumed(h)
           \/ at[h].k = "cancelTx" /\ ReadReleased(h)
    PROVE  FreshInv'
<1>1. PICK x : x = at[h]
  OBVIOUS
<1>2. StepOK(x) /\ Fresh(x)
  BY <1>1 DEF StepShape, FreshInv
<1>3. CASE Throw(h)
  BY <1>3, ThrowFresh
<1>4. CASE x.k \in {"wzTx", "confirmTx"} /\ ~Throw(h)
  <2>1. PICK r \in x.unread :
          Consumable(r) /\
          Goto(h, [x EXCEPT !.unread = x.unread \ {r},
                            !.consumed = IF res[r].st = "ACTIVE" THEN x.consumed \cup {r}
                                         ELSE x.consumed])
    BY <1>1, <1>4 DEF ReadConsumed
  <2>2. PICK unread, found :
          /\ unread = x.unread \ {r}
          /\ found = IF res[r].st = "ACTIVE" THEN x.consumed \cup {r} ELSE x.consumed
    OBVIOUS
  <2>3. PICK y : y = [x EXCEPT !.unread = unread, !.consumed = found]
    OBVIOUS
  <2>4. Goto(h, y)
    BY <2>1, <2>2, <2>3
  <2>5. CASE x.k = "wzTx"
    <3>0. x.k \in {"wzTx", "confirmTx"} /\ y = ToConsumeRead(x, unread, found)
      BY <2>3, <2>5 DEF ToConsumeRead
    <3>1. /\ y.k = "wzTx" /\ y.o = x.o /\ y.lines = x.lines /\ y.force = x.force
          /\ y.draft = x.draft /\ y.warn = x.warn /\ y.unread = unread /\ y.consumed = found
      BY <1>2, <3>0, <2>5, ReadingMoves
    <3>2. /\ x.lines = LinesFor(x.o) /\ x.unread \subseteq ActiveLocal(x.o)
          /\ x.consumed = ActiveLocal(x.o) \ x.unread
      BY <1>2, <2>5 DEF Fresh, FreshReservation
    <3>3. r \in ActiveLocal(x.o) /\ res[r].st = "ACTIVE"
      BY <2>1, <3>2 DEF ActiveLocal, Active
    <3>4. unread \subseteq ActiveLocal(x.o) /\ found = ActiveLocal(x.o) \ unread
      BY <2>2, <3>2, <3>3
    <3>5. Confirms(y)
      BY <1>1, <2>5, <3>1 DEF Confirms
    <3>6. FreshReservation(y)
      BY <3>1, <3>2, <3>4, <3>5 DEF FreshReservation
    <3>7. FreshDocument(y)
      BY <3>1 DEF FreshDocument, OnDraftKinds
    <3> QED BY <2>4, <3>6, <3>7, GotoReads DEF Fresh
  <2>6. CASE x.k = "confirmTx"
    <3>0. x.k \in {"wzTx", "confirmTx"} /\ y = ToConsumeRead(x, unread, found)
      BY <2>3, <2>6 DEF ToConsumeRead
    <3>1. /\ y.k = "confirmTx" /\ y.d = x.d /\ y.own = x.own /\ y.sys = x.sys
          /\ y.detached = x.detached /\ y.cancelled = x.cancelled
          /\ y.unread = unread /\ y.consumed = found
      BY <1>2, <3>0, <2>6, ReadingMoves
    <3>2. FreshConfirm(x) /\ doc[x.d].st = "DRAFT"
      BY <1>2, <2>6 DEF Fresh, FreshDocument, OnDraftKinds
    <3>3. /\ unread \subseteq ToConsume(x.d)
          /\ found = {q \in ToConsume(x.d) \ unread : res[q].st = "ACTIVE"}
      BY <2>1, <2>2, <3>2 DEF FreshConfirm
    <3>4. FreshConfirm(y)
      BY <3>1, <3>2, <3>3 DEF FreshConfirm
    <3>5. FreshDocument(y)
      BY <3>1, <3>2, <3>4 DEF FreshDocument
    <3>6. FreshReservation(y)
      BY <3>1 DEF FreshReservation
    <3> QED BY <2>4, <3>5, <3>6, GotoReads DEF Fresh
  <2> QED BY <1>4, <2>5, <2>6
<1>5. CASE x.k = "cancelTx"
  <2>1. PICK r \in x.unread :
          Goto(h, [x EXCEPT !.unread = x.unread \ {r},
                            !.seen = IF Holding(r)
                                     THEN x.seen \cup {[r |-> r, src |-> res[r].src, qty |-> res[r].qty]}
                                     ELSE x.seen])
    BY <1>1, <1>5 DEF ReadReleased
  <2>2. PICK unread, found :
          /\ unread = x.unread \ {r}
          /\ found = IF Holding(r)
                     THEN x.seen \cup {[r |-> r, src |-> res[r].src, qty |-> res[r].qty]}
                     ELSE x.seen
    OBVIOUS
  <2>3. PICK y : y = [x EXCEPT !.unread = unread, !.seen = found]
    OBVIOUS
  <2>4. Goto(h, y)
    BY <2>1, <2>2, <2>3
  <2>5. /\ y.k = "cancelTx" /\ y.d = x.d /\ y.st = x.st /\ y.own = x.own /\ y.sys = x.sys
        /\ y.unread = unread /\ y.seen = found
    <3>1. y = ToReleaseRead(x, unread, found)
      BY <2>3 DEF ToReleaseRead
    <3> QED BY <1>2, <1>5, <3>1, ReadingMoves
  <2>6. /\ x.st = doc[x.d].st /\ x.own = doc[x.d].own /\ x.sys = doc[x.d].sys
        /\ x.unread \subseteq ToRelease(x.d)
        /\ x.seen = SeenOf({q \in ToRelease(x.d) \ x.unread : Holding(q)})
    BY <1>2, <1>5 DEF Fresh, FreshDocument
  <2>7. unread \subseteq ToRelease(x.d)
    BY <2>2, <2>6
  <2>8. found = SeenOf({q \in ToRelease(x.d) \ unread : Holding(q)})
    <3>1. CASE Holding(r)
      <4>1. {q \in ToRelease(x.d) \ unread : Holding(q)}
              = {q \in ToRelease(x.d) \ x.unread : Holding(q)} \cup {r}
        BY <2>1, <2>2, <2>6, <3>1
      <4>2. \A R : SeenOf(R \cup {r})
                     = SeenOf(R) \cup {[r |-> r, src |-> res[r].src, qty |-> res[r].qty]}
        BY DEF SeenOf
      <4> QED BY <2>2, <2>6, <3>1, <4>1, <4>2
    <3>2. CASE ~Holding(r)
      <4>1. {q \in ToRelease(x.d) \ unread : Holding(q)}
              = {q \in ToRelease(x.d) \ x.unread : Holding(q)}
        BY <2>2, <3>2
      <4> QED BY <2>2, <2>6, <3>2, <4>1
    <3> QED BY <3>1, <3>2
  <2>9. FreshDocument(y)
    BY <2>5, <2>6, <2>7, <2>8 DEF FreshDocument, OnDraftKinds
  <2>10. FreshReservation(y)
    BY <2>5 DEF FreshReservation
  <2> QED BY <2>4, <2>9, <2>10, GotoReads DEF Fresh
<1> QED BY <1>1, <1>3, <1>4, <1>5

LEMMA FreshReservations ==
    ASSUME OneAtATime, RowsTyped, StepsTyped, FreshInv, NEW h \in Handlers,
           Reserve(h) \/ ReserveTx(h) \/ ReleaseTx(h) \/ Apply(h) \/ ReserveAndWz(h)
    PROVE  FreshInv'
<1>1. at[h] \in AnyStep
  BY DEF StepsTyped
<1>2. CASE Reserve(h)
  <2> DEFINE x == [k |-> "reserveTx", o |-> at[h].o]
  <2>1. UNCHANGED rows
    BY <1>2 DEF Reserve, rows
  <2>2. Return(h) \/ (TakesReservations(at[h].o) /\ Goto(h, x))
    BY <1>2 DEF Reserve
  <2>3. CASE TakesReservations(at[h].o) /\ Goto(h, x)
    <3>1. x.k = "reserveTx" /\ x.o = at[h].o
      OBVIOUS
    <3>2. Goto(h, x)
      BY <2>3
    <3> HIDE DEF x
    <3>3. Fresh(x)
      BY <2>3, <3>1 DEF Fresh, FreshReservation, FreshDocument, OnDraftKinds
    <3> QED BY <2>1, <3>2, <3>3, GotoReads
  <2> QED BY <2>2, <2>3, ReturnFresh
<1>3. CASE ReserveTx(h) \/ ReleaseTx(h)
  <2>1. UNCHANGED rows
    BY <1>3 DEF ReserveTx, ReleaseTx, rows
  <2>2. PICK plan : /\ Planned(at[h].o, plan)
                    /\ ReleaseTx(h) => plan = NothingHeld
                    /\ Goto(h, ApplyStep(at[h].o, SeenActive(at[h].o), plan))
    BY <1>3, ReservationPlanned
  <2> DEFINE x == ApplyStep(at[h].o, SeenActive(at[h].o), plan)
  <2>3. /\ x.k = "apply" /\ x.o = at[h].o /\ x.seen = SeenActive(at[h].o)
        /\ x.local = plan.local /\ x.back = plan.back /\ x.short = plan.short
    BY DEF ApplyStep
  <2>4. Goto(h, x)
    BY <2>2
  <2> HIDE DEF x
  <2>5. plan.local + plan.back > 0 => TakesReservations(at[h].o)
    <3>1. CASE ReserveTx(h)
      <4>1. at[h].k = "reserveTx"
        BY <3>1 DEF ReserveTx
      <4> QED BY <4>1 DEF FreshInv, Fresh, FreshReservation
    <3>2. CASE ReleaseTx(h)
      <4>1. plan.local = 0 /\ plan.back = 0
        BY <2>2, <3>2 DEF NothingHeld, Split
      <4> QED BY <4>1
    <3> QED BY <1>3, <3>1, <3>2
  <2>6. Planned(x.o, x)
    BY <2>2, <2>3 DEF Planned
  <2>7. Fresh(x)
    BY <2>3, <2>5, <2>6 DEF Fresh, FreshReservation, FreshDocument, OnDraftKinds
  <2> QED BY <2>1, <2>4, <2>7, GotoReads
<1>4. CASE Apply(h)
  <2>0. Throw(h) \/ ReturnResult(h)
    BY <1>4 DEF Apply
  <2>1. CASE rest[h] # <<>> /\ Head(rest[h]).k = "collect" /\ ReturnResult(h)
    <3>0. PICK x : x = [Head(rest[h]) EXCEPT !.warn = at[h].short]
      OBVIOUS
    <3>1. PICK y \in Queued : y = Head(rest[h])
      BY <2>1 DEF FreshInv
    <3>2. x.k = "collect"
      <4>1. y.k = "collect" /\ y \in CollectSteps
        BY <2>1, <3>1
           DEF Queued, PendingStep, OrderSteps, WzSteps, DocSteps, ReallocSteps
      <4> QED BY <3>0, <3>1, <4>1 DEF CollectSteps
    <3>3. at' = [at EXCEPT ![h] = x] /\ rest' = [rest EXCEPT ![h] = Tail(rest[h])]
      BY <2>1, <3>0 DEF ReturnResult, StepsTyped
    <3>4. Fresh(x)'
      BY <3>2, PlainFresh DEF Plain, ReadKinds, OnDraftKinds
    <3>5. \A g \in Handlers : at'[g] = x
      BY <3>3 DEF OneAtATime, StepsTyped
    <3>6. rest' \in [Handlers -> Seq(Queued)]
      <4>1. Tail(rest[h]) \in Seq(Queued)
        BY <2>1 DEF FreshInv
      <4> QED BY <3>3, <4>1 DEF FreshInv
    <3> QED BY <3>4, <3>5, <3>6 DEF FreshInv
  <2>2. CASE ~(rest[h] # <<>> /\ Head(rest[h]).k = "collect") /\ ReturnResult(h)
    BY <2>2, ReturnFresh DEF ReturnResult
  <2> QED BY <2>0, <2>1, <2>2, ThrowFresh
<1>5. CASE ReserveAndWz(h)
  <2>1. at[h].o \in Orders /\ FALSE \in BOOLEAN
    BY <1>1, <1>5, ReservationFields DEF ReserveAndWz
  <2>2. WzStep(at[h].o, FALSE, FALSE, FALSE) \in Queued
    BY <2>1, PlainWz, Zenon
  <2>3. <<WzStep(at[h].o, FALSE, FALSE, FALSE)>> \in Seq(Queued)
    BY <2>2, OneQueued, Zenon
  <2>4. Plain(ReserveStep(at[h].o))
    BY <2>1, PlainKinds
  <2> QED BY <1>5, <2>3, <2>4, CallFresh, Zenon DEF ReserveAndWz
<1> QED BY <1>2, <1>3, <1>4, <1>5

LEMMA FreshWzSteps ==
    ASSUME OneAtATime, RowsTyped, StepShape, StepsTyped, FreshInv, NEW h \in Handlers,
           Wz(h) \/ Collect(h) \/ WzTx(h) \/ Sync(h) \/ SyncTx(h) \/ Finalize(h)
    PROVE  FreshInv'
<1>1. at[h] \in AnyStep
  BY DEF StepsTyped
<1>2. ASSUME NEW d \in DocIds, \/ Call(h, SyncStep(d), <<>>)
                               \/ Call(h, SyncStep(d), <<ConfirmStep(d)>>)
      PROVE  FreshInv'
  <2>1. Plain(SyncStep(d)) /\ ConfirmStep(d) \in Queued
    BY PlainKinds
  <2>2. <<>> \in Seq(Queued) /\ <<ConfirmStep(d)>> \in Seq(Queued)
    BY <2>1
  <2> QED BY <1>2, <2>1, <2>2, CallFresh
<1>3. ASSUME NEW t, NEW warn, Goto(h, WzTxStep(t, warn)), UNCHANGED rows
      PROVE  FreshInv'
  BY <1>3, FreshWz, GotoReads
<1>4. CASE Wz(h)
  <2>1. at[h].k = "wz" /\ at[h].o \in Orders /\ {at[h].force, at[h].draft, at[h].retry} \subseteq BOOLEAN
    BY <1>1, <1>4, ReservationFields DEF Wz
  <2>2. UNCHANGED rows
    BY <1>4 DEF Wz, rows
  <2>3. CASE Call(h, ReserveStep(at[h].o), <<CollectStep(at[h])>>)
    <3>1. Plain(ReserveStep(at[h].o)) /\ CollectStep(at[h]) \in Queued
      BY <2>1, PlainKinds, PlainCollect
    <3>2. <<CollectStep(at[h])>> \in Seq(Queued)
      BY <3>1, OneQueued
    <3> QED BY <2>3, <3>1, <3>2, CallFresh
  <2>4. \A d \in OpenWz(at[h].o) : d \in DocIds
    BY DEF OpenWz
  <2>5. \/ Call(h, ReserveStep(at[h].o), <<CollectStep(at[h])>>)
        \/ Goto(h, WzTxStep(at[h], FALSE))
        \/ Return(h)
        \/ \E d \in DocIds : \/ Call(h, SyncStep(d), <<>>)
                             \/ Call(h, SyncStep(d), <<ConfirmStep(d)>>)
    BY <1>4, <2>4, Zenon DEF Wz
  <2> QED BY <1>2, <1>3, <2>2, <2>3, <2>5, ReturnFresh, Zenon
<1>5. CASE Collect(h)
  <2>1. UNCHANGED rows
    BY <1>5 DEF Collect, rows
  <2>2. Return(h) \/ Goto(h, WzTxStep(at[h], at[h].warn))
    BY <1>5 DEF Collect
  <2> QED BY <1>3, <2>1, <2>2, ReturnFresh, Zenon
<1>6. CASE WzTx(h)
  <2>1. /\ at[h].k = "wzTx" /\ at[h].o \in Orders
        /\ at[h].force \in BOOLEAN /\ at[h].draft \in BOOLEAN /\ TRUE \in BOOLEAN
    BY <1>1, <1>6, ReservationFields DEF WzTx
  <2>2. PICK x : x = WzStep(at[h].o, at[h].force, at[h].draft, TRUE)
    OBVIOUS
  <2>3. Plain(x)
    BY <2>1, <2>2, PlainWz, Zenon
  <2>4. \/ Goto(h, x) \/ Throw(h) \/ Return(h)
        \/ Confirms(at[h]) /\ ReadConsumed(h) /\ UNCHANGED rows
    BY <1>6, <2>2, Zenon DEF WzTx, Confirms, rows
  <2> QED BY <2>1, <2>3, <2>4, GotoPlain, ThrowFresh, ReturnFresh, FreshReads
<1>7. CASE Sync(h)
  <2>1. UNCHANGED rows
    BY <1>7 DEF Sync, rows
  <2>2. PICK x : x = SyncEdit(at[h].d)
    OBVIOUS
  <2>3. x.k = "syncTx" /\ x.d = at[h].d
    BY <2>2 DEF SyncEdit
  <2>4. CASE doc[x.d].st = "DRAFT" /\ doc[x.d].type = "WZ" /\ doc[x.d].o # None /\ Goto(h, x)
    <3>1. Fresh(x)
      BY <2>2, <2>3, <2>4 DEF Fresh, FreshReservation, FreshDocument, OnDraftKinds
    <3> QED BY <2>1, <2>4, <3>1, GotoReads
  <2>5. \/ Return(h)
        \/ doc[x.d].st = "DRAFT" /\ doc[x.d].type = "WZ" /\ doc[x.d].o # None /\ Goto(h, x)
    BY <1>7, <2>2, <2>3 DEF Sync
  <2> QED BY <2>4, <2>5, ReturnFresh
<1>8. CASE SyncTx(h)
  BY <1>8, ThrowFresh, ReturnFresh DEF SyncTx
<1>9. CASE Finalize(h)
  <2>1. at[h].o \in Orders /\ TRUE \in BOOLEAN /\ FALSE \in BOOLEAN
    BY <1>1, <1>9, ReservationFields DEF Finalize
  <2>2. PICK x : x = WzStep(at[h].o, TRUE, FALSE, FALSE)
    OBVIOUS
  <2>3. Plain(x)
    BY <2>1, <2>2, PlainWz, Zenon
  <2>4. \A d \in OpenWz(at[h].o) : d \in DocIds
    BY DEF OpenWz
  <2>5. \/ Return(h) \/ Goto(h, x)
        \/ \E d \in DocIds : Call(h, SyncStep(d), <<ConfirmStep(d)>>)
    BY <1>9, <2>2, <2>4, Zenon DEF Finalize
  <2> QED BY <1>2, <2>3, <2>5, ReturnFresh, GotoPlain, Zenon
<1> QED BY <1>4, <1>5, <1>6, <1>7, <1>8, <1>9

LEMMA FreshWholesale ==
    ASSUME OneAtATime, RowsTyped, StepsTyped, FreshInv, NEW h \in Handlers,
           Zh(h) \/ ZhCollect(h) \/ ZhTx(h) \/ PzTx(h) \/ UpdateTx(h)
    PROVE  FreshInv'
<1>1. at[h] \in AnyStep
  BY DEF StepsTyped
<1>2. CASE Throw(h) \/ Return(h)
  BY <1>2, ThrowFresh, ReturnFresh
<1>3. ASSUME NEW o \in Orders, NEW found, OrderBackorders(h, o, found)
      PROVE  FreshInv'
  <2>1. PICK x : x = [k |-> "zhTx", o |-> o, qty |-> SumRes(Backorders(o))]
    OBVIOUS
  <2>2. Plain(x)
    BY <2>1, PlainKinds
  <2>3. Return(h) \/ Goto(h, x)
    BY <1>3, <2>1, Zenon DEF OrderBackorders
  <2> QED BY <1>2, <2>2, <2>3, GotoPlain
<1>4. CASE Zh(h)
  <2>1. at[h].o \in Orders /\ (OpenZh(at[h].o) # {}) \in BOOLEAN
    BY <1>1, <1>4, ReservationFields DEF Zh
  <2>2. PICK found \in BOOLEAN :
          \/ Call(h, ReserveStep(at[h].o),
                  <<[k |-> "zhCollect", o |-> at[h].o, found |-> found]>>)
          \/ OrderBackorders(h, at[h].o, found)
    BY <1>4, <2>1, Zenon DEF Zh
  <2>3. [k |-> "zhCollect", o |-> at[h].o, found |-> found] \in Queued
    <3>1. [k |-> "zhCollect", o |-> at[h].o, found |-> found] \in PendingStep
      BY <2>1, PendingSteps, Zenon
    <3> QED BY <3>1 DEF Queued, QueuedKinds
  <2>4. <<[k |-> "zhCollect", o |-> at[h].o, found |-> found]>> \in Seq(Queued)
    BY <2>3, OneQueued, Zenon
  <2>5. Plain(ReserveStep(at[h].o))
    BY <2>1, PlainKinds
  <2> QED BY <1>3, <2>1, <2>2, <2>4, <2>5, CallFresh, Zenon
<1>5. CASE ZhCollect(h)
  <2>1. at[h].o \in Orders /\ OrderBackorders(h, at[h].o, at[h].found)
    BY <1>1, <1>5, ReservationFields DEF ZhCollect
  <2> QED BY <1>3, <2>1, Zenon
<1>6. CASE PzTx(h)
  <2>1. Goto(h, [k |-> "realloc"]) \/ Throw(h) \/ Return(h)
    BY <1>6, Zenon DEF PzTx
  <2> QED BY <1>2, <2>1, GotoPlain, PlainKinds
<1>7. CASE ZhTx(h) \/ UpdateTx(h)
  BY <1>2, <1>7, Zenon DEF ZhTx, UpdateTx
<1> QED BY <1>4, <1>5, <1>6, <1>7

LEMMA FreshDocuments ==
    ASSUME OneAtATime, RowsTyped, StepShape, StepsTyped, FreshInv, NEW h \in Handlers,
           \/ ConfirmTx(h) \/ Realloc(h) \/ ReallocOrders(h) \/ ReallocDrafts(h)
           \/ CancelTx(h) \/ DeleteTx(h) \/ AddItemTx(h) \/ SetItemTx(h) \/ DropOwnTx(h)
           \/ DropItemTx(h) \/ RecalculateTx(h)
    PROVE  FreshInv'
<1>1. at[h] \in AnyStep
  BY DEF StepsTyped
<1>2. CASE Throw(h) \/ Return(h)
  BY <1>2, ThrowFresh, ReturnFresh
<1>3. CASE ConfirmTx(h)
  <2>1. \/ Goto(h, [k |-> "realloc"]) \/ Throw(h) \/ Return(h)
        \/ at[h].k = "confirmTx" /\ ReadConsumed(h) /\ UNCHANGED rows
    BY <1>3 DEF ConfirmTx, rows
  <2> QED BY <1>2, <2>1, GotoPlain, PlainKinds, FreshReads
<1>4. CASE Realloc(h)
  <2>1. PICK waiting :
          Goto(h, [k |-> "reallocOrders", left |-> waiting, all |-> waiting])
    BY <1>4 DEF Realloc
  <2> QED BY <2>1, GotoPlain, PlainKinds
<1>5. CASE ReallocOrders(h)
  <2>1. at[h] \in [k : {"reallocOrders"}, left : SUBSET Orders, all : SUBSET Orders]
    BY <1>1, <1>5, DocumentFields DEF ReallocOrders
  <2>2. ASSUME NEW o \in at[h].left,
               Call(h, ReserveStep(o), <<[at[h] EXCEPT !.left = @ \ {o}]>>)
        PROVE  FreshInv'
    <3>1. Plain(ReserveStep(o))
      BY <2>1, PlainKinds
    <3>2. [at[h] EXCEPT !.left = @ \ {o}] \in Queued
      BY <2>1 DEF Queued, QueuedKinds, PendingStep, ReallocSteps
    <3>3. <<[at[h] EXCEPT !.left = @ \ {o}]>> \in Seq(Queued)
      BY <3>2, OneQueued, Zenon
    <3> QED BY <2>2, <3>1, <3>3, CallFresh, Zenon
  <2>3. ASSUME NEW drafts, Goto(h, [k |-> "reallocDrafts", left |-> drafts])
        PROVE  FreshInv'
    BY <2>3, GotoPlain, PlainKinds
  <2> QED BY <1>5, <2>2, <2>3, Zenon DEF ReallocOrders
<1>6. CASE ReallocDrafts(h)
  <2>1. at[h] \in [k : {"reallocDrafts"}, left : SUBSET DocIds]
    BY <1>1, <1>6, DocumentFields DEF ReallocDrafts
  <2>2. ASSUME NEW d \in at[h].left,
               Call(h, SyncStep(d), <<[at[h] EXCEPT !.left = @ \ {d}]>>)
        PROVE  FreshInv'
    <3>1. Plain(SyncStep(d))
      BY <2>1, PlainKinds
    <3>2. [at[h] EXCEPT !.left = @ \ {d}] \in Queued
      BY <2>1 DEF Queued, QueuedKinds, PendingStep, ReallocSteps
    <3>3. <<[at[h] EXCEPT !.left = @ \ {d}]>> \in Seq(Queued)
      BY <3>2, OneQueued, Zenon
    <3> QED BY <2>2, <3>1, <3>3, CallFresh, Zenon
  <2> QED BY <1>2, <1>6, <2>2, Zenon DEF ReallocDrafts
<1>7. CASE CancelTx(h)
  <2>1. \/ Throw(h) \/ Return(h)
        \/ at[h].k = "cancelTx" /\ ReadReleased(h) /\ UNCHANGED rows
    BY <1>7 DEF CancelTx, rows
  <2> QED BY <1>2, <2>1, FreshReads
<1> QED BY <1>2, <1>3, <1>4, <1>5, <1>6, <1>7
        DEF DeleteTx, AddItemTx, SetItemTx, DropOwnTx, DropItemTx, RecalculateTx

LEMMA ConfirmIsFresh ==
    ASSUME OneAtATime, RowsTyped, StepsTyped, FreshInv, NEW h \in Handlers, Confirm(h)
    PROVE  FreshInv'
<1>1. PICK d \in DocIds : d = at[h].d
  BY DocumentFields DEF StepsTyped, Confirm
<1>2. UNCHANGED rows
  BY DEF Confirm, rows
<1>3. PICK own, sys, detached, unread, cancelled :
        /\ own = doc[d].own /\ sys = doc[d].sys /\ detached = DetachedLines(d)
        /\ unread = {l.res : l \in ConsumedLines(d)}
        /\ cancelled = {l.res : l \in BackorderLines(d)}
  OBVIOUS
<1>4. PICK x : x = [k |-> "confirmTx", d |-> d, own |-> own, sys |-> sys, detached |-> detached,
                    unread |-> unread, consumed |-> {}, cancelled |-> cancelled]
  OBVIOUS
<1>5. PICK taken : taken = own + SumQty(detached)
  OBVIOUS
<1>6. \/ Throw(h)
      \/ /\ doc[d].st = "DRAFT"
         /\ ~(doc[d].type \in {"WZ", "RW"} /\ ~AllowNegative /\ taken > 0 /\ stock < taken)
         /\ Goto(h, x)
  BY <1>1, <1>3, <1>4, <1>5, Zenon DEF Confirm
<1>7. CASE /\ doc[d].st = "DRAFT"
           /\ ~(doc[d].type \in {"WZ", "RW"} /\ ~AllowNegative /\ taken > 0 /\ stock < taken)
           /\ Goto(h, x)
  <2>1. /\ x.k = "confirmTx" /\ x.d = d /\ x.own = own /\ x.sys = sys /\ x.detached = detached
        /\ x.unread = unread /\ x.consumed = {} /\ x.cancelled = cancelled
    BY <1>4
  <2>2. taken \in Int /\ stock \in Int
    <3>1. SumQty(detached) \in Nat
      <4>1. DetachedLines(d) \subseteq doc[d].lines
        BY DEF DetachedLines, BackorderLines, LinesOf
      <4> QED BY <1>3, <4>1, LinesTyped
    <3>2. own \in Nat /\ stock \in Int
      BY <1>3 DEF RowsTyped, DocRow
    <3> QED BY <1>5, <3>1, <3>2
  <2>3. doc[d].type \in {"WZ", "RW"} /\ NoNegative => ~(taken > 0 /\ stock < taken)
    BY <1>7, Zenon DEF NoNegative
  <2>4. ~(taken > 0 /\ stock < taken) => taken <= 0 \/ taken <= stock
    BY <2>2
  <2>5. doc[d].type \in {"WZ", "RW"} /\ NoNegative => taken <= 0 \/ taken <= stock
    BY <2>3, <2>4, Zenon
  <2>6. FreshConfirm(x)
    BY <1>3, <1>5, <2>1, <2>5 DEF FreshConfirm, ToConsume
  <2>7. Fresh(x)
    BY <1>7, <2>1, <2>6 DEF Fresh, FreshReservation, FreshDocument, OnDraftKinds
  <2> QED BY <1>2, <1>7, <2>7, GotoReads
<1> QED BY <1>6, <1>7, ThrowFresh

(* A request begins with a step that rests on nothing, or on the document  *)
(* it names, as that is.                                                   *)
LEMMA FreshRequests ==
    ASSUME OneAtATime, RowsTyped, StepsTyped, FreshInv, NEW h \in Handlers, Request(h)
    PROVE  FreshInv'
<1>1. ASSUME NEW x, Goto(h, x), Plain(x) PROVE FreshInv'
  BY <1>1, GotoPlain
<1>2. ASSUME NEW x, Goto(h, x), UNCHANGED rows, Fresh(x) PROVE FreshInv'
  BY <1>2, GotoReads
<1>3. ASSUME NEW o \in Orders, NEW x \in {ReserveStep(o), ReleaseStep(o), FinalizeStep(o),
                 [k |-> "reserveAndWz", o |-> o], [k |-> "zh", o |-> o]}
      PROVE  Plain(x)
  BY PlainKinds
<1>4. CASE ChangeStatus(h)
  <2>1. PICK o \in Orders :
          \E x \in {ReserveStep(o), ReleaseStep(o), FinalizeStep(o),
                   [k |-> "reserveAndWz", o |-> o], [k |-> "zh", o |-> o]} : Goto(h, x)
    BY <1>4 DEF ChangeStatus, Begin
  <2> QED BY <1>1, <1>3, <2>1
<1>5. CASE RefreshReservations(h) \/ ReleaseReservations(h) \/ CreateZh(h)
  <2>1. PICK o \in Orders :
          \E x \in {ReserveStep(o), ReleaseStep(o), FinalizeStep(o),
                   [k |-> "reserveAndWz", o |-> o], [k |-> "zh", o |-> o]} : Goto(h, x)
    BY <1>5 DEF RefreshReservations, ReleaseReservations, CreateZh, Begin
  <2> QED BY <1>1, <1>3, <2>1
<1>6. CASE CreateWz(h)
  <2>1. PICK o \in Orders, force \in BOOLEAN, draft \in BOOLEAN, retry \in BOOLEAN :
          Goto(h, WzStep(o, force, draft, retry))
    BY <1>6, Zenon DEF CreateWz, Begin
  <2>2. Plain(WzStep(o, force, draft, retry))
    BY PlainWz, Zenon
  <2> QED BY <1>1, <2>1, <2>2, Zenon
<1>7. CASE CreateDocument(h)
  <2>1. Goto(h, Idle)
    BY <1>7 DEF CreateDocument, Begin
  <2> QED BY <1>1, <2>1, IdlePlain
<1>8. CASE ConfirmDocument(h)
  <2>1. PICK d \in DocIds : Goto(h, ConfirmStep(d))
    BY <1>8 DEF ConfirmDocument, Begin
  <2> QED BY <1>1, <2>1, PlainKinds
<1>9. CASE CancelDocument(h)
  <2>1. PICK d \in DocIds :
          Goto(h, [k |-> "cancelTx", d |-> d, st |-> doc[d].st,
                   own |-> doc[d].own, sys |-> doc[d].sys, seen |-> {},
                   unread |-> ToRelease(d)])
    BY <1>9 DEF CancelDocument, Begin, ToRelease
  <2>2. UNCHANGED rows
    BY <1>9 DEF CancelDocument
  <2>3. PICK x : x = [k |-> "cancelTx", d |-> d, st |-> doc[d].st, own |-> doc[d].own,
                      sys |-> doc[d].sys, seen |-> {}, unread |-> ToRelease(d)]
    OBVIOUS
  <2>4. /\ x.k = "cancelTx" /\ x.d = d /\ x.st = doc[d].st /\ x.own = doc[d].own
        /\ x.sys = doc[d].sys /\ x.seen = {} /\ x.unread = ToRelease(d)
    BY <2>3
  <2>5. x.seen = SeenOf({r \in ToRelease(d) \ x.unread : Holding(r)})
    BY <2>4 DEF SeenOf
  <2>6. Fresh(x)
    BY <2>4, <2>5 DEF Fresh, FreshReservation, FreshDocument, OnDraftKinds
  <2> QED BY <1>2, <2>1, <2>2, <2>3, <2>6
<1>10. CASE DeleteDocument(h) \/ AddItem(h) \/ SetItem(h) \/ DropOwn(h) \/ DropItem(h)
  <2>1. UNCHANGED rows
    BY <1>10 DEF DeleteDocument, AddItem, SetItem, DropOwn, DropItem
  <2> DEFINE Edits(d, x) == /\ Goto(h, x) /\ doc[d].st = "DRAFT" /\ x.d = d
                            /\ x.k \in {"addItemTx", "setItemTx", "dropItemTx", "dropOwnTx", "deleteTx"}
  <2>2. \E d \in DocIds : \E x : Edits(d, x)
    <3>1. CASE DeleteDocument(h)
      <4>1. PICK d \in DocIds : doc[d].st = "DRAFT" /\ Goto(h, [k |-> "deleteTx", d |-> d])
        BY <3>1 DEF DeleteDocument, Begin
      <4>2. Edits(d, [k |-> "deleteTx", d |-> d])
        BY <4>1
      <4> QED BY <4>2
    <3>2. CASE AddItem(h)
      <4>1. PICK d \in DocIds, q \in Qtys :
              /\ doc[d].st = "DRAFT"
              /\ Goto(h, [k |-> "addItemTx", d |-> d, qty |-> q, sys |-> SystemQuantity])
        BY <3>2 DEF AddItem, Begin
      <4>2. Edits(d, [k |-> "addItemTx", d |-> d, qty |-> q, sys |-> SystemQuantity])
        BY <4>1
      <4> QED BY <4>2
    <3>3. CASE SetItem(h)
      <4>1. PICK d \in DocIds, q \in Qtys :
              doc[d].st = "DRAFT" /\ Goto(h, [k |-> "setItemTx", d |-> d, qty |-> q])
        BY <3>3 DEF SetItem, Begin
      <4>2. Edits(d, [k |-> "setItemTx", d |-> d, qty |-> q])
        BY <4>1
      <4> QED BY <4>2
    <3>4. CASE DropOwn(h)
      <4>1. PICK d \in DocIds : doc[d].st = "DRAFT" /\ Goto(h, [k |-> "dropOwnTx", d |-> d])
        BY <3>4 DEF DropOwn, Begin
      <4>2. Edits(d, [k |-> "dropOwnTx", d |-> d])
        BY <4>1
      <4> QED BY <4>2
    <3>5. CASE DropItem(h)
      <4>1. PICK d \in DocIds : \E l \in doc[d].lines :
              /\ doc[d].st = "DRAFT"
              /\ Goto(h, [k |-> "dropItemTx", d |-> d, line |-> [n |-> l.n, res |-> l.res]])
        BY <3>5 DEF DropItem, Begin
      <4>2. PICK l \in doc[d].lines :
              /\ doc[d].st = "DRAFT"
              /\ Goto(h, [k |-> "dropItemTx", d |-> d, line |-> [n |-> l.n, res |-> l.res]])
        BY <4>1
      <4>3. Edits(d, [k |-> "dropItemTx", d |-> d, line |-> [n |-> l.n, res |-> l.res]])
        BY <4>2
      <4> QED BY <4>3
    <3> QED BY <1>10, <3>1, <3>2, <3>3, <3>4, <3>5
  <2>3. PICK d \in DocIds : \E x : Edits(d, x)
    BY <2>2
  <2>4. PICK x : Edits(d, x)
    BY <2>3
  <2>5. Fresh(x)
    BY <2>4 DEF Fresh, FreshReservation, FreshDocument, OnDraftKinds
  <2> QED BY <1>2, <2>1, <2>4, <2>5
<1>11. CASE UpdateDocument(h)
  <2>1. UNCHANGED rows
    BY <1>11 DEF UpdateDocument
  <2>2. PICK d \in DocIds, q \in Qtys, o \in Orders \cup {None}, items \in BOOLEAN, assign \in BOOLEAN :
          /\ doc[d].st = "DRAFT"
          /\ Begin(h, IF assign THEN "assign" ELSE "update",
                   [k |-> "updateTx", d |-> d, items |-> items, order |-> assign, own |-> q,
                    sys |-> IF doc[d].type = "INW" THEN SystemQuantity ELSE 0, o |-> o])
    BY <1>11 DEF UpdateDocument
  <2>3. PICK sys : sys = IF doc[d].type = "INW" THEN SystemQuantity ELSE 0
    OBVIOUS
  <2>4. PICK x : x = [k |-> "updateTx", d |-> d, items |-> items, order |-> assign, own |-> q,
                      sys |-> sys, o |-> o]
    OBVIOUS
  <2>5. Goto(h, x)
    BY <2>2, <2>3, <2>4, Zenon DEF Begin
  <2>6. x.k = "updateTx" /\ x.d = d /\ x.order = assign
    BY <2>4
  <2>7. assign => "assign" \in Requests
    BY <2>2, Zenon DEF Begin
  <2>8. Fresh(x)
    BY <2>2, <2>6, <2>7 DEF Fresh, FreshReservation, FreshDocument, OnDraftKinds
  <2> QED BY <1>2, <2>1, <2>5, <2>8
<1>12. CASE Recalculate(h)
  <2>1. UNCHANGED rows /\ "recalculate" \in Requests
    BY <1>12 DEF Recalculate, Begin
  <2>2. PICK x : x = [k |-> "recalculateTx", value |-> DocumentedStock]
    OBVIOUS
  <2>3. Goto(h, x)
    BY <1>12, <2>2, Zenon DEF Recalculate, Begin
  <2>4. x.k = "recalculateTx"
    BY <2>2
  <2>5. Fresh(x)
    BY <2>1, <2>4 DEF Fresh, FreshReservation, FreshDocument, OnDraftKinds
  <2> QED BY <1>2, <2>1, <2>3, <2>5
<1>13. CASE CreatePz(h)
  <2>1. PICK d \in DocIds, draft \in BOOLEAN : \E q \in Qtys \cup {doc[d].own} :
          /\ doc[d].type = "ZH" /\ ~Received(d)
          /\ Goto(h, [k |-> "pzTx", d |-> d, st |-> doc[d].st, qty |-> q, draft |-> draft])
          /\ UNCHANGED rows
    BY <1>13, Zenon DEF CreatePz, Begin
  <2>2. \A q : Fresh([k |-> "pzTx", d |-> d, st |-> doc[d].st, qty |-> q, draft |-> draft])
    BY <2>1 DEF Fresh, FreshReservation, FreshDocument, OnDraftKinds
  <2> QED BY <1>2, <2>1, <2>2, Zenon
<1> QED BY <1>4, <1>5, <1>6, <1>7, <1>8, <1>9, <1>10, <1>11, <1>12, <1>13 DEF Request

LEMMA FreshInit == ASSUME Init PROVE FreshInv
<1>1. \A h \in Handlers : Fresh(at[h])
  BY PlainFresh, IdlePlain DEF Init
<1>2. rest \in [Handlers -> Seq(Queued)]
  BY DEF Init
<1> QED BY <1>1, <1>2 DEF FreshInv

LEMMA FreshNext ==
    ASSUME OneAtATime, RowsTyped, StepShape, StepsTyped, FreshInv, [Next]_vars
    PROVE  FreshInv'
<1>1. ASSUME NEW h \in Handlers, Step(h) PROVE FreshInv'
  BY <1>1, FreshReservations, FreshWzSteps, FreshWholesale, FreshDocuments, ConfirmIsFresh DEF Step
<1>2. ASSUME NEW h \in Handlers, Crash(h) PROVE FreshInv'
  BY <1>2, ThrowFresh DEF Crash
<1>3. CASE SyncOffers \/ UNCHANGED vars
  <2>1. UNCHANGED rows /\ at' = at /\ rest' = rest
    BY <1>3 DEF SyncOffers, vars, rows
  <2> QED BY <2>1, FreshKept DEF FreshInv
<1> QED BY <1>1, <1>2, <1>3, FreshRequests DEF Next, Quiescent

(* What a request has read is still true, and the invariants that hold of  *)
(* any number of requests hold of one.                                     *)
OneInv == NeedInv /\ DocumentsInv /\ FreshInv

(* What a document is about to consume is active, as it was when it was read. *)
LEMMA FreshStands == ASSUME FreshInv PROVE ReadsStand
<1> SUFFICES ASSUME NEW h \in Handlers, at[h].k \in {"wzTx", "confirmTx"},
                    NEW r \in at[h].consumed
             PROVE  res[r].st = "ACTIVE"
  BY DEF ReadsStand
<1>1. PICK t : t = at[h]
  OBVIOUS
<1>2. FreshReservation(t) /\ FreshDocument(t) /\ r \in t.consumed
  BY <1>1 DEF FreshInv, Fresh
<1>3. CASE t.k = "wzTx"
  BY <1>2, <1>3 DEF FreshReservation, ActiveLocal, Active
<1>4. CASE t.k = "confirmTx"
  BY <1>2, <1>4 DEF FreshDocument, FreshConfirm
<1> QED BY <1>1, <1>3, <1>4

LEMMA OneNext == ASSUME OneAtATime, OneInv, [Next]_vars PROVE OneInv'
BY NeedNext, DocumentsNext, FreshNext, FreshStands DEF OneInv, NeedInv, ReservationsInv

LEMMA OneInit == ASSUME Init PROVE OneInv
BY NeedInit, DocumentsInit, FreshInit DEF OneInv

(* The transactions, and the request that writes by itself.                *)
WritesRows(h) ==
    \/ Apply(h) \/ WzTx(h) \/ SyncTx(h) \/ ConfirmTx(h) \/ CancelTx(h) \/ DeleteTx(h)
    \/ AddItemTx(h) \/ SetItemTx(h) \/ DropOwnTx(h) \/ DropItemTx(h) \/ RecalculateTx(h)
    \/ ZhTx(h) \/ PzTx(h) \/ UpdateTx(h) \/ CreateDocument(h)

LEMMA WhatWrites ==
    ASSUME [Next]_vars
    PROVE  \/ stock' = stock /\ res' = res /\ doc' = doc
           \/ \E h \in Handlers : WritesRows(h)
<1>1. CASE SyncOffers \/ Quiescent \/ UNCHANGED vars
  BY <1>1 DEF SyncOffers, Quiescent, rows, vars
<1>2. ASSUME NEW h \in Handlers, Request(h) \/ Crash(h), ~CreateDocument(h)
      PROVE  stock' = stock /\ res' = res /\ doc' = doc
  BY <1>2 DEF Request, Begin, rows, ChangeStatus, RefreshReservations, ReleaseReservations,
              CreateWz, ConfirmDocument, CancelDocument, DeleteDocument, AddItem, SetItem,
              DropOwn, DropItem, Recalculate, CreateZh, CreatePz, UpdateDocument, Crash
<1>3. ASSUME NEW h \in Handlers,
             \/ Reserve(h) \/ ReserveTx(h) \/ ReleaseTx(h) \/ ReserveAndWz(h) \/ Wz(h)
             \/ Collect(h) \/ Sync(h) \/ Finalize(h) \/ Confirm(h) \/ Realloc(h)
             \/ ReallocOrders(h) \/ ReallocDrafts(h) \/ Zh(h) \/ ZhCollect(h)
      PROVE  stock' = stock /\ res' = res /\ doc' = doc
  BY <1>3 DEF rows, Reserve, ReserveTx, ReleaseTx, ReserveAndWz, Wz, Collect, Sync, Finalize,
              Confirm, Realloc, ReallocOrders, ReallocDrafts, Zh, ZhCollect
<1> QED BY <1>1, <1>2, <1>3 DEF Next, Step, WritesRows

-----------------------------------------------------------------------------
(* Reservations of an order *)

(* When one request runs after another, wherever they crash, an order      *)
(* never holds and was never issued more than was ordered: IssuedQty       *)
(* counts what reserveOrder finds consumed, and a document consumes what   *)
(* it has read to be active.  With two requests it may have been released  *)
(* and reserved again in between: consumeDocumentReservations writes by    *)
(* id, and takes no lock.                                                  *)
THEOREM NeverOverReserved == ASSUME OneAtATime PROVE Spec => []ReservedWithinNeed
<1>1. Init => OneInv
  BY OneInit
<1>2. OneInv /\ [Next]_vars => OneInv'
  BY OneNext
<1>3. OneInv => ReservedWithinNeed
  BY DEF OneInv, NeedInv
<1> QED BY <1>1, <1>2, <1>3, PTL DEF Spec

-----------------------------------------------------------------------------
(* Reservations of closed orders *)

(* The write of a reservation transaction, of what was read before it.     *)
LEMMA AppliedFresh ==
    ASSUME OneInv, NEW h \in Handlers, Apply(h)
    PROVE  \E t, new :
             /\ t = at[h] /\ t.k = "apply" /\ t.o \in Orders
             /\ t.seen = SeenActive(t.o) /\ Planned(t.o, t) /\ SeesActive(t)
             /\ t.local + t.back > 0 => TakesReservations(t.o)
             /\ t.seen \in SUBSET SeenRow
             /\ t.local \in Nat /\ t.back \in Nat
             /\ RowsAfter(t, new)
             /\ stock' = StockAfter(t)
<1>1. PICK t : t = at[h]
  OBVIOUS
<1>0. t.k = "apply" /\ t \in AnyStep
  BY <1>1 DEF Apply, OneInv, NeedInv, StepsTyped
<1>3. SeesActive(t) /\ WithinNeed(t) /\ RowsTyped /\ ResShape
  BY <1>0, <1>1 DEF OneInv, NeedInv, ReservationsInv, LockInv, PlansWithinNeed
<1>7. ~Refused(t)
  BY <1>3, NothingRefused
<1>2. t.k = "apply" /\ ApplyRows(t) /\ t \in AnyStep /\ stock' = StockAfter(t)
  BY <1>0, <1>1, <1>7 DEF Apply
<1>4. /\ t.seen = SeenActive(t.o) /\ Planned(t.o, t)
      /\ t.local + t.back > 0 => TakesReservations(t.o)
  BY <1>1, <1>2 DEF OneInv, FreshInv, Fresh, FreshReservation
<1>5. /\ t.o \in Orders /\ t.local \in Nat /\ t.back \in Nat
      /\ t.seen \in SUBSET SeenRow
  BY <1>2, ReservationFields
<1>6. \E new : RowsAfter(t, new)
  BY <1>2, <1>3, <1>5, AppliedRows
<1> QED BY <1>1, <1>2, <1>3, <1>4, <1>5, <1>6

LEMMA WritersShrink ==
    ASSUME RowsTyped, ReadsStand, NEW h \in Handlers, WritesRows(h), ~Apply(h)
    PROVE  Shrinks
<1>1. CASE WzTx(h) \/ ConfirmTx(h) \/ CancelTx(h)
  <2>1. \/ res' = res
        \/ CancelTx(h)
        \/ at[h].k \in {"wzTx", "confirmTx"} /\ \E cancelled : ConsumeRows(at[h].consumed, cancelled)
    BY <1>1 DEF WzTx, ConfirmTx
  <2> QED BY <2>1, SameRowsShrink, ConsumeShrinks, CancelShrinks, Zenon DEF ReadsStand
<1>2. CASE \/ SyncTx(h) \/ DeleteTx(h) \/ AddItemTx(h) \/ SetItemTx(h) \/ DropOwnTx(h)
           \/ DropItemTx(h) \/ RecalculateTx(h) \/ ZhTx(h) \/ PzTx(h) \/ UpdateTx(h)
           \/ CreateDocument(h)
  <2>1. res' = res
    BY <1>2 DEF SyncTx, DeleteTx, AddItemTx, SetItemTx, DropOwnTx, DropItemTx, RecalculateTx,
                ZhTx, PzTx, UpdateTx, CreateDocument
  <2> QED BY <2>1, SameRowsShrink
<1> QED BY <1>1, <1>2 DEF WritesRows

NoneTaken == \A o \in Orders : order[o] \in ShippedStatuses \cup InactiveStatuses =>
                                 Active(o)' \subseteq Active(o)

LEMMA NoneTakenNext ==
    ASSUME OneAtATime, OneInv, [Next]_vars
    PROVE  NoneTaken
<1>1. CASE stock' = stock /\ res' = res /\ doc' = doc
  BY <1>1 DEF NoneTaken, Active
<1>2. ASSUME NEW h \in Handlers, WritesRows(h), ~Apply(h) PROVE NoneTaken
  <2>1. Shrinks
    BY <1>2, WritersShrink, FreshStands DEF OneInv, NeedInv
  <2> QED BY <2>1 DEF NoneTaken, Active, Shrinks
<1>3. ASSUME NEW h \in Handlers, Apply(h) PROVE NoneTaken
  <2>1. PICK t, new : /\ t.local + t.back > 0 => TakesReservations(t.o)
                      /\ RowsAfter(t, new)
    BY <1>3, AppliedFresh
  <2>2. SUFFICES ASSUME NEW o \in Orders, order[o] \in ShippedStatuses \cup InactiveStatuses,
                        NEW r \in Active(o)'
                 PROVE  r \in Active(o)
    BY DEF NoneTaken
  <2>3. r \in ResIds /\ res'[r].st = "ACTIVE" /\ res'[r].o = o
    BY <2>2 DEF Active
  <2>4. CASE r = new
    <3>1. t.o = o /\ TakesReservations(o)
      BY <2>1, <2>3, <2>4 DEF RowsAfter
    <3> QED BY <2>2, <3>1 DEF TakesReservations
  <2>5. CASE r # new
    <3>1. res'[r].o = res[r].o /\ res'[r].st = res[r].st
      BY <2>1, <2>3, <2>5 DEF RowsAfter
    <3> QED BY <2>3, <3>1 DEF Active
  <2> QED BY <2>4, <2>5
<1> QED BY <1>1, <1>2, <1>3, WhatWrites

(* An order that was sent or closed takes no reservation: with one request *)
(* at a time the status that reserveOrder reads outside its transaction    *)
(* still holds when the transaction writes.                                *)
THEOREM ClosedStayUnreserved == ASSUME OneAtATime PROVE Spec => ClosedTakesNoReservation
<1>1. Init => OneInv
  BY OneInit
<1>2. OneInv /\ [Next]_vars => OneInv'
  BY OneNext
<1>3. OneInv /\ [Next]_vars => [NoneTaken]_vars
  BY NoneTakenNext
<1>4. [NoneTaken]_vars => [\A o \in Orders : order[o] \in ShippedStatuses \cup InactiveStatuses =>
                                Active(o)' \subseteq Active(o)]_vars
  BY DEF NoneTaken
<1> QED BY <1>1, <1>2, <1>3, <1>4, PTL DEF Spec, ClosedTakesNoReservation

-----------------------------------------------------------------------------
(* Stock below zero *)

(* What a confirmation reads of its document, and what it takes. *)
LEMMA ConfirmedFresh ==
    ASSUME OneInv, NEW h \in Handlers, ConfirmTx(h)
    PROVE  \E t : \E d \in DocIds, quantity \in Nat :
             /\ t = at[h] /\ t.k = "confirmTx" /\ t.d = d /\ FreshConfirm(t)
             /\ doc[d] \in DocRow /\ doc[d].st = "DRAFT" /\ t.sys \in Int
             /\ t.detached = DetachedLines(d) /\ t.own = doc[d].own
             /\ SumQty(t.detached) \in Nat
             /\ quantity = t.own + SumQty(t.detached)
<1>1. PICK t : t = at[h]
  OBVIOUS
<1>2. t.k = "confirmTx" /\ t \in AnyStep /\ RowsTyped
  BY <1>1 DEF ConfirmTx, OneInv, NeedInv, StepsTyped
<1>3. PICK d \in DocIds : d = t.d
  BY <1>2, DocumentFields
<1>4. FreshConfirm(t) /\ doc[d].st = "DRAFT"
  BY <1>1, <1>2, <1>3 DEF OneInv, FreshInv, Fresh, FreshDocument, OnDraftKinds
<1>5. t.detached = DetachedLines(d) /\ t.own = doc[d].own /\ t.sys = doc[d].sys
  BY <1>3, <1>4 DEF FreshConfirm
<1>6. doc[d] \in DocRow
  BY <1>2 DEF RowsTyped
<1>7. t.own \in Nat /\ t.sys \in Int
  BY <1>5, <1>6 DEF DocRow
<1>8. SumQty(t.detached) \in Nat
  <2>1. DetachedLines(d) \subseteq doc[d].lines
    BY DEF DetachedLines, BackorderLines, LinesOf
  <2> QED BY <1>2, <1>5, <2>1, LinesTyped
<1>9. t.own + SumQty(t.detached) \in Nat
  BY <1>7, <1>8
<1> QED BY <1>1, <1>2, <1>3, <1>4, <1>5, <1>6, <1>7, <1>8, <1>9

UndoneOrCounted ==
    stock >= 0 /\ stock' < 0 =>
       \E h \in Handlers : \/ at[h].k = "cancelTx"
                           \/ at[h].k = "confirmTx" /\ doc[at[h].d].type = "INW"

LEMMA UndoneOrCountedNext ==
    ASSUME OneInv, NoNegative, "recalculate" \notin Requests, [Next]_vars
    PROVE  UndoneOrCounted
<1>0. stock \in Int
  BY DEF OneInv, NeedInv, RowsTyped
<1>1. CASE stock' = stock
  BY <1>0, <1>1 DEF UndoneOrCounted
<1>2. ASSUME NEW h \in Handlers, Apply(h) PROVE UndoneOrCounted
  <2>1. PICK t : /\ t = at[h] /\ t.seen = SeenActive(t.o) /\ Planned(t.o, t)
                 /\ stock' = StockAfter(t)
    BY <1>2, AppliedFresh
  <2>2. stock' = StockAfter(t)
    BY <2>1
  <2>3. PICK held : held = SeenQty(t.seen, "LOCAL_STOCK")
    OBVIOUS
  <2>4. stock >= 0 => stock - t.local + held >= 0
    BY <2>1, <2>3, Zenon DEF Planned
  <2>5. held \in Nat /\ t.local \in Nat
    <3>1. RowsTyped
      BY DEF OneInv, NeedInv
    <3> QED BY <2>1, <2>3, <3>1, SeenTyped, SeenQtyNat DEF Planned
  <2>6. stock' = stock + held - t.local
    BY <2>2, <2>3 DEF StockAfter
  <2> QED BY <1>0, <2>4, <2>5, <2>6 DEF UndoneOrCounted
<1>3. ASSUME NEW h \in Handlers, ConfirmTx(h) PROVE UndoneOrCounted
  <2>1. PICK t : \E d \in DocIds, quantity \in Nat :
             /\ t = at[h] /\ t.k = "confirmTx" /\ t.d = d /\ FreshConfirm(t)
             /\ doc[d] \in DocRow /\ t.sys \in Int
             /\ quantity = t.own + SumQty(t.detached)
    BY <1>3, ConfirmedFresh
  <2> PICK d \in DocIds, quantity \in Nat :
             /\ t = at[h] /\ t.k = "confirmTx" /\ t.d = d /\ FreshConfirm(t)
             /\ doc[d] \in DocRow /\ t.sys \in Int
             /\ quantity = t.own + SumQty(t.detached)
    BY <2>1
  <2>2. stock' = stock \/ stock' = stock + StockDelta(doc[d].type, quantity, t.sys)
    BY <1>3, <2>1 DEF ConfirmTx
  <2>3. doc[d].type \in {"WZ", "RW"} => quantity <= 0 \/ quantity <= stock
    BY <2>1, Zenon DEF FreshConfirm
  <2>4. CASE doc[d].type = "INW"
    BY <2>1, <2>4 DEF UndoneOrCounted
  <2>5. CASE doc[d].type \in {"WZ", "RW"}
    <3>1. StockDelta(doc[d].type, quantity, t.sys) = -quantity
      BY <2>5 DEF StockDelta
    <3> QED BY <1>0, <2>2, <2>3, <2>5, <3>1 DEF UndoneOrCounted
  <2>6. CASE doc[d].type \notin {"WZ", "RW", "INW"}
    <3>1. StockDelta(doc[d].type, quantity, t.sys) \in {quantity, 0}
      BY <2>6 DEF StockDelta
    <3> QED BY <1>0, <2>2, <3>1 DEF UndoneOrCounted
  <2> QED BY <2>4, <2>5, <2>6
<1>4. ASSUME NEW h \in Handlers, CancelTx(h) PROVE UndoneOrCounted
  BY <1>4 DEF CancelTx, UndoneOrCounted
<1>5. ASSUME NEW h \in Handlers, RecalculateTx(h) PROVE UndoneOrCounted
  BY <1>5 DEF RecalculateTx, OneInv, FreshInv, Fresh, FreshReservation
<1>6. ASSUME NEW h \in Handlers, PzTx(h) PROVE UndoneOrCounted
  <2>1. at[h].qty \in Nat
    BY <1>6, DocumentFields DEF PzTx, OneInv, NeedInv, StepsTyped
  <2>2. Accepted(at[h]) \in Nat
    BY <2>1 DEF Accepted
  <2>3. stock' = stock \/ stock' = stock + Accepted(at[h])
    BY <1>6 DEF PzTx
  <2> QED BY <1>0, <2>2, <2>3 DEF UndoneOrCounted
<1>7. ASSUME NEW h \in Handlers,
             \/ WzTx(h) \/ SyncTx(h) \/ DeleteTx(h) \/ AddItemTx(h) \/ SetItemTx(h)
             \/ DropOwnTx(h) \/ DropItemTx(h) \/ ZhTx(h) \/ UpdateTx(h) \/ CreateDocument(h)
      PROVE  UndoneOrCounted
  <2>1. stock' = stock
    BY <1>7 DEF WzTx, SyncTx, DeleteTx, AddItemTx, SetItemTx, DropOwnTx, DropItemTx, ZhTx,
                UpdateTx, CreateDocument
  <2> QED BY <1>1, <2>1
<1> QED BY <1>1, <1>2, <1>3, <1>4, <1>5, <1>6, <1>7, WhatWrites DEF WritesRows

(* Without allowNegativeStock, stock falls below zero only when a document *)
(* is taken back or a count confirmed: a reservation plans no more than    *)
(* the shelf has beside what the order already holds, and a confirmation   *)
(* compares what its document takes with the shelf.  The repair request    *)
(* "recalculate" is left out, it writes what the documents say.            *)
THEOREM StockFallsByUndoOnly ==
    ASSUME OneAtATime, NoNegative, "recalculate" \notin Requests
    PROVE  Spec => OnlyUndoGoesNegative
<1>1. Init => OneInv
  BY OneInit
<1>2. OneInv /\ [Next]_vars => OneInv'
  BY OneNext
<1>3. OneInv /\ [Next]_vars => [UndoneOrCounted]_vars
  BY UndoneOrCountedNext
<1>4. [UndoneOrCounted]_vars =>
        [stock >= 0 /\ stock' < 0 =>
           \E h \in Handlers : \/ at[h].k = "cancelTx"
                               \/ at[h].k = "confirmTx" /\ doc[at[h].d].type = "INW"]_vars
  BY DEF UndoneOrCounted
<1> QED BY <1>1, <1>2, <1>3, <1>4, PTL DEF Spec, OnlyUndoGoesNegative

-----------------------------------------------------------------------------
(* The balance *)

(* What a document counts for, and what a reservation has taken. *)
Worth(row) == IF row.st = "CONFIRMED" THEN StockDelta(row.type, row.own, row.sys) ELSE 0
Taken(row) == IF row.st \in {"ACTIVE", "CONSUMED"} /\ row.src = "LOCAL_STOCK" THEN row.qty ELSE 0
Worths == [d \in DocIds |-> Worth(doc[d])]
Takes  == [r \in ResIds |-> Taken(res[r])]
Moved  == SumFunctionOnSet(Worths, DocIds)
Held   == SumFunctionOnSet(Takes, ResIds)
Balance == stock = Moved - Held

LEMMA WorthInt == ASSUME NEW row \in DocRow PROVE Worth(row) \in Int
BY DeltaInt DEF Worth, DocRow

LEMMA TakenNat == ASSUME NEW row \in ResRow PROVE Taken(row) \in Nat
BY DEF Taken, ResRow

LEMMA WorthsInt ==
    ASSUME RowsTyped
    PROVE  Moved \in Int /\ \A d \in DocIds : Worths[d] = Worth(doc[d]) /\ Worths[d] \in Int
<1>1. \A d \in DocIds : Worths[d] = Worth(doc[d]) /\ Worths[d] \in Int
  BY WorthInt DEF Worths, RowsTyped
<1>2. Moved \in Int
  BY <1>1, SumInt, IdsAssumption DEF Moved
<1> QED BY <1>1, <1>2

LEMMA WorthsNext ==
    ASSUME RowsTyped'
    PROVE  Moved' \in Int /\ \A d \in DocIds : Worths'[d] = Worth(doc'[d]) /\ Worths'[d] \in Int
<1>1. \A d \in DocIds : Worths'[d] = Worth(doc'[d]) /\ Worths'[d] \in Int
  BY WorthInt DEF Worths, RowsTyped
<1>2. Moved' \in Int
  BY <1>1, SumInt, IdsAssumption DEF Moved
<1> QED BY <1>1, <1>2

LEMMA TakesInt ==
    ASSUME RowsTyped
    PROVE  Held \in Int /\ \A r \in ResIds : Takes[r] = Taken(res[r]) /\ Takes[r] \in Int
<1>1. \A r \in ResIds : Takes[r] = Taken(res[r]) /\ Takes[r] \in Int
  BY TakenNat DEF Takes, RowsTyped
<1>2. Held \in Int
  BY <1>1, SumInt, IdsAssumption DEF Held
<1> QED BY <1>1, <1>2

LEMMA TakesNext ==
    ASSUME RowsTyped'
    PROVE  Held' \in Int /\ \A r \in ResIds : Takes'[r] = Taken(res'[r]) /\ Takes'[r] \in Int
<1>1. \A r \in ResIds : Takes'[r] = Taken(res'[r]) /\ Takes'[r] \in Int
  BY TakenNat DEF Takes, RowsTyped
<1>2. Held' \in Int
  BY <1>1, SumInt, IdsAssumption DEF Held
<1> QED BY <1>1, <1>2

LEMMA BalanceIs == ASSUME RowsTyped, Balance PROVE StockBalance
<1>1. Moved = SumFunction([d \in ConfirmedDocs |->
                             StockDelta(doc[d].type, doc[d].own, doc[d].sys)])
  <2> DEFINE g == [d \in ConfirmedDocs |-> StockDelta(doc[d].type, doc[d].own, doc[d].sys)]
  <2>1. ConfirmedDocs \in SUBSET DocIds
    BY DEF ConfirmedDocs
  <2>2. \A d \in ConfirmedDocs : g[d] = Worths[d]
    BY <2>1, WorthsInt DEF ConfirmedDocs, Worth
  <2>3. \A d \in DocIds \ ConfirmedDocs : Worths[d] = 0
    BY WorthsInt DEF ConfirmedDocs, Worth
  <2>4. DOMAIN g = ConfirmedDocs
    OBVIOUS
  <2> HIDE DEF g
  <2>5. Moved = SumFunctionOnSet(g, ConfirmedDocs)
    BY <2>1, <2>2, <2>3, WorthsInt, SumWhere, IdsAssumption DEF Moved
  <2>6. SumFunction(g) = SumFunctionOnSet(g, ConfirmedDocs)
    BY <2>4 DEF SumFunction
  <2> QED BY <2>5, <2>6 DEF g
<1>2. Held = SumRes(HeldLocally({"ACTIVE", "CONSUMED"}))
  <2> DEFINE R == HeldLocally({"ACTIVE", "CONSUMED"})
  <2>1. R \in SUBSET ResIds
    BY DEF HeldLocally
  <2>2. \A r \in R : QtyOf[r] = Takes[r]
    BY <2>1, TakesInt, QtyOfNat DEF HeldLocally, Taken
  <2>3. \A r \in ResIds \ R : Takes[r] = 0
    BY TakesInt DEF HeldLocally, Taken
  <2> HIDE DEF R
  <2>4. Held = SumFunctionOnSet(QtyOf, R)
    <3>1. IsFiniteSet(ResIds) /\ \A r \in ResIds : Takes[r] \in Int
      BY TakesInt, IdsAssumption
    <3> QED BY <2>1, <2>2, <2>3, <3>1, SumWhere DEF Held
  <2>5. SumRes(R) = SumFunctionOnSet(QtyOf, R)
    BY <2>1, SumResIs
  <2> QED BY <2>4, <2>5 DEF R
<1> QED BY <1>1, <1>2 DEF Balance, StockBalance

LEMMA SameWorth ==
    ASSUME RowsTyped, RowsTyped', \A d \in DocIds : Worth(doc'[d]) = Worth(doc[d])
    PROVE  Moved' = Moved
<1>1. \A d \in DocIds : Worths'[d] = Worths[d]
  BY WorthsInt, WorthsNext
<1>2. SumFunctionOnSet(Worths', DocIds) = SumFunctionOnSet(Worths, DocIds)
  BY <1>1, SumEqual, IdsAssumption
<1> QED BY <1>2 DEF Moved

LEMMA OneWorth ==
    ASSUME RowsTyped, RowsTyped', NEW d \in DocIds,
           \A x \in DocIds \ {d} : Worth(doc'[x]) = Worth(doc[x])
    PROVE  Moved' = Moved - Worth(doc[d]) + Worth(doc'[d])
<1>1. \A x \in DocIds \ {d} : Worths'[x] = Worths[x]
  BY WorthsInt, WorthsNext
<1>2. SumFunctionOnSet(Worths', DocIds)
        = SumFunctionOnSet(Worths, DocIds) - Worths[d] + Worths'[d]
  BY <1>1, WorthsInt, WorthsNext, SumChange, IdsAssumption
<1> QED BY <1>2, WorthsInt, WorthsNext DEF Moved

LEMMA SameTaken ==
    ASSUME RowsTyped, RowsTyped', \A r \in ResIds : Taken(res'[r]) = Taken(res[r])
    PROVE  Held' = Held
<1>1. \A r \in ResIds : Takes'[r] = Takes[r]
  BY TakesInt, TakesNext
<1>2. SumFunctionOnSet(Takes', ResIds) = SumFunctionOnSet(Takes, ResIds)
  BY <1>1, SumEqual, IdsAssumption
<1> QED BY <1>2 DEF Held

LEMMA OneTaken ==
    ASSUME RowsTyped, RowsTyped', NEW a \in ResIds,
           \A x \in ResIds \ {a} : Taken(res'[x]) = Taken(res[x])
    PROVE  Held' = Held - Taken(res[a]) + Taken(res'[a])
<1>1. \A x \in ResIds \ {a} : Takes'[x] = Takes[x]
  BY TakesInt, TakesNext
<1>2. SumFunctionOnSet(Takes', ResIds)
        = SumFunctionOnSet(Takes, ResIds) - Takes[a] + Takes'[a]
  <2>1. IsFiniteSet(ResIds) /\ (\A r \in ResIds : Takes[r] \in Int) /\ Takes'[a] \in Int
    BY TakesInt, TakesNext, IdsAssumption
  <2> QED BY <1>1, <2>1, SumChange
<1> QED BY <1>2, TakesInt, TakesNext DEF Held

LEMMA TwoTaken ==
    ASSUME RowsTyped, RowsTyped', NEW a \in ResIds, NEW b \in ResIds, a # b,
           \A x \in ResIds \ {a, b} : Taken(res'[x]) = Taken(res[x])
    PROVE  Held' = Held - Taken(res[a]) + Taken(res'[a]) - Taken(res[b]) + Taken(res'[b])
<1>1. \A x \in ResIds \ {a, b} : Takes'[x] = Takes[x]
  BY TakesInt, TakesNext
<1>2. PICK mid : mid = [Takes EXCEPT ![a] = Takes'[a]]
  OBVIOUS
<1>3. /\ mid[a] = Takes'[a]
      /\ \A x \in ResIds \ {a} : mid[x] = Takes[x]
  BY <1>2 DEF Takes
<1>4. /\ IsFiniteSet(ResIds) /\ \A x \in ResIds : mid[x] \in Int
      /\ \A x \in ResIds : Takes[x] \in Int
      /\ \A x \in ResIds : Takes'[x] \in Int
  BY <1>3, TakesInt, TakesNext, IdsAssumption
<1>5. SumFunctionOnSet(mid, ResIds) = SumFunctionOnSet(Takes, ResIds) - Takes[a] + mid[a]
  <2>1. \A x \in ResIds \ {a} : mid[x] = Takes[x]
    BY <1>3
  <2>2. IsFiniteSet(ResIds) /\ (\A x \in ResIds : Takes[x] \in Int) /\ mid[a] \in Int
    BY <1>4
  <2> QED BY <2>1, <2>2, SumChange
<1>6. SumFunctionOnSet(Takes', ResIds) = SumFunctionOnSet(mid, ResIds) - mid[b] + Takes'[b]
  <2>1. \A x \in ResIds \ {b} : Takes'[x] = mid[x]
    BY <1>1, <1>3
  <2>2. Takes'[b] \in Int
    BY <1>4
  <2> QED BY <1>4, <2>1, <2>2, SumChange
<1>7. mid[b] = Takes[b]
  BY <1>3
<1>8. SumFunctionOnSet(mid, ResIds) \in Int /\ Held \in Int
  BY <1>4, SumInt, IdsAssumption DEF Held
<1>9. Held' = Held - Takes[a] + Takes'[a] - Takes[b] + Takes'[b]
  BY <1>3, <1>4, <1>5, <1>6, <1>7, <1>8 DEF Held
<1> QED BY <1>9, TakesInt, TakesNext

(* A row that holds what is planned counts for the local part of the plan. *)
LEMMA PlannedTakes ==
    ASSUME NEW t, t.local \in Nat, t.back \in Nat, NEW row, row.st = "ACTIVE",
           row.qty = t.local + t.back, WantedOf(t, row.src) = t.local + t.back
    PROVE  Taken(row) = t.local
BY DEF Taken, WantedOf

(* What a reservation transaction takes from stock is what it holds more   *)
(* than it has seen held.                                                  *)
LEMMA ApplyBalances ==
    ASSUME OneInv, RowsTyped', NEW h \in Handlers, Apply(h)
    PROVE  Held' = Held - SeenQty(at[h].seen, "LOCAL_STOCK") + at[h].local
<1>0. RowsTyped /\ OneActivePerOrder /\ Held \in Int
  BY TakesInt DEF OneInv, NeedInv, ReservationsInv
<1>1. PICK t : \E new :
             /\ t = at[h] /\ t.o \in Orders /\ t.seen = SeenActive(t.o) /\ SeesActive(t)
             /\ t.seen \in SUBSET SeenRow
             /\ t.local \in Nat /\ t.back \in Nat /\ RowsAfter(t, new)
  BY <1>0, AppliedFresh
<1>2. PICK new :
             /\ t = at[h] /\ t.o \in Orders /\ t.seen = SeenActive(t.o) /\ SeesActive(t)
             /\ t.seen \in SUBSET SeenRow
             /\ t.local \in Nat /\ t.back \in Nat /\ RowsAfter(t, new)
  BY <1>1
<1>3. SeenIds(t) = Active(t.o)
  <2>1. \A s \in t.seen : s.r \in Active(t.o)
    BY <1>2 DEF SeenActive
  <2>2. \A r \in Active(t.o) : \E s \in t.seen : s.r = r
    BY <1>2 DEF SeesActive
  <2> QED BY <2>1, <2>2 DEF SeenIds
<1>4. KeptIds(t) \subseteq SeenIds(t)
  BY DEF KeptIds, SeenIds
<1>5. new \in ResIds => /\ Taken(res[new]) = 0 /\ Taken(res'[new]) = t.local
                        /\ KeptIds(t) = {} /\ new \notin SeenIds(t)
  <2> SUFFICES ASSUME new \in ResIds
               PROVE  /\ Taken(res[new]) = 0 /\ Taken(res'[new]) = t.local
                      /\ KeptIds(t) = {} /\ new \notin SeenIds(t)
    OBVIOUS
  <2>1. /\ res[new].st = "FREE" /\ KeptIds(t) = {} /\ res'[new].st = "ACTIVE"
        /\ res'[new].qty = t.local + t.back /\ WantedOf(t, res'[new].src) = t.local + t.back
    BY <1>2 DEF RowsAfter
  <2>2. Taken(res[new]) = 0
    BY <2>1 DEF Taken
  <2>3. PICK row : row = res'[new]
    OBVIOUS
  <2>4. Taken(row) = t.local
    BY <1>2, <2>1, <2>3, PlannedTakes
  <2> QED BY <1>3, <2>1, <2>2, <2>3, <2>4 DEF Active
<1>6. \A r \in ResIds \ {new} : r \notin SeenIds(t) => Taken(res'[r]) = Taken(res[r])
  BY <1>2 DEF RowsAfter
<1>7. new \notin ResIds =>
        \A src \in Sources : WantedOf(t, src) > 0 => \E s \in t.seen : s.src = src
  BY <1>2 DEF RowsAfter, CreatedSources, Sources
<1>8. CASE SeenIds(t) = {}
  <2>1. t.seen = {}
    BY <1>8 DEF SeenIds
  <2>2. SeenQty(t.seen, "LOCAL_STOCK") = 0
    <3>1. {s \in t.seen : s.src = "LOCAL_STOCK"} = {}
      BY <2>1
    <3> QED BY <3>1, SumQtyNone, Zenon DEF SeenQty
  <2>3. CASE new \in ResIds
    <3>1. Held' = Held - Taken(res[new]) + Taken(res'[new])
      BY <1>0, <1>6, <1>8, <2>3, OneTaken
    <3> QED BY <1>0, <1>2, <1>5, <2>2, <2>3, <3>1
  <2>4. CASE new \notin ResIds
    <3>1. t.local = 0
      BY <1>2, <1>7, <2>1, <2>4 DEF WantedOf, Sources
    <3>2. Held' = Held
      BY <1>0, <1>6, <1>8, <2>4, SameTaken
    <3> QED BY <1>0, <1>2, <2>2, <3>1, <3>2
  <2> QED BY <2>3, <2>4
<1>9. CASE SeenIds(t) # {}
  <2>1. PICK a \in ResIds : SeenIds(t) = {a} /\ res[a].st = "ACTIVE" /\ res[a].o = t.o
    BY <1>0, <1>3, <1>9 DEF Active, OneActivePerOrder
  <2>2. PICK s : s \in t.seen /\ s = [r |-> a, src |-> res[a].src, qty |-> res[a].qty]
    BY <1>2, <1>3, <2>1 DEF SeenActive
  <2>3. t.seen = {s}
    BY <1>2, <1>3, <2>1, <2>2 DEF SeenActive
  <2>4. s.r = a /\ s.src = res[a].src /\ s.qty = res[a].qty /\ s.qty \in Nat
    BY <1>0, <2>2 DEF RowsTyped, ResRow
  <2>5. SeenQty(t.seen, "LOCAL_STOCK") = Taken(res[a])
    <3>1. CASE res[a].src = "LOCAL_STOCK"
      <4>1. {u \in t.seen : u.src = "LOCAL_STOCK"} = {s}
        BY <2>3, <2>4, <3>1
      <4>2. SumQty({s}) = s.qty
        BY <2>4, SumQtyOne
      <4>3. Taken(res[a]) = s.qty
        BY <2>1, <2>4, <3>1 DEF Taken
      <4> QED BY <4>1, <4>2, <4>3, Zenon DEF SeenQty
    <3>2. CASE res[a].src # "LOCAL_STOCK"
      <4>1. {u \in t.seen : u.src = "LOCAL_STOCK"} = {}
        BY <2>3, <2>4, <3>2
      <4>2. Taken(res[a]) = 0
        BY <3>2 DEF Taken
      <4> QED BY <4>1, <4>2, SumQtyNone, Zenon DEF SeenQty
    <3> QED BY <3>1, <3>2
  <2>6. Taken(res[a]) \in Nat
    BY <1>0, TakenNat DEF RowsTyped
  <2>7. CASE a \in KeptIds(t)
    <3>1. new \notin ResIds /\ a # new
      BY <1>5, <2>7
    <3>2. /\ res'[a].qty = t.local + t.back /\ res'[a].st = "ACTIVE"
          /\ WantedOf(t, res'[a].src) = t.local + t.back
      BY <1>2, <2>1, <2>7, <3>1 DEF RowsAfter
    <3>3. PICK row : row = res'[a]
      OBVIOUS
    <3>4. Taken(row) = t.local
      BY <1>2, <3>2, <3>3, PlannedTakes
    <3>5. Held' = Held - Taken(res[a]) + Taken(res'[a])
      BY <1>0, <1>6, <2>1, <3>1, OneTaken
    <3> QED BY <1>2, <2>5, <3>3, <3>4, <3>5
  <2>8. CASE a \notin KeptIds(t)
    <3>1. a # new
      BY <1>5, <2>1
    <3>2. Taken(res'[a]) = 0
      <4>1. res'[a].st = "RELEASED"
        BY <1>2, <2>1, <2>8, <3>1 DEF RowsAfter
      <4> QED BY <4>1 DEF Taken
    <3>3. CASE new \in ResIds
      <4>1. \A x \in ResIds \ {a, new} : Taken(res'[x]) = Taken(res[x])
        BY <1>6, <2>1
      <4>2. Held' = Held - Taken(res[a]) + Taken(res'[a]) - Taken(res[new]) + Taken(res'[new])
        BY <1>0, <3>1, <3>3, <4>1, TwoTaken
      <4> QED BY <1>0, <1>2, <1>5, <2>5, <2>6, <3>2, <3>3, <4>2
    <3>4. CASE new \notin ResIds
      <4>1. ~(WantedOf(t, s.src) > 0)
        <5>1. SUFFICES ASSUME WantedOf(t, s.src) > 0 PROVE s.r \in KeptIds(t)
          BY <2>4, <2>8
        <5>2. \A u \in t.seen : u.src = s.src => s.r <= u.r
          BY <2>3, <2>4, IdsAssumption
        <5> QED BY <2>2, <5>1, <5>2 DEF KeptIds
      <4>2. t.local = 0
        <5>1. \A src \in Sources : ~(WantedOf(t, src) > 0)
          BY <1>7, <2>3, <3>4, <4>1
        <5> QED BY <1>2, <5>1 DEF WantedOf, Sources
      <4>3. Held' = Held - Taken(res[a]) + Taken(res'[a])
        BY <1>0, <1>6, <2>1, <3>4, OneTaken
      <4> QED BY <1>0, <1>2, <2>5, <2>6, <3>2, <4>2, <4>3
    <3> QED BY <3>3, <3>4
  <2> QED BY <2>7, <2>8
<1> QED BY <1>8, <1>9

(* What a confirmation writes when what it read is still so: of R, those   *)
(* that are active are consumed.                                           *)
Consumes(R, cancelled) ==
    res' = [r \in ResIds |->
              IF r \in R /\ res[r].st = "ACTIVE" THEN [res[r] EXCEPT !.st = "CONSUMED"]
              ELSE IF r \in cancelled /\ res[r].st = "ACTIVE"
                   THEN [res[r] EXCEPT !.st = "CANCELLED"]
              ELSE res[r]]

LEMMA ConsumesActive ==
    ASSUME NEW R, NEW cancelled, ConsumeRows({r \in R : res[r].st = "ACTIVE"}, cancelled)
    PROVE  Consumes(R, cancelled)
BY DEF ConsumeRows, Consumes

LEMMA ConfirmConsumes ==
    ASSUME OneInv, NEW h \in Handlers, at[h].k = "confirmTx", at[h].unread = {},
           ConsumeRows(at[h].consumed, at[h].cancelled)
    PROVE  Consumes({l.res : l \in ConsumedLines(at[h].d)}, at[h].cancelled)
<1>1. FreshConfirm(at[h])
  BY DEF OneInv, FreshInv, Fresh, FreshDocument
<1>2. PICK t : t = at[h]
  OBVIOUS
<1>3. t.consumed = {r \in ToConsume(t.d) : res[r].st = "ACTIVE"}
  BY <1>1, <1>2 DEF FreshConfirm
<1>4. Consumes(ToConsume(t.d), t.cancelled)
  BY <1>2, <1>3, ConsumesActive
<1> QED BY <1>2, <1>4 DEF ToConsume

LEMMA WzConsumes ==
    ASSUME OneInv, NEW h \in Handlers, at[h].k = "wzTx",
           Confirms(at[h]) => at[h].unread = {}, ConsumeRows(at[h].consumed, {})
    PROVE  Consumes(IF Confirms(at[h]) THEN {l.res : l \in at[h].lines} ELSE {}, {})
<1>1. PICK t : t = at[h]
  OBVIOUS
<1>2. FreshReservation(t) /\ t.k = "wzTx"
  BY <1>1 DEF OneInv, FreshInv, Fresh
<1>3. CASE Confirms(t)
  <2>1. t.consumed = ActiveLocal(t.o)
    BY <1>1, <1>2, <1>3 DEF FreshReservation
  <2>2. {l.res : l \in t.lines} = ActiveLocal(t.o)
    <3>1. t.lines = LinesFor(t.o)
      BY <1>2 DEF FreshReservation
    <3>2. ASSUME NEW l \in t.lines PROVE l.res \in ActiveLocal(t.o)
      BY <3>1 DEF LinesFor
    <3>3. ASSUME NEW r \in ActiveLocal(t.o) PROVE \E l \in t.lines : l.res = r
      <4>1. PICK l : l = [n |-> 1, res |-> r, qty |-> res[r].qty]
        OBVIOUS
      <4>2. l \in t.lines /\ l.res = r
        BY <3>1, <4>1 DEF LinesFor
      <4> QED BY <4>2
    <3> QED BY <3>2, <3>3
  <2>3. {r \in ActiveLocal(t.o) : res[r].st = "ACTIVE"} = ActiveLocal(t.o)
    BY DEF ActiveLocal, Active
  <2> QED BY <1>1, <1>3, <2>1, <2>2, <2>3, ConsumesActive
<1>4. CASE ~Confirms(t)
  <2>1. t.consumed = {}
    BY <1>2, <1>4 DEF FreshReservation
  <2>2. t.consumed = {r \in {} : res[r].st = "ACTIVE"}
    BY <2>1
  <2>3. Consumes({}, {})
    BY <1>1, <2>2, ConsumesActive, Zenon
  <2> QED BY <1>1, <1>4, <2>3
<1> QED BY <1>3, <1>4

(* A local reservation that is consumed goes on counting, one that is      *)
(* cancelled was a backorder.                                              *)
LEMMA ConsumedTakes ==
    ASSUME RowsTyped, NEW R, NEW cancelled, Consumes(R, cancelled),
           \A r \in ResIds : r \in cancelled => res[r].src # "LOCAL_STOCK"
    PROVE  \A r \in ResIds : Taken(res'[r]) = Taken(res[r])
<1> SUFFICES ASSUME NEW r \in ResIds PROVE Taken(res'[r]) = Taken(res[r])
  OBVIOUS
<1>1. PICK row \in ResRow : row = res[r]
  BY DEF RowsTyped
<1>2. \/ res'[r] = row
      \/ row.st = "ACTIVE" /\ res'[r] = [row EXCEPT !.st = "CONSUMED"]
      \/ row.st = "ACTIVE" /\ r \in cancelled /\ res'[r] = [row EXCEPT !.st = "CANCELLED"]
  BY <1>1 DEF Consumes
<1>3. r \in cancelled => row.src # "LOCAL_STOCK"
  BY <1>1
<1> QED BY <1>1, <1>2, <1>3 DEF Taken, ResRow

(* The lines that ConfirmTx frees are those that Confirm has counted.      *)
LEMMA FreedAreDetached ==
    ASSUME NEW d
    PROVE  {l \in doc[d].lines : \E x \in DetachedLines(d) : x.n = l.n /\ x.res = l.res}
             = DetachedLines(d)
BY DEF DetachedLines, BackorderLines, LinesOf

LEMMA ConfirmBalances ==
    ASSUME OneInv, RowsTyped', Balance, NEW h \in Handlers, ConfirmTx(h)
    PROVE  Balance'
<1>0. RowsTyped /\ Moved \in Int /\ Held \in Int /\ stock \in Int
  BY WorthsInt, TakesInt DEF OneInv, NeedInv, RowsTyped
<1>1. PICK t : \E d \in DocIds, quantity \in Nat :
             /\ t = at[h] /\ t.k = "confirmTx" /\ t.d = d /\ FreshConfirm(t)
             /\ doc[d] \in DocRow /\ doc[d].st = "DRAFT" /\ t.sys \in Int
             /\ t.detached = DetachedLines(d) /\ t.own = doc[d].own
             /\ SumQty(t.detached) \in Nat
             /\ quantity = t.own + SumQty(t.detached)
  BY <1>0, ConfirmedFresh
<1>2. PICK d \in DocIds, quantity \in Nat :
             /\ t = at[h] /\ t.k = "confirmTx" /\ t.d = d /\ FreshConfirm(t)
             /\ doc[d] \in DocRow /\ doc[d].st = "DRAFT" /\ t.sys \in Int
             /\ t.detached = DetachedLines(d) /\ t.own = doc[d].own
             /\ SumQty(t.detached) \in Nat
             /\ quantity = t.own + SumQty(t.detached)
  BY <1>1
<1>3. CASE stock' = stock /\ res' = res /\ doc' = doc
  <2>1. Moved' = Moved /\ Held' = Held
    BY <1>0, <1>3, SameWorth, SameTaken
  <2> QED BY <1>3, <2>1 DEF Balance
<1>4. CASE /\ stock' = stock + StockDelta(doc[d].type, quantity, t.sys)
           /\ Consumes({l.res : l \in ConsumedLines(d)}, t.cancelled)
           /\ doc' = [doc EXCEPT ![d].st = "CONFIRMED",
                                 ![d].own = @ + SumQty(t.detached),
                                 ![d].lines = @ \ t.detached]
  <2>1. t.sys = doc[d].sys
    BY <1>2 DEF FreshConfirm
  <2>2. \A r \in ResIds : r \in t.cancelled => res[r].src # "LOCAL_STOCK"
    BY <1>2 DEF FreshConfirm, BackorderLines, LinesOf
  <2>3. Held' = Held
    BY <1>0, <1>4, <2>2, ConsumedTakes, SameTaken
  <2>4. PICK row \in DocRow : row = doc[d]
    BY <1>2
  <2>5. PICK taken \in Nat : taken = SumQty(t.detached)
    BY <1>2
  <2>6. doc' = [doc EXCEPT ![d] = [row EXCEPT !.st = "CONFIRMED", !.own = @ + taken,
                                              !.lines = @ \ t.detached]]
    BY <1>0, <1>4, <2>4, <2>5 DEF RowsTyped, DocRow
  <2>7. doc'[d] = [row EXCEPT !.st = "CONFIRMED", !.own = @ + taken, !.lines = @ \ t.detached]
    BY <1>0, <2>6 DEF RowsTyped
  <2>8. /\ doc'[d].st = "CONFIRMED" /\ doc'[d].type = row.type
        /\ doc'[d].own = row.own + taken /\ doc'[d].sys = row.sys
    BY <2>7 DEF DocRow
  <2>9. Worth(doc'[d]) = StockDelta(doc[d].type, quantity, t.sys)
    BY <1>2, <2>1, <2>4, <2>5, <2>8 DEF Worth
  <2>10. Worth(doc[d]) = 0
    BY <1>2 DEF Worth
  <2>11. \A x \in DocIds \ {d} : Worth(doc'[x]) = Worth(doc[x])
    BY <1>0, <2>6 DEF RowsTyped
  <2>12. Moved' = Moved - Worth(doc[d]) + Worth(doc'[d])
    BY <1>0, <2>11, OneWorth
  <2>13. PICK delta \in Int : delta = StockDelta(doc[d].type, quantity, t.sys)
    BY <1>2, DeltaInt
  <2>14. Moved' = Moved + delta /\ stock' = stock + delta
    BY <1>0, <1>4, <2>9, <2>10, <2>12, <2>13
  <2> QED BY <1>0, <2>3, <2>14 DEF Balance
<1>5. PICK freed : freed = {l \in doc[at[h].d].lines :
                             \E x \in at[h].detached : x.n = l.n /\ x.res = l.res}
  OBVIOUS
<1>6. \/ UNCHANGED <<stock, res, doc>>
      \/ /\ stock' = stock + StockDelta(doc[at[h].d].type,
                                        at[h].own + SumQty(at[h].detached), at[h].sys)
         /\ at[h].unread = {} /\ ConsumeRows(at[h].consumed, at[h].cancelled)
         /\ doc' = [doc EXCEPT ![at[h].d].st = "CONFIRMED",
                               ![at[h].d].own = @ + SumQty(freed),
                               ![at[h].d].lines = @ \ freed]
  BY <1>5 DEF ConfirmTx
<1>7. freed = t.detached /\ t.own + SumQty(t.detached) = quantity
  BY <1>2, <1>5, FreedAreDetached
<1>8. at[h] = t /\ t.d = d /\ t.k = "confirmTx"
  BY <1>2
<1>9. t.unread = {} /\ ConsumeRows(t.consumed, t.cancelled) =>
        Consumes({l.res : l \in ConsumedLines(d)}, t.cancelled)
  BY <1>8, ConfirmConsumes
<1> QED BY <1>3, <1>4, <1>6, <1>7, <1>8, <1>9

(* releaseDocumentReservations gives back what the linked reservations    *)
(* still hold.                                                             *)
StillHolding(lines) == {r \in {l.res : l \in lines} : Holding(r)}

LEMMA SeenHeld ==
    ASSUME RowsTyped, NEW R \in SUBSET ResIds
    PROVE  /\ {s.r : s \in SeenOf(R)} = R
           /\ SeenQty(SeenOf(R), "LOCAL_STOCK") = SumRes({r \in R : res[r].src = "LOCAL_STOCK"})
<1>1. \A r \in R : r \in ResIds
  OBVIOUS
<1> DEFINE row(r) == [r |-> r, src |-> res[r].src, qty |-> res[r].qty]
<1>12. \A r \in R : row(r) \in SeenOf(R) /\ row(r).r = r
  BY DEF SeenOf
<1>13. \A s \in SeenOf(R) : s.r \in R /\ s = row(s.r)
  BY DEF SeenOf
<1> HIDE DEF row
<1>2. {s.r : s \in SeenOf(R)} = R
  BY <1>12, <1>13
<1>3. PICK local : local = {r \in R : res[r].src = "LOCAL_STOCK"}
  OBVIOUS
<1> DEFINE e == [r \in ResIds |-> row(r)]
           S == {s \in SeenOf(R) : s.src = "LOCAL_STOCK"}
           g == [s \in S |-> s.qty]
<1>4. local \in SUBSET ResIds /\ IsFiniteSet(local)
  BY <1>3, FS_Subset, IdsAssumption
<1>5. /\ \A r \in local : e[r].r = r /\ e[r] \in S /\ g[e[r]] = res[r].qty
      /\ S = {e[r] : r \in local}
  <2>1. \A r \in R : e[r] = row(r) /\ row(r).src = res[r].src /\ row(r).qty = res[r].qty
    BY <1>1 DEF row
  <2>2. \A r \in local : e[r].r = r /\ e[r] \in S /\ g[e[r]] = res[r].qty
    BY <1>3, <1>12, <2>1
  <2>3. \A s \in S : s.r \in local /\ s = e[s.r]
    BY <1>3, <1>13, <2>1
  <2>4. S = {e[r] : r \in local}
    <3> HIDE DEF e, S, g
    <3>1. \A s \in S : \E r \in local : s = e[r]
      BY <2>3
    <3>2. \A r \in local : e[r] \in S
      BY <2>2
    <3> QED BY <3>1, <3>2
  <2> QED BY <2>2, <2>4
<1>6. \A r \in local : QtyOf[r] = res[r].qty /\ QtyOf[r] \in Int
  BY <1>4, QtyOfNat
<1> HIDE DEF e
<1>7. DOMAIN g = S
  OBVIOUS
<1> HIDE DEF g, S
<1>8. SumFunctionOnSet(QtyOf, local) = SumFunctionOnSet(g, S)
  <2>1. \A x, y \in local : e[x] = e[y] => x = y
    BY <1>5
  <2>2. \A x \in local : QtyOf[x] = g[e[x]] /\ g[e[x]] \in Int
    BY <1>5, <1>6
  <2>3. SumFunctionOnSet(QtyOf, local) = SumFunctionOnSet(g, {e[x] : x \in local})
    BY <1>4, <2>1, <2>2, SumRenamed
  <2> QED BY <1>5, <2>3
<1>9. SumFunction(g) = SumFunctionOnSet(g, S)
  BY <1>7 DEF SumFunction
<1>10. SeenQty(SeenOf(R), "LOCAL_STOCK") = SumFunction(g)
  BY DEF SeenQty, SumQty, g, S
<1>11. SumRes(local) = SumFunctionOnSet(QtyOf, local)
  BY <1>4, SumResIs
<1> QED BY <1>2, <1>3, <1>8, <1>9, <1>10, <1>11

(* What cancelDocument has seen when it has read all there is.             *)
LEMMA CancelledFresh ==
    ASSUME OneInv, NEW h \in Handlers, CancelTx(h)
    PROVE  \E t : \E d \in DocIds, holding \in SUBSET ResIds :
             /\ t = at[h] /\ t.k = "cancelTx" /\ t.d = d
             /\ t.st \in {"DRAFT", "CONFIRMED"} /\ t.st = doc[d].st
             /\ t.own = doc[d].own /\ t.sys = doc[d].sys
             /\ holding = IF t.st = "CONFIRMED" THEN StillHolding(doc[d].lines) ELSE {}
             /\ t.unread = {} => /\ {s.r : s \in t.seen} = holding
                                 /\ SeenQty(t.seen, "LOCAL_STOCK")
                                      = SumRes({r \in holding : res[r].src = "LOCAL_STOCK"})
<1>1. PICK t : t = at[h]
  OBVIOUS
<1>2. t.k = "cancelTx" /\ t \in AnyStep /\ RowsTyped
  BY <1>1 DEF CancelTx, OneInv, NeedInv, StepsTyped
<1>3. PICK d \in DocIds : d = t.d /\ t.st \in {"DRAFT", "CONFIRMED"}
  BY <1>2, DocumentFields
<1>4. /\ t.st = doc[d].st /\ t.own = doc[d].own /\ t.sys = doc[d].sys
      /\ t.seen = SeenOf({r \in ToRelease(d) \ t.unread : Holding(r)})
  BY <1>1, <1>2, <1>3 DEF OneInv, FreshInv, Fresh, FreshDocument
<1> DEFINE holding == IF t.st = "CONFIRMED" THEN StillHolding(doc[d].lines) ELSE {}
<1>6. holding = {r \in ToRelease(d) : Holding(r)}
  BY <1>4 DEF StillHolding, ToRelease
<1>7. holding \in SUBSET ResIds
  <2>1. doc[d].lines \in SUBSET Line
    BY <1>2 DEF RowsTyped, DocRow
  <2> QED BY <2>1 DEF StillHolding, Line
<1>8. t.unread = {} => t.seen = SeenOf(holding)
  BY <1>4, <1>6
<1>9. t.unread = {} => /\ {s.r : s \in t.seen} = holding
                       /\ SeenQty(t.seen, "LOCAL_STOCK")
                            = SumRes({r \in holding : res[r].src = "LOCAL_STOCK"})
  BY <1>2, <1>7, <1>8, SeenHeld
<1>10. holding = IF t.st = "CONFIRMED" THEN StillHolding(doc[d].lines) ELSE {}
  OBVIOUS
<1> HIDE DEF holding
<1> WITNESS t
<1> WITNESS d \in DocIds, holding \in SUBSET ResIds
<1> QED BY <1>1, <1>2, <1>3, <1>4, <1>7, <1>9, <1>10

(* cancelDocument gives back what the reservations of the document still   *)
(* hold, and takes back what the document moved by itself.                 *)
LEMMA CancelBalances ==
    ASSUME OneInv, RowsTyped', Balance, NEW h \in Handlers, CancelTx(h)
    PROVE  Balance'
<1>0. RowsTyped /\ Moved \in Int /\ Held \in Int /\ stock \in Int
  BY WorthsInt, TakesInt DEF OneInv, NeedInv, RowsTyped
<1>1. PICK t : \E d \in DocIds, holding \in SUBSET ResIds :
             /\ t = at[h] /\ t.k = "cancelTx" /\ t.d = d
             /\ t.st \in {"DRAFT", "CONFIRMED"} /\ t.st = doc[d].st
             /\ t.own = doc[d].own /\ t.sys = doc[d].sys
             /\ holding = IF t.st = "CONFIRMED" THEN StillHolding(doc[d].lines) ELSE {}
             /\ t.unread = {} => /\ {s.r : s \in t.seen} = holding
                                 /\ SeenQty(t.seen, "LOCAL_STOCK")
                                      = SumRes({r \in holding : res[r].src = "LOCAL_STOCK"})
  BY CancelledFresh
<1>2. PICK d \in DocIds, holding \in SUBSET ResIds :
             /\ t = at[h] /\ t.k = "cancelTx" /\ t.d = d
             /\ t.st = doc[d].st /\ t.own = doc[d].own /\ t.sys = doc[d].sys
             /\ holding = IF t.st = "CONFIRMED" THEN StillHolding(doc[d].lines) ELSE {}
             /\ t.unread = {} => /\ {s.r : s \in t.seen} = holding
                                 /\ SeenQty(t.seen, "LOCAL_STOCK")
                                      = SumRes({r \in holding : res[r].src = "LOCAL_STOCK"})
  BY <1>1
<1>4. t.st = doc[d].st /\ t.own = doc[d].own /\ t.sys = doc[d].sys
  BY <1>2
<1>6. PICK local : local = {r \in holding : res[r].src = "LOCAL_STOCK"}
  OBVIOUS
<1>7. CASE stock' = stock /\ res' = res /\ doc' = doc
  <2>1. Moved' = Moved /\ Held' = Held
    BY <1>0, <1>7, SameWorth, SameTaken
  <2> QED BY <1>7, <2>1 DEF Balance
<1>8. CASE /\ stock' = stock + SumRes(local)
                         - (IF t.st = "CONFIRMED" THEN StockDelta(doc[d].type, t.own, t.sys) ELSE 0)
           /\ res' = [r \in ResIds |-> IF r \in holding THEN [res[r] EXCEPT !.st = "RELEASED"]
                                       ELSE res[r]]
           /\ doc' = [doc EXCEPT ![d].st = "CANCELLED"]
  <2>1. PICK row \in DocRow : row = doc[d]
    BY <1>0 DEF RowsTyped
  <2>2. doc' = [doc EXCEPT ![d] = [row EXCEPT !.st = "CANCELLED"]]
    BY <1>8, <2>1
  <2>3. doc'[d].st = "CANCELLED" /\ \A x \in DocIds \ {d} : doc'[x] = doc[x]
    BY <1>0, <2>1, <2>2 DEF RowsTyped, DocRow
  <2>4. Worth(doc'[d]) = 0
    BY <2>3 DEF Worth
  <2>5. Moved' = Moved - Worth(doc[d]) + Worth(doc'[d])
    BY <1>0, <2>3, OneWorth
  <2>6. Worth(doc[d]) = IF t.st = "CONFIRMED" THEN StockDelta(doc[d].type, t.own, t.sys) ELSE 0
    BY <1>4 DEF Worth
  <2>7. Worth(doc[d]) \in Int
    BY <2>1, WorthInt
  <2>8. holding \in SUBSET ResIds /\ \A r \in holding : res[r].st \in {"ACTIVE", "CONSUMED"}
    BY <1>2 DEF StillHolding, Holding
  <2>9. local \in SUBSET ResIds /\ local \subseteq holding
    BY <1>6, <2>8
  <2>10. IsFiniteSet(local) /\ IsFiniteSet(ResIds \ local) /\ IsFiniteSet(ResIds)
    BY <2>9, FS_Subset, IdsAssumption
  <2>11. \A r \in local : Takes[r] = QtyOf[r] /\ Takes'[r] = 0
    <3>1. ASSUME NEW r \in local PROVE Taken(res[r]) = res[r].qty /\ Taken(res'[r]) = 0
      <4>1. PICK it \in ResRow : it = res[r]
        BY <1>0, <2>9 DEF RowsTyped
      <4>2. res'[r] = [it EXCEPT !.st = "RELEASED"]
        BY <1>8, <2>9, <4>1
      <4>3. it.st \in {"ACTIVE", "CONSUMED"} /\ it.src = "LOCAL_STOCK"
        BY <1>6, <2>8, <2>9, <4>1
      <4> QED BY <4>1, <4>2, <4>3 DEF Taken, ResRow
    <3> QED BY <1>0, <2>9, <3>1, TakesInt, TakesNext, QtyOfNat
  <2>12. \A r \in ResIds \ local : Takes'[r] = Takes[r]
    <3>1. ASSUME NEW r \in ResIds \ local PROVE Taken(res'[r]) = Taken(res[r])
      <4>1. PICK it \in ResRow : it = res[r]
        BY <1>0 DEF RowsTyped
      <4>2. \/ res'[r] = it
            \/ res'[r] = [it EXCEPT !.st = "RELEASED"] /\ it.src # "LOCAL_STOCK"
        BY <1>6, <1>8, <4>1
      <4> QED BY <4>1, <4>2 DEF Taken, ResRow
    <3> QED BY <1>0, <3>1, TakesInt, TakesNext
  <2>13. /\ \A r \in ResIds : Takes[r] \in Int
         /\ \A r \in ResIds : Takes'[r] \in Int
    BY <1>0, TakesInt, TakesNext
  <2>14. local \cup (ResIds \ local) = ResIds /\ local \cap (ResIds \ local) = {}
    BY <2>9
  <2>15. Held = SumFunctionOnSet(Takes, local) + SumFunctionOnSet(Takes, ResIds \ local)
    <3>1. SumFunctionOnSet(Takes, local \cup (ResIds \ local))
            = SumFunctionOnSet(Takes, local) + SumFunctionOnSet(Takes, ResIds \ local)
      BY <2>10, <2>13, <2>14, SumUnion
    <3> QED BY <2>14, <3>1 DEF Held
  <2>16. Held' = SumFunctionOnSet(Takes', local) + SumFunctionOnSet(Takes', ResIds \ local)
    <3>1. SumFunctionOnSet(Takes', local \cup (ResIds \ local))
            = SumFunctionOnSet(Takes', local) + SumFunctionOnSet(Takes', ResIds \ local)
      BY <2>10, <2>13, <2>14, SumUnion
    <3> QED BY <2>14, <3>1 DEF Held
  <2>17. SumFunctionOnSet(Takes', ResIds \ local) = SumFunctionOnSet(Takes, ResIds \ local)
    BY <2>10, <2>12, SumEqual
  <2>18. SumFunctionOnSet(Takes', local) = 0
    BY <2>10, <2>11, SumOfZeros
  <2>19. SumFunctionOnSet(Takes, local) = SumRes(local)
    <3>1. SumFunctionOnSet(Takes, local) = SumFunctionOnSet(QtyOf, local)
      BY <2>10, <2>11, SumEqual
    <3> QED BY <2>9, <3>1, SumResIs
  <2>20. /\ SumRes(local) \in Int /\ SumFunctionOnSet(Takes, ResIds \ local) \in Int
    <3>1. SumRes(local) \in Nat
      BY <1>0, <2>9, SumResNat
    <3>2. SumFunctionOnSet(Takes, ResIds \ local) \in Int
      BY <2>10, <2>13, SumInt
    <3> QED BY <3>1, <3>2
  <2>21. Held' = Held - SumRes(local)
    BY <2>15, <2>16, <2>17, <2>18, <2>19, <2>20
  <2>22. PICK worth \in Int : worth = Worth(doc[d])
    BY <2>7
  <2>23. stock' = stock + SumRes(local) - worth
    BY <1>8, <2>6, <2>22
  <2>24. Moved' = Moved - worth
    BY <1>0, <2>4, <2>5, <2>22
  <2> QED BY <1>0, <2>20, <2>21, <2>23, <2>24 DEF Balance
<1>9. \/ stock' = stock /\ res' = res /\ doc' = doc
      \/ /\ stock' = stock + SumRes(local)
                         - (IF t.st = "CONFIRMED" THEN StockDelta(doc[d].type, t.own, t.sys) ELSE 0)
         /\ res' = [r \in ResIds |-> IF r \in holding THEN [res[r] EXCEPT !.st = "RELEASED"]
                                     ELSE res[r]]
         /\ doc' = [doc EXCEPT ![d].st = "CANCELLED"]
  <2>1. PICK back, released, moved :
          /\ back = SeenQty(t.seen, "LOCAL_STOCK") /\ released = {s.r : s \in t.seen}
          /\ moved = IF t.st = "CONFIRMED" THEN StockDelta(doc[d].type, t.own, t.sys) ELSE 0
    OBVIOUS
  <2>2. \/ stock' = stock /\ res' = res /\ doc' = doc
        \/ /\ t.unread = {}
           /\ stock' = stock + back - moved
           /\ res' = [r \in ResIds |-> IF r \in released THEN [res[r] EXCEPT !.st = "RELEASED"]
                                       ELSE res[r]]
           /\ doc' = [doc EXCEPT ![d].st = "CANCELLED"]
    BY <1>2, <2>1, Zenon DEF CancelTx
  <2>3. t.unread = {} => released = holding /\ back = SumRes(local)
    BY <1>2, <1>6, <2>1
  <2> QED BY <2>1, <2>2, <2>3
<1> QED BY <1>7, <1>8, <1>9

(* A document that is not confirmed before nor after does not count. *)
Unmoved ==
    \/ doc' = doc
    \/ \E d \in DocIds : /\ doc[d].st # "CONFIRMED" /\ doc'[d].st # "CONFIRMED"
                         /\ \A x \in DocIds \ {d} : doc'[x] = doc[x]

LEMMA UnmovedWorth ==
    ASSUME RowsTyped, RowsTyped', Unmoved
    PROVE  Moved' = Moved
<1>1. \A d \in DocIds : Worth(doc'[d]) = Worth(doc[d])
  BY DEF Unmoved, Worth
<1> QED BY <1>1, SameWorth

LEMMA DraftUnmoved ==
    ASSUME RowsTyped, NEW d \in DocIds, NEW row, doc' = [doc EXCEPT ![d] = row],
           doc[d].st # "CONFIRMED", row.st # "CONFIRMED"
    PROVE  Unmoved
BY DEF Unmoved, RowsTyped

LEMMA EditsUnmoved ==
    ASSUME OneInv, NEW h \in Handlers,
           \/ SyncTx(h) \/ DeleteTx(h) \/ AddItemTx(h) \/ SetItemTx(h) \/ DropOwnTx(h)
           \/ DropItemTx(h) \/ UpdateTx(h)
    PROVE  Unmoved
<1>1. PICK t : t = at[h]
  OBVIOUS
<1>2. t \in AnyStep /\ t.k \in OnDraftKinds \ {"confirmTx"} /\ RowsTyped
  BY <1>1 DEF SyncTx, DeleteTx, AddItemTx, SetItemTx, DropOwnTx, DropItemTx, UpdateTx,
              OnDraftKinds, OneInv, NeedInv, StepsTyped
<1>3. t.d \in DocIds
  BY <1>2, DocumentFields DEF OnDraftKinds
<1>4. PICK d \in DocIds : d = t.d
  BY <1>3
<1>5. doc[d].st = "DRAFT"
  BY <1>1, <1>2, <1>4 DEF OneInv, FreshInv, Fresh, FreshDocument
<1>6. PICK row \in DocRow : row = doc[d]
  BY <1>2 DEF RowsTyped
<1>7. ASSUME NEW new, new.st = "DRAFT" \/ new.st = "DELETED", doc' = [doc EXCEPT ![d] = new]
      PROVE  Unmoved
  BY <1>2, <1>5, <1>7, DraftUnmoved
<1>8. CASE doc' = doc
  BY <1>8 DEF Unmoved
<1>9. CASE SyncTx(h)
  <2>1. PICK lines : doc' = doc \/ doc' = [doc EXCEPT ![d].lines = lines]
    BY <1>1, <1>4, <1>9 DEF SyncTx
  <2>2. [row EXCEPT !.lines = lines].st = "DRAFT"
    BY <1>5, <1>6 DEF DocRow
  <2> QED BY <1>6, <1>7, <1>8, <2>1, <2>2
<1>10. CASE DeleteTx(h)
  <2>1. doc' = doc \/ doc' = [doc EXCEPT ![d] = [FreeDoc EXCEPT !.st = "DELETED"]]
    BY <1>1, <1>4, <1>10 DEF DeleteTx
  <2>2. [FreeDoc EXCEPT !.st = "DELETED"].st = "DELETED"
    BY DEF FreeDoc
  <2> QED BY <1>7, <1>8, <2>1, <2>2
<1>11. ASSUME NEW own, NEW sys, \/ doc' = doc
                                \/ doc' = [doc EXCEPT ![d].own = own]
                                \/ doc' = [doc EXCEPT ![d].own = own, ![d].sys = sys]
       PROVE  Unmoved
  <2>1. /\ [row EXCEPT !.own = own].st = "DRAFT"
        /\ [row EXCEPT !.own = own, !.sys = sys].st = "DRAFT"
    BY <1>5, <1>6 DEF DocRow
  <2>2. \/ doc' = doc
        \/ doc' = [doc EXCEPT ![d] = [row EXCEPT !.own = own]]
        \/ doc' = [doc EXCEPT ![d] = [row EXCEPT !.own = own, !.sys = sys]]
    BY <1>2, <1>6, <1>11 DEF RowsTyped
  <2> QED BY <1>7, <1>8, <2>1, <2>2
<1>14. CASE AddItemTx(h)
  <2>1. PICK own, sys :
          /\ own = IF doc[t.d].type = "INW" THEN t.qty ELSE doc[t.d].own + t.qty
          /\ sys = IF doc[t.d].type = "INW" THEN t.sys ELSE doc[t.d].sys
    OBVIOUS
  <2>2. doc' = doc \/ doc' = [doc EXCEPT ![d].own = own, ![d].sys = sys]
    BY <1>1, <1>2, <1>4, <1>14, <2>1 DEF AddItemTx, RowsTyped, DocRow
  <2> QED BY <1>11, <2>2
<1>15. CASE SetItemTx(h)
  <2>1. doc' = doc \/ doc' = [doc EXCEPT ![d].own = t.qty]
    BY <1>1, <1>4, <1>15 DEF SetItemTx
  <2> QED BY <1>11, <2>1
<1>16. CASE DropOwnTx(h)
  <2>1. doc' = doc \/ doc' = [doc EXCEPT ![d].own = 0, ![d].sys = 0]
    BY <1>1, <1>4, <1>16 DEF DropOwnTx
  <2> QED BY <1>11, <2>1
<1>12. CASE DropItemTx(h)
  <2>1. PICK lines : doc' = doc \/ doc' = [doc EXCEPT ![d].lines = lines]
    BY <1>1, <1>4, <1>12 DEF DropItemTx
  <2>2. [row EXCEPT !.lines = lines].st = "DRAFT"
    BY <1>5, <1>6 DEF DocRow
  <2> QED BY <1>6, <1>7, <1>8, <2>1, <2>2
<1>13. CASE UpdateTx(h)
  <2>1. PICK base : base = IF t.items THEN [row EXCEPT !.own = t.own, !.sys = t.sys, !.lines = {}]
                           ELSE row
    OBVIOUS
  <2>2. \/ doc' = doc
        \/ doc' = [doc EXCEPT ![d] = IF t.order THEN [base EXCEPT !.o = t.o] ELSE base]
    BY <1>1, <1>4, <1>6, <1>13, <2>1, Zenon DEF UpdateTx
  <2>3. base.st = "DRAFT" /\ [base EXCEPT !.o = t.o].st = "DRAFT"
    BY <1>5, <1>6, <2>1 DEF DocRow
  <2> QED BY <1>7, <1>8, <2>2, <2>3
<1> QED BY <1>9, <1>10, <1>12, <1>13, <1>14, <1>15, <1>16

LEMMA NewUnmoved ==
    ASSUME OneInv, NEW h \in Handlers, WzTx(h) \/ ZhTx(h) \/ CreateDocument(h)
    PROVE  doc' = doc \/ \E d \in DocIds : /\ doc[d].st = "FREE" /\ Worth(doc'[d]) = 0
                                           /\ \A x \in DocIds \ {d} : doc'[x] = doc[x]
<1>0. RowsTyped
  BY DEF OneInv, NeedInv
<1>1. ASSUME NEW d \in DocIds, NEW row, IsFirstFree(d, FreeDocIds), doc' = [doc EXCEPT ![d] = row],
             Worth(row) = 0
      PROVE  doc[d].st = "FREE" /\ Worth(doc'[d]) = 0 /\ \A x \in DocIds \ {d} : doc'[x] = doc[x]
  BY <1>0, <1>1, FirstFree DEF RowsTyped
<1>3. CASE WzTx(h)
  <2>1. PICK st : st = IF ~at[h].draft /\ (at[h].force \/ AutoConfirmWz) /\ ~at[h].warn
                       THEN "CONFIRMED" ELSE "DRAFT"
    OBVIOUS
  <2>2. PICK free \in DocRow : free = FreeDoc
    BY FreeDocTyped
  <2>3. PICK row : row = [free EXCEPT !.st = st, !.o = at[h].o, !.lines = at[h].lines,
                                      !.warn = at[h].warn]
    OBVIOUS
  <2>4. \/ doc' = doc
        \/ \E d \in DocIds : IsFirstFree(d, FreeDocIds) /\ doc' = [doc EXCEPT ![d] = row]
    BY <1>3, <2>1, <2>2, <2>3, Zenon DEF WzTx
  <2>5. free.type = "WZ" /\ free.own = 0 /\ free.sys = 0
    BY <2>2 DEF FreeDoc
  <2>6. row.type = "WZ" /\ row.own = 0
    BY <2>2, <2>3, <2>5 DEF DocRow
  <2>7. StockDelta(row.type, row.own, row.sys) = 0
    <3>1. "WZ" \notin {"PZ", "PW", "ZW"} /\ "WZ" \in {"WZ", "RW"}
      OBVIOUS
    <3>2. PICK own \in Nat : own = row.own /\ own = 0
      BY <2>6
    <3>3. StockDelta(row.type, row.own, row.sys) = -own
      BY <2>6, <3>1, <3>2, Zenon DEF StockDelta
    <3> QED BY <3>2, <3>3
  <2>8. Worth(row) = 0
    BY <2>7, Zenon DEF Worth
  <2> QED BY <1>1, <2>4, <2>8
<1>4. CASE ZhTx(h)
  <2>1. PICK d \in DocIds :
          /\ IsFirstFree(d, FreeDocIds)
          /\ doc' = [doc EXCEPT ![d] = [FreeDoc EXCEPT !.st = "DRAFT", !.type = "ZH",
                                                       !.o = at[h].o, !.own = at[h].qty]]
    BY <1>4 DEF ZhTx
  <2>2. Worth([FreeDoc EXCEPT !.st = "DRAFT", !.type = "ZH", !.o = at[h].o, !.own = at[h].qty]) = 0
    BY DEF Worth, FreeDoc
  <2> QED BY <1>1, <2>1, <2>2
<1>5. CASE CreateDocument(h)
  <2>1. PICK d \in DocIds, type \in Types, q \in Qtys, o \in Orders \cup {None} :
          /\ IsFirstFree(d, FreeDocIds)
          /\ doc' = [doc EXCEPT ![d] =
                 [FreeDoc EXCEPT !.st = "DRAFT", !.type = type, !.o = o, !.own = q,
                                 !.sys = IF type = "INW" THEN SystemQuantity ELSE 0]]
    BY <1>5 DEF CreateDocument
  <2>2. PICK row : row = [FreeDoc EXCEPT !.st = "DRAFT", !.type = type, !.o = o, !.own = q,
                                         !.sys = IF type = "INW" THEN SystemQuantity ELSE 0]
    OBVIOUS
  <2>3. PICK sys : sys = IF type = "INW" THEN SystemQuantity ELSE 0
    OBVIOUS
  <2>4. PICK free \in DocRow : free = FreeDoc
    BY FreeDocTyped
  <2>5. Worth(row) = 0
    <3>1. row = [free EXCEPT !.st = "DRAFT", !.type = type, !.o = o, !.own = q, !.sys = sys]
      BY <2>2, <2>3, <2>4, Zenon
    <3>2. row.st = "DRAFT"
      BY <2>4, <3>1 DEF DocRow
    <3> QED BY <3>2 DEF Worth
  <2>6. doc' = [doc EXCEPT ![d] = row]
    BY <2>1, <2>2, Zenon
  <2> QED BY <1>1, <2>1, <2>5, <2>6
<1> QED BY <1>3, <1>4, <1>5

(* A receipt moves what it accepts; the wholesale order moves nothing.     *)
LEMMA ReceiptBalances ==
    ASSUME OneInv, RowsTyped', Balance, NEW h \in Handlers, PzTx(h)
    PROVE  Balance'
<1>0. RowsTyped /\ Moved \in Int /\ Held \in Int /\ stock \in Int
  BY WorthsInt, TakesInt DEF OneInv, NeedInv, RowsTyped
<1>1. PICK t : t = at[h]
  OBVIOUS
<1>2. t.k = "pzTx" /\ t \in AnyStep
  BY <1>1 DEF PzTx, OneInv, NeedInv, StepsTyped
<1>3. PICK z \in DocIds : z = t.d
  BY <1>2, DocumentFields
<1>4. t.qty \in Nat /\ t.draft \in BOOLEAN
  BY <1>2, DocumentFields
<1>5. doc[z].type = "ZH" /\ (RowGone(z) \/ doc[z].st # "FREE")
  BY <1>1, <1>2, <1>3 DEF OneInv, FreshInv, Fresh, FreshDocument, DocumentsInv, ReceiptsOfZh, ReadZh,
                          RowGone
<1>6. res' = res
  BY DEF PzTx
<1>7. Held' = Held
  BY <1>0, <1>6, SameTaken
<1>8. CASE stock' = stock /\ doc' = doc
  <2>1. Moved' = Moved
    BY <1>0, <1>8, SameWorth
  <2> QED BY <1>7, <1>8, <2>1 DEF Balance
<1>9. ASSUME NEW d \in DocIds, ~RowGone(z), IsFirstFree(d, FreeDocIds),
             doc' = [doc EXCEPT ![d] = NewPz(t), ![z] = ReceivedZh(t, d)],
             stock' = stock + Accepted(t)
      PROVE  Balance'
  <2>1. doc[d].st = "FREE" /\ d # z
    BY <1>5, <1>9, FirstFree
  <2>2. PICK row \in DocRow : row = doc[z]
    BY <1>0 DEF RowsTyped
  <2>3. doc'[d] = NewPz(t) /\ doc'[z] = ReceivedZh(t, d) /\ \A x \in DocIds \ {d, z} : doc'[x] = doc[x]
    BY <1>0, <1>9, <2>1 DEF RowsTyped
  <2>4. ReceivedZh(t, d) = [row EXCEPT !.st = IF t.st = "DRAFT" THEN "CONFIRMED" ELSE @, !.link = d]
    BY <1>3, <2>2 DEF ReceivedZh
  <2>5. ReceivedZh(t, d).type = "ZH"
    BY <1>5, <2>2, <2>4 DEF DocRow
  <2>6. Worth(doc'[z]) = 0 /\ Worth(doc[z]) = 0 /\ Worth(doc[d]) = 0
    BY <1>5, <2>1, <2>3, <2>5 DEF Worth, StockDelta
  <2>7. Worth(doc'[d]) = Accepted(t)
    <3>1. PICK st : st = IF t.draft THEN "DRAFT" ELSE "CONFIRMED"
      OBVIOUS
    <3>2. NewPz(t) = [FreeDoc EXCEPT !.st = st, !.type = "PZ", !.own = t.qty, !.link = t.d]
      BY <3>1, Zenon DEF NewPz
    <3>3. NewPz(t).st = st /\ NewPz(t).type = "PZ" /\ NewPz(t).own = t.qty
      BY <3>2 DEF FreeDoc
    <3>4. CASE t.draft
      <4>1. st = "DRAFT" /\ Accepted(t) = 0
        BY <3>1, <3>4, Zenon DEF Accepted
      <4> QED BY <2>3, <3>3, <4>1 DEF Worth
    <3>5. CASE ~t.draft
      <4>1. st = "CONFIRMED" /\ Accepted(t) = t.qty
        BY <3>1, <3>5, Zenon DEF Accepted
      <4> QED BY <2>3, <3>3, <4>1 DEF Worth, StockDelta
    <3> QED BY <3>4, <3>5
  <2>8. \A x \in DocIds \ {d} : Worth(doc'[x]) = Worth(doc[x])
    BY <2>3, <2>6
  <2>9. Moved' = Moved - Worth(doc[d]) + Worth(doc'[d])
    BY <1>0, <2>8, OneWorth
  <2>10. PICK accepted \in Int : accepted = Accepted(t)
    <3>1. Worth(doc'[d]) \in Int
      BY <1>0, WorthsNext
    <3> QED BY <2>7, <3>1
  <2>11. Moved' = Moved + accepted /\ stock' = stock + accepted
    BY <1>0, <1>9, <2>6, <2>7, <2>9, <2>10
  <2> QED BY <1>0, <1>7, <2>11 DEF Balance
<1>10. \/ stock' = stock /\ doc' = doc
       \/ \E d \in DocIds : /\ ~RowGone(z) /\ IsFirstFree(d, FreeDocIds)
                            /\ doc' = [doc EXCEPT ![d] = NewPz(t), ![z] = ReceivedZh(t, d)]
                            /\ stock' = stock + Accepted(t)
  BY <1>1, <1>3, Zenon DEF PzTx
<1> QED BY <1>8, <1>9, <1>10

(* What is made anew moves nothing: a WZ takes from stock by reservations. *)
LEMMA NewBalances ==
    ASSUME OneInv, RowsTyped', Balance, stock' = stock, Held' = Held,
           NEW h \in Handlers, WzTx(h) \/ ZhTx(h) \/ CreateDocument(h)
    PROVE  Balance'
<1>0. RowsTyped /\ Moved \in Int /\ Held \in Int /\ stock \in Int
  BY WorthsInt, TakesInt DEF OneInv, NeedInv, RowsTyped
<1>1. CASE doc' = doc
  <2>1. Moved' = Moved
    BY <1>0, <1>1, SameWorth
  <2> QED BY <2>1 DEF Balance
<1>2. ASSUME NEW d \in DocIds, doc[d].st = "FREE", Worth(doc'[d]) = 0,
             \A x \in DocIds \ {d} : doc'[x] = doc[x]
      PROVE  Balance'
  <2>1. Worth(doc[d]) = 0
    BY <1>2 DEF Worth
  <2>2. \A x \in DocIds : Worth(doc'[x]) = Worth(doc[x])
    BY <1>2, <2>1
  <2>3. Moved' = Moved
    BY <1>0, <2>2, SameWorth
  <2> QED BY <2>3 DEF Balance
<1> QED BY <1>1, <1>2, NewUnmoved

LEMMA BalanceNext ==
    ASSUME OneAtATime, OneInv, Balance, "recalculate" \notin Requests, [Next]_vars
    PROVE  Balance'
<1>0. RowsTyped /\ StepsTyped /\ Moved \in Int /\ Held \in Int /\ stock \in Int
  BY WorthsInt, TakesInt DEF OneInv, NeedInv, RowsTyped
<1>1. RowsTyped'
  BY <1>0, NextTyped
<1>2. CASE stock' = stock /\ res' = res /\ doc' = doc
  <2>1. Moved' = Moved /\ Held' = Held
    BY <1>0, <1>1, <1>2, SameWorth, SameTaken
  <2> QED BY <1>2, <2>1 DEF Balance
<1>3. ASSUME NEW h \in Handlers, WritesRows(h) PROVE Balance'
  <2>1. CASE Apply(h)
    <3>1. stock' = stock + SeenQty(at[h].seen, "LOCAL_STOCK") - at[h].local /\ doc' = doc
      BY <1>3, <2>1, AppliedFresh DEF Apply, StockAfter
    <3>2. Held' = Held - SeenQty(at[h].seen, "LOCAL_STOCK") + at[h].local
      BY <1>1, <1>3, <2>1, ApplyBalances
    <3>3. Moved' = Moved
      BY <1>0, <1>1, <3>1, SameWorth
    <3>4. at[h].k = "apply" /\ at[h] \in AnyStep /\ FiniteStep(at[h])
      BY <1>0, <2>1 DEF Apply, StepsTyped
    <3>5. PICK local \in Nat, seen \in Nat :
            local = at[h].local /\ seen = SeenQty(at[h].seen, "LOCAL_STOCK")
      BY <3>4, ReservationFields, SeenQtyNat DEF FiniteStep
    <3> QED BY <1>0, <3>1, <3>2, <3>3, <3>5 DEF Balance
  <2>2. CASE WzTx(h)
    <3>1. stock' = stock /\ (res' = res \/ \E R : Consumes(R, {}))
      <4>1. \/ res' = res
            \/ (Confirms(at[h]) => at[h].unread = {}) /\ ConsumeRows(at[h].consumed, {})
        BY <2>2 DEF WzTx, Confirms
      <4>2. stock' = stock /\ at[h].k = "wzTx"
        BY <2>2 DEF WzTx
      <4> QED BY <4>1, <4>2, WzConsumes
    <3>2. \A r \in ResIds : Taken(res'[r]) = Taken(res[r])
      BY <1>0, <3>1, ConsumedTakes
    <3>3. Held' = Held
      BY <1>0, <1>1, <3>2, SameTaken
    <3> QED BY <1>1, <2>2, <3>1, <3>3, NewBalances
  <2>3. CASE ZhTx(h) \/ CreateDocument(h)
    <3>1. stock' = stock /\ res' = res
      BY <2>3 DEF ZhTx, CreateDocument
    <3>2. Held' = Held
      BY <1>0, <1>1, <3>1, SameTaken
    <3> QED BY <1>1, <2>3, <3>1, <3>2, NewBalances
  <2>4. CASE \/ SyncTx(h) \/ DeleteTx(h) \/ AddItemTx(h) \/ SetItemTx(h) \/ DropOwnTx(h)
             \/ DropItemTx(h) \/ UpdateTx(h)
    <3>1. stock' = stock /\ res' = res
      BY <2>4 DEF SyncTx, DeleteTx, AddItemTx, SetItemTx, DropOwnTx, DropItemTx, UpdateTx
    <3>2. Held' = Held
      BY <1>0, <1>1, <3>1, SameTaken
    <3>3. Moved' = Moved
      BY <1>0, <1>1, <2>4, EditsUnmoved, UnmovedWorth
    <3> QED BY <3>1, <3>2, <3>3 DEF Balance
  <2>5. ~RecalculateTx(h)
    BY <1>3 DEF RecalculateTx, OneInv, FreshInv, Fresh, FreshReservation
  <2> QED
    BY <1>1, <1>3, <2>1, <2>2, <2>3, <2>4, <2>5, ConfirmBalances, CancelBalances, ReceiptBalances
       DEF WritesRows
<1> QED BY <1>2, <1>3, WhatWrites

LEMMA BalanceInit == ASSUME Init PROVE Balance
<1>1. stock = 0 /\ RowsTyped
  BY InitTyped DEF Init
<1>2. \A d \in DocIds : Worths[d] = 0
  BY DEF Init, Worths, Worth, FreeDoc
<1>3. \A r \in ResIds : Takes[r] = 0
  BY DEF Init, Takes, Taken, FreeRes
<1>4. IsFiniteSet(DocIds) /\ IsFiniteSet(ResIds)
  BY IdsAssumption
<1>5. Moved = 0
  BY <1>2, <1>4, SumOfZeros DEF Moved
<1>6. Held = 0
  BY <1>3, <1>4, SumOfZeros DEF Held
<1> QED BY <1>1, <1>5, <1>6 DEF Balance

(* While one request is served at a time and stock is not recalculated,    *)
(* currentStock is what confirmed documents moved by themselves, less what *)
(* reservations hold or have issued: confirmDocument, cancelDocument,      *)
(* createPzFromWholesaleOrder and the reservation of an order count no     *)
(* quantity twice and forget none.                                         *)
THEOREM StockIsBalanced ==
    ASSUME OneAtATime, "recalculate" \notin Requests
    PROVE  Spec => []StockBalance
<1>1. Init => OneInv /\ Balance
  BY OneInit, BalanceInit
<1>2. OneInv /\ Balance /\ [Next]_vars => OneInv' /\ Balance'
  BY OneNext, BalanceNext
<1>3. OneInv /\ Balance => StockBalance
  BY BalanceIs DEF OneInv, NeedInv
<1> QED BY <1>1, <1>2, <1>3, PTL DEF Spec

-----------------------------------------------------------------------------
(* What a wholesale order brings is received once *)

Open == {"DRAFT", "CONFIRMED"}
Receives(row, z) == row.type = "PZ" /\ row.st \in Open /\ row.link = z

(* A PZ that counts is the one its ZH names, unless the ZH is gone.        *)
ReceiptsInv ==
    \A z \in DocIds :
        /\ \A d \in DocIds : Receives(doc[d], z) => /\ doc[z].st # "FREE"
                                                    /\ doc[z].st # "DELETED" => doc[z].link = d
        /\ \A d, e \in DocIds : Receives(doc[d], z) /\ Receives(doc[e], z) => d = e

LEMMA ReceiptsAre == ASSUME ReceiptsInv PROVE ReceivedOnce
<1> SUFFICES ASSUME NEW z \in DocIds
             PROVE  Cardinality({d \in DocIds : /\ doc[d].type = "PZ"
                                                /\ doc[d].link = z
                                                /\ doc[d].st \in {"DRAFT", "CONFIRMED"}}) <= 1
  BY DEF ReceivedOnce
<1>1. PICK R : R = {d \in DocIds : /\ doc[d].type = "PZ"
                                   /\ doc[d].link = z
                                   /\ doc[d].st \in {"DRAFT", "CONFIRMED"}}
  OBVIOUS
<1>2. \A d, e \in R : d = e
  BY <1>1 DEF ReceiptsInv, Receives, Open
<1>3. R = {} \/ \E d : R = {d}
  BY <1>2
<1>4. Cardinality(R) = 0 \/ Cardinality(R) = 1
  BY <1>3, FS_EmptySet, FS_Singleton
<1> QED BY <1>1, <1>4

(* A row keeps what it receives, and what it says of its receipt. *)
KeepsReceipt(d) ==
    /\ \A z \in DocIds : Receives(doc'[d], z) => Receives(doc[d], z)
    /\ doc[d].st # "FREE" =>
         /\ doc'[d].st # "FREE"
         /\ doc'[d].st # "DELETED" => doc[d].st # "DELETED" /\ doc'[d].link = doc[d].link

LEMMA ReceiptsKept ==
    ASSUME ReceiptsInv, \A d \in DocIds : KeepsReceipt(d)
    PROVE  ReceiptsInv'
<1>1. ASSUME NEW z \in DocIds, NEW d \in DocIds, Receives(doc'[d], z)
      PROVE  doc'[z].st # "FREE" /\ (doc'[z].st # "DELETED" => doc'[z].link = d)
  BY <1>1 DEF ReceiptsInv, KeepsReceipt
<1>2. ASSUME NEW z \in DocIds, NEW d \in DocIds, NEW e \in DocIds, Receives(doc'[d], z), Receives(doc'[e], z)
      PROVE  d = e
  BY <1>2 DEF ReceiptsInv, KeepsReceipt
<1> QED BY <1>1, <1>2 DEF ReceiptsInv, Receives

LEMMA ReceiptKeptBy ==
    ASSUME RowsTyped, NEW d \in DocIds, NEW row, doc' = [doc EXCEPT ![d] = row],
           \/ row.st = "DELETED"
           \/ row.st \notin {"FREE", "DELETED"} /\ doc[d].st = "FREE" /\ row.link = None
           \/ /\ row.st \notin {"FREE", "DELETED"} /\ doc[d].st \in Open
              /\ row.type = doc[d].type /\ row.link = doc[d].link
    PROVE  \A x \in DocIds : KeepsReceipt(x)
<1>1. doc'[d] = row /\ \A x \in DocIds \ {d} : doc'[x] = doc[x]
  BY DEF RowsTyped
<1>2. \A x \in DocIds \ {d} : KeepsReceipt(x)
  BY <1>1 DEF KeepsReceipt
<1>3. \A z \in DocIds : z # None
  BY IdsAssumption
<1>4. KeepsReceipt(d)
  BY <1>1, <1>3 DEF KeepsReceipt, Receives, Open
<1> QED BY <1>2, <1>4

(* A draft is edited, or deleted: its new items are linked to what it was  *)
(* linked to or, by syncWzDraftItemsWithReservations, to what its order    *)
(* holds.                                                                  *)
LinksFromOrder(d, lines) ==
    \A l \in lines : \/ \E m \in doc[d].lines : m.res = l.res
                     \/ doc[d].type = "WZ" /\ doc[d].o # None /\ l.res \in ActiveLocal(doc[d].o)
EditedAs(d, row) ==
    \/ row.st = "DELETED"
    \/ /\ row.st = "DRAFT" /\ row.type = doc[d].type /\ row.link = doc[d].link
       /\ row.o = doc[d].o \/ "assign" \in Requests
       /\ LinksFromOrder(d, row.lines)

LEMMA SyncLines ==
    ASSUME NEW h \in Handlers, SyncTx(h)
    PROVE  \E lines :
             /\ \A l \in lines : \/ l \in doc[at[h].d].lines \cup at[h].set
                                 \/ \E a \in at[h].add : a.res = l.res
             /\ doc' = doc \/ doc' = [doc EXCEPT ![at[h].d].lines = lines]
<1> DEFINE Edits(l, S) == \E x \in S : x.n = l.n /\ x.res = l.res
           kept == {l \in doc[at[h].d].lines : ~Edits(l, at[h].drop) /\ ~Edits(l, at[h].set)}
           added == {[n |-> NextCopy(at[h].d, a.res), res |-> a.res, qty |-> a.qty] :
                       a \in at[h].add}
           lines == kept \cup at[h].set \cup added
<1>1. doc' = doc \/ doc' = [doc EXCEPT ![at[h].d].lines = lines]
  BY DEF SyncTx
<1>2. kept \subseteq doc[at[h].d].lines
  OBVIOUS
<1>3. \A l \in added : \E a \in at[h].add : a.res = l.res
  OBVIOUS
<1> HIDE DEF kept, added
<1>4. \A l \in lines : l \in doc[at[h].d].lines \cup at[h].set \/ \E a \in at[h].add : a.res = l.res
  BY <1>2, <1>3
<1> HIDE DEF lines
<1> QED BY <1>1, <1>4

LEMMA DraftsEdited ==
    ASSUME OneInv, NEW h \in Handlers,
           \/ SyncTx(h) \/ DeleteTx(h) \/ AddItemTx(h) \/ SetItemTx(h) \/ DropOwnTx(h)
           \/ DropItemTx(h) \/ UpdateTx(h)
    PROVE  \/ doc' = doc
           \/ \E d \in DocIds : \E row : /\ doc[d].st = "DRAFT" /\ EditedAs(d, row)
                                         /\ doc' = [doc EXCEPT ![d] = row]
<1>1. PICK t : t = at[h]
  OBVIOUS
<1>2. t \in AnyStep /\ t.k \in OnDraftKinds \ {"confirmTx"} /\ RowsTyped
  BY <1>1 DEF SyncTx, DeleteTx, AddItemTx, SetItemTx, DropOwnTx, DropItemTx, UpdateTx,
              OnDraftKinds, OneInv, NeedInv, StepsTyped
<1>3. t.d \in DocIds
  BY <1>2, DocumentFields DEF OnDraftKinds
<1>4. PICK d \in DocIds : d = t.d
  BY <1>3
<1>5. doc[d].st = "DRAFT"
  BY <1>1, <1>2, <1>4 DEF OneInv, FreshInv, Fresh, FreshDocument
<1>6. PICK row \in DocRow : row = doc[d]
  BY <1>2 DEF RowsTyped
<1> DEFINE Edits == \/ doc' = doc
                    \/ \E x \in DocIds : \E new : /\ doc[x].st = "DRAFT" /\ EditedAs(x, new)
                                                  /\ doc' = [doc EXCEPT ![x] = new]
<1>7. ASSUME NEW new, EditedAs(d, new), doc' = [doc EXCEPT ![d] = new] PROVE Edits
  BY <1>5, <1>7
<1>8. \A lines : lines \subseteq row.lines => LinksFromOrder(d, lines)
  BY <1>6 DEF LinksFromOrder
<1>9. CASE SyncTx(h)
  <2>1. PICK lines :
          /\ \A l \in lines : \/ l \in doc[at[h].d].lines \cup at[h].set
                              \/ \E a \in at[h].add : a.res = l.res
          /\ doc' = doc \/ doc' = [doc EXCEPT ![at[h].d].lines = lines]
    BY <1>9, SyncLines
  <2>2. t = SyncEdit(d) /\ doc[d].type = "WZ" /\ doc[d].o # None
    BY <1>1, <1>4, <1>9 DEF SyncTx, OneInv, FreshInv, Fresh, FreshDocument
  <2>3. \A l \in t.set : \E m \in doc[d].lines : m.res = l.res
    BY <2>2 DEF SyncEdit
  <2>4. \A a \in t.add : a.res \in ActiveLocal(doc[d].o)
    BY <2>2 DEF SyncEdit
  <2>7. LinksFromOrder(d, lines)
    BY <1>1, <1>4, <2>1, <2>2, <2>3, <2>4 DEF LinksFromOrder
  <2>8. EditedAs(d, [row EXCEPT !.lines = lines])
    BY <1>5, <1>6, <2>7 DEF EditedAs, DocRow
  <2>9. doc' = doc \/ doc' = [doc EXCEPT ![d] = [row EXCEPT !.lines = lines]]
    BY <1>1, <1>4, <1>6, <2>1
  <2> QED BY <1>7, <2>8, <2>9
<1>10. CASE DeleteTx(h)
  <2>1. doc' = doc \/ doc' = [doc EXCEPT ![d] = [FreeDoc EXCEPT !.st = "DELETED"]]
    BY <1>1, <1>4, <1>10 DEF DeleteTx
  <2>2. EditedAs(d, [FreeDoc EXCEPT !.st = "DELETED"])
    BY DEF FreeDoc, EditedAs
  <2> QED BY <1>7, <2>1, <2>2
<1>11. ASSUME NEW own, NEW sys, \/ doc' = doc
                                \/ doc' = [doc EXCEPT ![d].own = own]
                                \/ doc' = [doc EXCEPT ![d].own = own, ![d].sys = sys]
       PROVE  Edits
  <2>1. /\ EditedAs(d, [row EXCEPT !.own = own])
        /\ EditedAs(d, [row EXCEPT !.own = own, !.sys = sys])
    BY <1>5, <1>6, <1>8 DEF EditedAs, DocRow
  <2>2. \/ doc' = doc
        \/ doc' = [doc EXCEPT ![d] = [row EXCEPT !.own = own]]
        \/ doc' = [doc EXCEPT ![d] = [row EXCEPT !.own = own, !.sys = sys]]
    BY <1>2, <1>6, <1>11 DEF RowsTyped
  <2> QED BY <1>7, <2>1, <2>2
<1>14. CASE AddItemTx(h)
  <2>1. PICK own, sys :
          /\ own = IF doc[t.d].type = "INW" THEN t.qty ELSE doc[t.d].own + t.qty
          /\ sys = IF doc[t.d].type = "INW" THEN t.sys ELSE doc[t.d].sys
    OBVIOUS
  <2>2. doc' = doc \/ doc' = [doc EXCEPT ![d].own = own, ![d].sys = sys]
    BY <1>1, <1>2, <1>4, <1>14, <2>1 DEF AddItemTx, RowsTyped, DocRow
  <2> QED BY <1>11, <2>2
<1>15. CASE SetItemTx(h)
  <2>1. doc' = doc \/ doc' = [doc EXCEPT ![d].own = t.qty]
    BY <1>1, <1>4, <1>15 DEF SetItemTx
  <2> QED BY <1>11, <2>1
<1>16. CASE DropOwnTx(h)
  <2>1. doc' = doc \/ doc' = [doc EXCEPT ![d].own = 0, ![d].sys = 0]
    BY <1>1, <1>4, <1>16 DEF DropOwnTx
  <2> QED BY <1>11, <2>1
<1>12. CASE DropItemTx(h)
  <2>1. PICK lines : /\ lines \subseteq row.lines
                     /\ doc' = doc \/ doc' = [doc EXCEPT ![d].lines = lines]
    <3>1. PICK lines : lines = {l \in row.lines : ~(l.n = t.line.n /\ l.res = t.line.res)}
      OBVIOUS
    <3>2. doc' = doc \/ doc' = [doc EXCEPT ![d].lines = lines]
      BY <1>1, <1>4, <1>6, <1>12, <3>1 DEF DropItemTx
    <3> QED BY <3>1, <3>2
  <2>2. EditedAs(d, [row EXCEPT !.lines = lines])
    BY <1>5, <1>6, <1>8, <2>1 DEF EditedAs, DocRow
  <2>3. doc' = doc \/ doc' = [doc EXCEPT ![d] = [row EXCEPT !.lines = lines]]
    BY <1>6, <2>1
  <2> QED BY <1>7, <2>2, <2>3
<1>13. CASE UpdateTx(h)
  <2>1. PICK base : base = IF t.items THEN [row EXCEPT !.own = t.own, !.sys = t.sys, !.lines = {}]
                           ELSE row
    OBVIOUS
  <2>2. \/ doc' = doc
        \/ doc' = [doc EXCEPT ![d] = IF t.order THEN [base EXCEPT !.o = t.o] ELSE base]
    BY <1>1, <1>4, <1>6, <1>13, <2>1, Zenon DEF UpdateTx
  <2>3. t.order => "assign" \in Requests
    BY <1>1, <1>13 DEF UpdateTx, OneInv, FreshInv, Fresh, FreshDocument
  <2>4. EditedAs(d, base) /\ (t.order => EditedAs(d, [base EXCEPT !.o = t.o]))
    BY <1>5, <1>6, <1>8, <2>1, <2>3 DEF EditedAs, DocRow
  <2> QED BY <1>7, <2>2, <2>4
<1> QED BY <1>9, <1>10, <1>12, <1>13, <1>14, <1>15, <1>16

(* A document that is made has no receipt; by hand, no linked item.        *)
LEMMA MadeByHand ==
    ASSUME OneInv, NEW h \in Handlers, ZhTx(h) \/ CreateDocument(h)
    PROVE  \E d \in DocIds : \E row :
             /\ doc[d].st = "FREE" /\ row.st = "DRAFT" /\ row.link = None /\ row.lines = {}
             /\ doc' = [doc EXCEPT ![d] = row]
<1>1. CASE ZhTx(h)
  <2>1. PICK d \in DocIds :
          /\ IsFirstFree(d, FreeDocIds)
          /\ doc' = [doc EXCEPT ![d] = [FreeDoc EXCEPT !.st = "DRAFT", !.type = "ZH",
                                                       !.o = at[h].o, !.own = at[h].qty]]
    BY <1>1 DEF ZhTx
  <2>2. PICK row : row = [FreeDoc EXCEPT !.st = "DRAFT", !.type = "ZH",
                                         !.o = at[h].o, !.own = at[h].qty]
    OBVIOUS
  <2>3. row.st = "DRAFT" /\ row.link = None /\ row.lines = {}
    BY <2>2 DEF FreeDoc
  <2> QED BY <2>1, <2>2, <2>3, FirstFree
<1>2. CASE CreateDocument(h)
  <2>1. PICK d \in DocIds, type \in Types, q \in Qtys, o \in Orders \cup {None} :
          /\ IsFirstFree(d, FreeDocIds)
          /\ doc' = [doc EXCEPT ![d] =
                 [FreeDoc EXCEPT !.st = "DRAFT", !.type = type, !.o = o, !.own = q,
                                 !.sys = IF type = "INW" THEN SystemQuantity ELSE 0]]
    BY <1>2 DEF CreateDocument
  <2>2. PICK row : row = [FreeDoc EXCEPT !.st = "DRAFT", !.type = type, !.o = o, !.own = q,
                                         !.sys = IF type = "INW" THEN SystemQuantity ELSE 0]
    OBVIOUS
  <2>3. PICK free \in DocRow : free = FreeDoc /\ free.link = None /\ free.lines = {}
    BY FreeDocTyped DEF FreeDoc
  <2>4. PICK sys : row = [free EXCEPT !.st = "DRAFT", !.type = type, !.o = o, !.own = q,
                                      !.sys = sys]
    BY <2>2, <2>3, Zenon
  <2>5. row.st = "DRAFT" /\ row.link = None /\ row.lines = {}
    BY <2>3, <2>4 DEF DocRow
  <2> QED BY <2>1, <2>2, <2>5, FirstFree
<1> QED BY <1>1, <1>2

(* The WZ of an order, confirmed at once or left a draft. *)
LEMMA MadeForOrder ==
    ASSUME OneInv, NEW h \in Handlers, WzTx(h)
    PROVE  \/ doc' = doc /\ res' = res
           \/ \E d \in DocIds : \E row :
                /\ doc[d].st = "FREE" /\ row.type = "WZ" /\ row.link = None
                /\ row.o = at[h].o /\ row.lines = at[h].lines
                /\ doc' = [doc EXCEPT ![d] = row]
                /\ \/ row.st = "DRAFT" /\ Consumes({}, {})
                   \/ row.st = "CONFIRMED" /\ Consumes({l.res : l \in at[h].lines}, {})
<1> DEFINE confirms == Confirms(at[h])
<1>1. PICK st : st = IF confirms THEN "CONFIRMED" ELSE "DRAFT"
  OBVIOUS
<1>2. PICK R : R = IF confirms THEN {l.res : l \in at[h].lines} ELSE {}
  OBVIOUS
<1>3. PICK free \in DocRow : free = FreeDoc /\ free.type = "WZ" /\ free.link = None
  BY FreeDocTyped DEF FreeDoc
<1>4. PICK row : row = [free EXCEPT !.st = st, !.o = at[h].o, !.lines = at[h].lines,
                                    !.warn = at[h].warn]
  OBVIOUS
<1>5. /\ row.st = st /\ row.type = "WZ" /\ row.link = None
      /\ row.o = at[h].o /\ row.lines = at[h].lines
  BY <1>3, <1>4 DEF DocRow
<1>6. \/ doc' = doc /\ res' = res
      \/ \E d \in DocIds : IsFirstFree(d, FreeDocIds) /\ doc' = [doc EXCEPT ![d] = row]
                           /\ Consumes(R, {})
  <2>1. at[h].k = "wzTx"
    BY DEF WzTx
  <2>2. \/ doc' = doc /\ res' = res
        \/ \E d \in DocIds : /\ IsFirstFree(d, FreeDocIds) /\ doc' = [doc EXCEPT ![d] = row]
                             /\ Confirms(at[h]) => at[h].unread = {}
                             /\ ConsumeRows(at[h].consumed, {})
    BY <1>1, <1>3, <1>4, Zenon DEF WzTx, Confirms
  <2>3. (Confirms(at[h]) => at[h].unread = {}) /\ ConsumeRows(at[h].consumed, {}) => Consumes(R, {})
    BY <1>2, <2>1, WzConsumes, Zenon
  <2> QED BY <2>2, <2>3
<1>7. \/ st = "CONFIRMED" /\ R = {l.res : l \in at[h].lines}
      \/ st = "DRAFT" /\ R = {}
  BY <1>1, <1>2, Zenon
<1> HIDE DEF confirms
<1>8. \/ row.st = "DRAFT" /\ (Consumes(R, {}) => Consumes({}, {}))
      \/ row.st = "CONFIRMED" /\ (Consumes(R, {}) => Consumes({l.res : l \in at[h].lines}, {}))
  BY <1>5, <1>7
<1> QED BY <1>5, <1>6, <1>8, FirstFree

(* What confirmDocument and cancelDocument write when nothing came between *)
(* their read and their transaction.                                       *)
LEMMA DraftConfirmed ==
    ASSUME OneInv, NEW h \in Handlers, ConfirmTx(h)
    PROVE  \/ doc' = doc /\ res' = res
           \/ \E d \in DocIds : \E row :
                /\ doc[d].st = "DRAFT" /\ row.st = "CONFIRMED" /\ row.type = doc[d].type
                /\ row.link = doc[d].link /\ row.o = doc[d].o
                /\ row.lines = doc[d].lines \ DetachedLines(d)
                /\ doc' = [doc EXCEPT ![d] = row]
                /\ Consumes({l.res : l \in ConsumedLines(d)}, {l.res : l \in BackorderLines(d)})
<1>0. RowsTyped
  BY DEF OneInv, NeedInv
<1>1. PICK t : \E d \in DocIds, quantity \in Nat :
             /\ t = at[h] /\ t.k = "confirmTx" /\ t.d = d /\ FreshConfirm(t)
             /\ doc[d] \in DocRow /\ doc[d].st = "DRAFT" /\ t.sys \in Int
             /\ t.detached = DetachedLines(d) /\ t.own = doc[d].own
             /\ SumQty(t.detached) \in Nat
             /\ quantity = t.own + SumQty(t.detached)
  BY ConfirmedFresh
<1>2. PICK d \in DocIds : /\ t = at[h] /\ t.d = d /\ FreshConfirm(t) /\ doc[d].st = "DRAFT"
                          /\ t.detached = DetachedLines(d) /\ SumQty(t.detached) \in Nat
  BY <1>1
<1>3. PICK freed : freed = {l \in doc[at[h].d].lines :
                             \E x \in at[h].detached : x.n = l.n /\ x.res = l.res}
  OBVIOUS
<1>4. \/ UNCHANGED <<stock, res, doc>>
      \/ /\ Consumes({l.res : l \in ConsumedLines(d)}, t.cancelled)
         /\ doc' = [doc EXCEPT ![at[h].d].st = "CONFIRMED",
                               ![at[h].d].own = @ + SumQty(freed),
                               ![at[h].d].lines = @ \ freed]
  <2>1. \/ UNCHANGED <<stock, res, doc>>
        \/ /\ at[h].unread = {} /\ ConsumeRows(at[h].consumed, at[h].cancelled)
           /\ doc' = [doc EXCEPT ![at[h].d].st = "CONFIRMED",
                                 ![at[h].d].own = @ + SumQty(freed),
                                 ![at[h].d].lines = @ \ freed]
    BY <1>3 DEF ConfirmTx
  <2>2. at[h].k = "confirmTx"
    BY DEF ConfirmTx
  <2> QED BY <1>2, <2>1, <2>2, ConfirmConsumes
<1>5. freed = DetachedLines(d)
  BY <1>2, <1>3, FreedAreDetached
<1>6. PICK taken \in Nat : taken = SumQty(freed)
  BY <1>2, <1>5
<1>7. PICK row \in DocRow : row = doc[d]
  BY <1>0 DEF RowsTyped
<1>8. PICK new : new = [row EXCEPT !.st = "CONFIRMED", !.own = @ + taken, !.lines = @ \ freed]
  OBVIOUS
<1>9. /\ new.st = "CONFIRMED" /\ new.type = row.type /\ new.link = row.link /\ new.o = row.o
      /\ new.lines = row.lines \ freed
  BY <1>8 DEF DocRow
<1>10. \/ doc' = doc /\ res' = res
       \/ /\ Consumes({l.res : l \in ConsumedLines(d)}, t.cancelled)
          /\ doc' = [doc EXCEPT ![d].st = "CONFIRMED", ![d].own = @ + taken, ![d].lines = @ \ freed]
  BY <1>2, <1>4, <1>6
<1>11. \/ doc' = doc /\ res' = res
       \/ /\ Consumes({l.res : l \in ConsumedLines(d)}, t.cancelled)
          /\ doc' = [doc EXCEPT ![d] = new]
  BY <1>0, <1>7, <1>8, <1>10 DEF RowsTyped, DocRow
<1>12. t.cancelled = {l.res : l \in BackorderLines(d)}
  BY <1>2 DEF FreshConfirm
<1> QED BY <1>2, <1>5, <1>7, <1>9, <1>11, <1>12

LEMMA OpenCancelled ==
    ASSUME OneInv, NEW h \in Handlers, CancelTx(h)
    PROVE  \/ doc' = doc /\ res' = res
           \/ \E d \in DocIds : \E row, holding :
                /\ doc[d].st \in Open /\ row.st = "CANCELLED" /\ row.type = doc[d].type
                /\ row.link = doc[d].link
                /\ doc[d].st = "CONFIRMED" => holding = StillHolding(doc[d].lines)
                /\ doc[d].st = "DRAFT" => holding = {}
                /\ doc' = [doc EXCEPT ![d] = row]
                /\ res' = [r \in ResIds |-> IF r \in holding THEN [res[r] EXCEPT !.st = "RELEASED"]
                                            ELSE res[r]]
<1>0. RowsTyped
  BY DEF OneInv, NeedInv
<1>1. PICK t : \E d \in DocIds, holding \in SUBSET ResIds :
             /\ t = at[h] /\ t.k = "cancelTx" /\ t.d = d
             /\ t.st \in {"DRAFT", "CONFIRMED"} /\ t.st = doc[d].st
             /\ t.own = doc[d].own /\ t.sys = doc[d].sys
             /\ holding = IF t.st = "CONFIRMED" THEN StillHolding(doc[d].lines) ELSE {}
             /\ t.unread = {} => /\ {s.r : s \in t.seen} = holding
                                 /\ SeenQty(t.seen, "LOCAL_STOCK")
                                      = SumRes({r \in holding : res[r].src = "LOCAL_STOCK"})
  BY CancelledFresh
<1>2. PICK d \in DocIds, holding \in SUBSET ResIds :
             /\ t = at[h] /\ t.d = d /\ t.st \in {"DRAFT", "CONFIRMED"} /\ t.st = doc[d].st
             /\ holding = IF t.st = "CONFIRMED" THEN StillHolding(doc[d].lines) ELSE {}
             /\ t.unread = {} => {s.r : s \in t.seen} = holding
  BY <1>1
<1>4. t.st \in Open /\ t.st = doc[d].st
  BY <1>2 DEF Open
<1>6. \/ doc' = doc /\ res' = res
      \/ /\ doc' = [doc EXCEPT ![d].st = "CANCELLED"]
         /\ res' = [r \in ResIds |-> IF r \in holding THEN [res[r] EXCEPT !.st = "RELEASED"]
                                     ELSE res[r]]
  <2>1. PICK released : released = {s.r : s \in t.seen}
    OBVIOUS
  <2>2. \/ doc' = doc /\ res' = res
        \/ /\ t.unread = {}
           /\ doc' = [doc EXCEPT ![d].st = "CANCELLED"]
           /\ res' = [r \in ResIds |-> IF r \in released THEN [res[r] EXCEPT !.st = "RELEASED"]
                                       ELSE res[r]]
    BY <1>2, <2>1, Zenon DEF CancelTx
  <2> QED BY <1>2, <2>1, <2>2
<1>7. PICK row \in DocRow : row = doc[d]
  BY <1>0 DEF RowsTyped
<1>8. PICK new : new = [row EXCEPT !.st = "CANCELLED"]
  OBVIOUS
<1>9. new.st = "CANCELLED" /\ new.type = row.type /\ new.link = row.link
  BY <1>8 DEF DocRow
<1>10. (doc[d].st = "CONFIRMED" => holding = StillHolding(doc[d].lines))
         /\ (doc[d].st = "DRAFT" => holding = {})
  BY <1>2, <1>4
<1>11. \/ doc' = doc /\ res' = res
       \/ /\ doc' = [doc EXCEPT ![d] = new]
          /\ res' = [r \in ResIds |-> IF r \in holding THEN [res[r] EXCEPT !.st = "RELEASED"]
                                      ELSE res[r]]
  BY <1>6, <1>7, <1>8
<1> QED BY <1>4, <1>7, <1>9, <1>10, <1>11

(* The receipt of a ZH that had none. *)
LEMMA ReceiptsBooked ==
    ASSUME OneInv, ReceiptsInv, NEW h \in Handlers, PzTx(h)
    PROVE  ReceiptsInv'
<1>0. RowsTyped /\ StepsTyped
  BY DEF OneInv, NeedInv
<1>1. PICK t : t = at[h]
  OBVIOUS
<1>2. t.k = "pzTx" /\ t \in AnyStep
  BY <1>0, <1>1 DEF PzTx, StepsTyped
<1>3. PICK z \in DocIds : z = t.d
  BY <1>2, DocumentFields
<1>4. t.st = doc[z].st /\ doc[z].st \in Open /\ doc[z].type = "ZH" /\ ~Received(z)
  BY <1>1, <1>2, <1>3, DocumentFields DEF OneInv, FreshInv, Fresh, FreshDocument, Open
<1>5. CASE doc' = doc
  BY <1>5 DEF ReceiptsInv, Receives
<1>6. ASSUME NEW d \in DocIds, IsFirstFree(d, FreeDocIds),
             doc' = [doc EXCEPT ![d] = NewPz(t), ![z] = ReceivedZh(t, d)]
      PROVE  ReceiptsInv'
  <2>1. doc[d].st = "FREE" /\ d # z
    BY <1>4, <1>6, FirstFree DEF Open
  <2>2. PICK row \in DocRow : row = doc[z]
    BY <1>0 DEF RowsTyped
  <2>3. doc'[d] = NewPz(t) /\ doc'[z] = ReceivedZh(t, d) /\ \A x \in DocIds \ {d, z} : doc'[x] = doc[x]
    BY <1>0, <1>6, <2>1 DEF RowsTyped
  <2>4. ReceivedZh(t, d) = [row EXCEPT !.st = IF t.st = "DRAFT" THEN "CONFIRMED" ELSE @, !.link = d]
    BY <1>3, <2>2 DEF ReceivedZh
  <2>5. doc'[z].type = "ZH" /\ doc'[z].link = d /\ doc'[z].st \in Open
    BY <1>4, <2>2, <2>3, <2>4 DEF DocRow, Open
  <2>6. doc'[d].link = z /\ doc'[d].st \notin {"FREE", "DELETED"}
    <3>1. PICK st : st = IF t.draft THEN "DRAFT" ELSE "CONFIRMED"
      OBVIOUS
    <3>2. NewPz(t) = [FreeDoc EXCEPT !.st = st, !.type = "PZ", !.own = t.qty, !.link = t.d]
      BY <3>1, Zenon DEF NewPz
    <3>3. NewPz(t).st = st /\ NewPz(t).link = z
      BY <1>3, <3>2 DEF FreeDoc
    <3>4. st \notin {"FREE", "DELETED"}
      BY <3>1
    <3> QED BY <2>3, <3>3, <3>4
  <2>7. \A x \in DocIds : ~Receives(doc[x], z)
    <3>1. SUFFICES ASSUME NEW x \in DocIds, Receives(doc[x], z) PROVE FALSE
      OBVIOUS
    <3>2. doc[z].link = x
      BY <1>4, <3>1 DEF ReceiptsInv, Open
    <3>3. x # None
      BY IdsAssumption
    <3> QED BY <1>4, <3>1, <3>2, <3>3 DEF Received, Receives, Open
  <2>8. \A x, y \in DocIds : Receives(doc'[x], y) => (x = d /\ y = z) \/ (y # z /\ Receives(doc[x], y))
    BY <2>3, <2>5, <2>6, <2>7 DEF Receives
  <2>9. ASSUME NEW y \in DocIds, NEW x \in DocIds, Receives(doc'[x], y)
        PROVE  doc'[y].st # "FREE" /\ (doc'[y].st # "DELETED" => doc'[y].link = x)
    <3>1. CASE x = d /\ y = z
      BY <2>5, <3>1 DEF Open
    <3>2. CASE y # z /\ Receives(doc[x], y)
      <4>1. doc[y].st # "FREE" /\ (doc[y].st # "DELETED" => doc[y].link = x)
        BY <3>2 DEF ReceiptsInv
      <4> QED BY <2>1, <2>3, <3>2, <4>1
    <3> QED BY <2>8, <2>9, <3>1, <3>2
  <2>10. ASSUME NEW y \in DocIds, NEW x \in DocIds, NEW e \in DocIds,
                Receives(doc'[x], y), Receives(doc'[e], y)
         PROVE  x = e
    BY <2>8, <2>10 DEF ReceiptsInv
  <2> QED BY <2>9, <2>10 DEF ReceiptsInv, Receives
<1>7. \/ doc' = doc
      \/ \E d \in DocIds : /\ IsFirstFree(d, FreeDocIds)
                           /\ doc' = [doc EXCEPT ![d] = NewPz(t), ![z] = ReceivedZh(t, d)]
  BY <1>1, <1>3, Zenon DEF PzTx
<1> QED BY <1>5, <1>6, <1>7

LEMMA ReceiptsNext ==
    ASSUME OneAtATime, OneInv, ReceiptsInv, [Next]_vars
    PROVE  ReceiptsInv'
<1>0. RowsTyped /\ StepsTyped
  BY DEF OneInv, NeedInv
<1>1. CASE doc' = doc
  BY <1>1 DEF ReceiptsInv, Receives
<1>2. ASSUME NEW d \in DocIds, NEW row, doc' = [doc EXCEPT ![d] = row],
             \/ row.st = "DELETED"
             \/ row.st \notin {"FREE", "DELETED"} /\ doc[d].st = "FREE" /\ row.link = None
             \/ /\ row.st \notin {"FREE", "DELETED"} /\ doc[d].st \in Open
                /\ row.type = doc[d].type /\ row.link = doc[d].link
      PROVE  ReceiptsInv'
  BY <1>0, <1>2, ReceiptKeptBy, ReceiptsKept
<1>3. ASSUME NEW h \in Handlers, WritesRows(h) PROVE ReceiptsInv'
  <2>1. CASE Apply(h) \/ RecalculateTx(h)
    BY <1>1, <2>1 DEF Apply, RecalculateTx
  <2>2. CASE \/ SyncTx(h) \/ DeleteTx(h) \/ AddItemTx(h) \/ SetItemTx(h) \/ DropOwnTx(h)
             \/ DropItemTx(h) \/ UpdateTx(h)
    <3>1. ASSUME NEW d \in DocIds, NEW row, doc[d].st = "DRAFT", EditedAs(d, row),
                 doc' = [doc EXCEPT ![d] = row]
          PROVE  ReceiptsInv'
      BY <1>2, <3>1 DEF EditedAs, Open
    <3> QED BY <1>1, <2>2, <3>1, DraftsEdited
  <2>3. CASE ZhTx(h) \/ CreateDocument(h)
    <3>1. PICK d \in DocIds : \E row :
             /\ doc[d].st = "FREE" /\ row.st = "DRAFT" /\ row.link = None /\ row.lines = {}
             /\ doc' = [doc EXCEPT ![d] = row]
      BY <2>3, MadeByHand
    <3> QED BY <1>2, <3>1
  <2>4. CASE WzTx(h)
    <3>1. ASSUME NEW d \in DocIds, NEW row, doc[d].st = "FREE", row.link = None,
                 doc' = [doc EXCEPT ![d] = row], row.st = "DRAFT" \/ row.st = "CONFIRMED"
          PROVE  ReceiptsInv'
      BY <1>2, <3>1
    <3> QED BY <1>1, <2>4, <3>1, MadeForOrder
  <2>5. CASE ConfirmTx(h) \/ CancelTx(h)
    <3>1. ASSUME NEW d \in DocIds, NEW row, doc[d].st \in Open,
                 row.st = "CONFIRMED" \/ row.st = "CANCELLED", row.type = doc[d].type,
                 row.link = doc[d].link, doc' = [doc EXCEPT ![d] = row]
          PROVE  ReceiptsInv'
      BY <1>2, <3>1
    <3>2. \A d \in DocIds : doc[d].st = "DRAFT" => doc[d].st \in Open
      BY DEF Open
    <3>3. CASE ConfirmTx(h)
      BY <1>1, <3>1, <3>2, <3>3, DraftConfirmed
    <3>4. CASE CancelTx(h)
      BY <1>1, <3>1, <3>4, OpenCancelled
    <3> QED BY <2>5, <3>3, <3>4
  <2>6. CASE PzTx(h)
    BY <1>1, <2>6, ReceiptsBooked DEF OneInv
  <2> QED BY <1>3, <2>1, <2>2, <2>3, <2>4, <2>5, <2>6 DEF WritesRows
<1> QED BY <1>1, <1>3, WhatWrites

LEMMA ReceiptsInit == ASSUME Init PROVE ReceiptsInv
BY DEF Init, ReceiptsInv, Receives, FreeDoc, Open

(* While one request is served at a time, a wholesale order has at most    *)
(* one PZ that is not cancelled: createPzFromWholesaleOrder looks at the   *)
(* PZ its ZH names, and a ZH that was received again names the new one.    *)
THEOREM ReceivedOnlyOnce == ASSUME OneAtATime PROVE Spec => []ReceivedOnce
<1>1. Init => OneInv /\ ReceiptsInv
  BY OneInit, ReceiptsInit
<1>2. OneInv /\ ReceiptsInv /\ [Next]_vars => OneInv' /\ ReceiptsInv'
  BY OneNext, ReceiptsNext
<1>3. ReceiptsInv => ReceivedOnce
  BY ReceiptsAre
<1> QED BY <1>1, <1>2, <1>3, PTL DEF Spec

-----------------------------------------------------------------------------
(* Documents and reservations agree on what was issued *)

(* The items of a document that counts: they are linked to local           *)
(* reservations of its order, all of which it has issued if it is          *)
(* confirmed.  `tab` are the rows of the reservations.                     *)
LinkedRow(row, tab) ==
    row.st \in Open => \A l \in row.lines :
        /\ row.type = "WZ" /\ row.o # None /\ tab[l.res].o = row.o
        /\ tab[l.res].st # "FREE" /\ tab[l.res].src = "LOCAL_STOCK"
        /\ row.st = "CONFIRMED" => tab[l.res].st = "CONSUMED"
Issues(row, r) == row.st = "CONFIRMED" /\ \E l \in row.lines : l.res = r

IssueInv ==
    /\ \A d \in DocIds : LinkedRow(doc[d], res)
    /\ \A r \in ResIds : res[r].src = "LOCAL_STOCK" /\ res[r].st = "CONSUMED" =>
                           \E d \in DocIds : Issues(doc[d], r)

LEMMA LineOfReservation ==
    ASSUME RowsTyped, NEW d \in DocIds, NEW l \in doc[d].lines
    PROVE  l.res \in ResIds
BY DEF RowsTyped, DocRow, Line

(* Two documents that count do not link one reservation. *)
LEMMA LinkedOnce ==
    ASSUME OneInv, IssueInv, NEW d \in DocIds, NEW e \in DocIds, doc[d].st \in Open,
           doc[e].st \in Open, NEW l \in doc[d].lines, NEW m \in doc[e].lines, l.res = m.res
    PROVE  d = e
<1>1. /\ doc[d].type = "WZ" /\ doc[d].o # None /\ doc[d].o = res[l.res].o
      /\ doc[e].type = "WZ" /\ doc[e].o = res[l.res].o
  BY DEF IssueInv, LinkedRow
<1>2. PICK o \in Orders : o = doc[d].o
  BY <1>1 DEF OneInv, NeedInv, RowsTyped, DocRow
<1>3. d \in OpenWz(o) /\ e \in OpenWz(o)
  BY <1>1, <1>2 DEF OpenWz, Open
<1> QED BY <1>3 DEF OneInv, DocumentsInv, OneOpenWz

LEMMA IssuesAre == ASSUME OneInv, IssueInv PROVE ConsumedIffIssued
<1> SUFFICES ASSUME NEW r \in ResIds, res[r].src = "LOCAL_STOCK"
             PROVE  IF res[r].st = "CONSUMED" THEN Cardinality(LinkedDocs(r)) = 1
                    ELSE LinkedDocs(r) = {}
  BY DEF ConsumedIffIssued
<1>1. \A d \in LinkedDocs(r) : d \in DocIds /\ Issues(doc[d], r)
  BY DEF LinkedDocs, ConfirmedDocs, Issues
<1>2. \A d \in DocIds : Issues(doc[d], r) => d \in LinkedDocs(r)
  BY DEF LinkedDocs, ConfirmedDocs, Issues
<1>3. CASE res[r].st = "CONSUMED"
  <2>1. PICK d \in DocIds : Issues(doc[d], r)
    BY <1>3 DEF IssueInv
  <2>2. ASSUME NEW e \in LinkedDocs(r) PROVE e = d
    <3>1. e \in DocIds /\ Issues(doc[e], r)
      BY <1>1
    <3>2. PICK l \in doc[d].lines : l.res = r
      BY <2>1 DEF Issues
    <3>3. PICK m \in doc[e].lines : m.res = r
      BY <3>1 DEF Issues
    <3>4. doc[d].st \in Open /\ doc[e].st \in Open
      BY <2>1, <3>1 DEF Issues, Open
    <3> QED BY <3>1, <3>2, <3>3, <3>4, LinkedOnce
  <2>3. LinkedDocs(r) = {d}
    BY <1>2, <2>1, <2>2
  <2>4. Cardinality({d}) = 1
    BY FS_Singleton
  <2> QED BY <1>3, <2>3, <2>4
<1>4. CASE res[r].st # "CONSUMED"
  <2>1. \A d \in DocIds : ~Issues(doc[d], r)
    BY <1>4 DEF IssueInv, LinkedRow, Issues, Open
  <2> QED BY <1>1, <1>4, <2>1
<1> QED BY <1>3, <1>4

(* A step that changes the rows of reservations and of one document.       *)
LEMMA IssueStep ==
    ASSUME RowsTyped, IssueInv, NEW d \in DocIds,
           \A x \in DocIds \ {d} : doc'[x] = doc[x],
           LinkedRow(doc'[d], res'),
           \A r \in ResIds : res[r].st # "FREE" => /\ res'[r].src = res[r].src /\ res'[r].o = res[r].o
                                                  /\ res'[r].st # "FREE",
           \A x \in DocIds \ {d}, r \in ResIds : Issues(doc[x], r) => res'[r].st = "CONSUMED",
           \A r \in ResIds : res'[r].src = "LOCAL_STOCK" /\ res'[r].st = "CONSUMED" =>
               Issues(doc'[d], r) \/ \E x \in DocIds \ {d} : Issues(doc[x], r)
    PROVE  IssueInv'
<1>1. ASSUME NEW x \in DocIds \ {d} PROVE LinkedRow(doc'[x], res')
  <2> SUFFICES ASSUME doc[x].st \in Open, NEW l \in doc[x].lines
               PROVE  /\ doc[x].type = "WZ" /\ doc[x].o # None /\ res'[l.res].o = doc[x].o
                      /\ res'[l.res].st # "FREE" /\ res'[l.res].src = "LOCAL_STOCK"
                      /\ doc[x].st = "CONFIRMED" => res'[l.res].st = "CONSUMED"
    BY DEF LinkedRow
  <2>1. l.res \in ResIds
    BY LineOfReservation
  <2>2. /\ doc[x].type = "WZ" /\ doc[x].o # None /\ res[l.res].o = doc[x].o
        /\ res[l.res].st # "FREE" /\ res[l.res].src = "LOCAL_STOCK"
    BY DEF IssueInv, LinkedRow
  <2>3. doc[x].st = "CONFIRMED" => Issues(doc[x], l.res)
    BY DEF Issues
  <2> QED BY <2>1, <2>2, <2>3
<1>2. \A r \in ResIds : res'[r].src = "LOCAL_STOCK" /\ res'[r].st = "CONSUMED" =>
                          \E x \in DocIds : Issues(doc'[x], r)
  OBVIOUS
<1>3. \A x \in DocIds : LinkedRow(doc'[x], res')
  BY <1>1
<1> QED BY <1>2, <1>3 DEF IssueInv, LinkedRow, Issues

(* ... of documents only: what was confirmed before is not touched. *)
LEMMA IssueSame ==
    ASSUME RowsTyped, IssueInv, res' = res, NEW d \in DocIds, NEW row,
           doc' = [doc EXCEPT ![d] = row], doc[d].st # "CONFIRMED", LinkedRow(row, res)
    PROVE  IssueInv'
<1>1. doc'[d] = row /\ \A x \in DocIds \ {d} : doc'[x] = doc[x]
  BY DEF RowsTyped
<1>2. LinkedRow(doc'[d], res')
  BY <1>1
<1>3. \A x \in DocIds \ {d}, r \in ResIds : Issues(doc[x], r) => res'[r].st = "CONSUMED"
  BY DEF IssueInv, LinkedRow, Issues, Open
<1>4. \A r \in ResIds : res'[r].src = "LOCAL_STOCK" /\ res'[r].st = "CONSUMED" =>
               Issues(doc'[d], r) \/ \E x \in DocIds \ {d} : Issues(doc[x], r)
  BY DEF IssueInv, Issues
<1> QED BY <1>1, <1>2, <1>3, <1>4, IssueStep

LEMMA ConsumedRows ==
    ASSUME RowsTyped, NEW R, NEW cancelled, Consumes(R, cancelled), NEW r \in ResIds
    PROVE  /\ res'[r].src = res[r].src /\ res'[r].o = res[r].o
           /\ res[r].st # "FREE" => res'[r].st # "FREE"
           /\ res[r].st = "CONSUMED" => res'[r].st = "CONSUMED"
           /\ res[r].st = "ACTIVE" /\ r \in R => res'[r].st = "CONSUMED"
           /\ res'[r].st = "CONSUMED" => res[r].st = "CONSUMED" \/ (res[r].st = "ACTIVE" /\ r \in R)
<1>1. PICK row \in ResRow : row = res[r]
  BY DEF RowsTyped
<1>2. res'[r] = IF row.st = "ACTIVE" /\ r \in R THEN [row EXCEPT !.st = "CONSUMED"]
                ELSE IF row.st = "ACTIVE" /\ r \in cancelled THEN [row EXCEPT !.st = "CANCELLED"]
                ELSE row
  BY <1>1 DEF Consumes
<1> QED BY <1>1, <1>2 DEF ResRow

LEMMA IssueApply ==
    ASSUME OneInv, IssueInv, NEW h \in Handlers, Apply(h)
    PROVE  IssueInv'
<1>0. RowsTyped
  BY DEF OneInv, NeedInv
<1>1. doc' = doc
  BY DEF Apply
<1>2. PICK t : \E new :
             /\ t = at[h] /\ t.o \in Orders /\ t.seen = SeenActive(t.o) /\ SeesActive(t)
             /\ t.seen \in SUBSET SeenRow
             /\ t.local \in Nat /\ t.back \in Nat /\ RowsAfter(t, new)
  BY AppliedFresh
<1>3. PICK new : t.seen = SeenActive(t.o) /\ RowsAfter(t, new)
  BY <1>2
<1>4. \A r \in SeenIds(t) : res[r].st = "ACTIVE"
  BY <1>3 DEF SeenIds, SeenActive, Active
<1>5. ASSUME NEW r \in ResIds
      PROVE  /\ res[r].st # "FREE" => /\ res'[r].src = res[r].src /\ res'[r].o = res[r].o
                                      /\ res'[r].st # "FREE"
             /\ res'[r].st = "CONSUMED" <=> res[r].st = "CONSUMED"
  <2>1. CASE r = new
    BY <1>3, <2>1 DEF RowsAfter
  <2>2. CASE r # new /\ r \in SeenIds(t)
    BY <1>3, <1>4, <2>2 DEF RowsAfter
  <2>3. CASE r # new /\ r \notin SeenIds(t)
    BY <1>3, <2>3 DEF RowsAfter
  <2> QED BY <2>1, <2>2, <2>3
<1>6. ASSUME NEW d \in DocIds PROVE LinkedRow(doc[d], res')
  <2> SUFFICES ASSUME doc[d].st \in Open, NEW l \in doc[d].lines
               PROVE  /\ doc[d].type = "WZ" /\ doc[d].o # None /\ res'[l.res].o = doc[d].o
                      /\ res'[l.res].st # "FREE" /\ res'[l.res].src = "LOCAL_STOCK"
                      /\ doc[d].st = "CONFIRMED" => res'[l.res].st = "CONSUMED"
    BY DEF LinkedRow
  <2>1. l.res \in ResIds
    BY <1>0, LineOfReservation
  <2>2. /\ doc[d].type = "WZ" /\ doc[d].o # None /\ res[l.res].o = doc[d].o
        /\ res[l.res].st # "FREE" /\ res[l.res].src = "LOCAL_STOCK"
        /\ doc[d].st = "CONFIRMED" => res[l.res].st = "CONSUMED"
    BY DEF IssueInv, LinkedRow
  <2> QED BY <1>5, <2>1, <2>2
<1>7. ASSUME NEW r \in ResIds, res'[r].src = "LOCAL_STOCK", res'[r].st = "CONSUMED"
      PROVE  \E d \in DocIds : Issues(doc'[d], r)
  <2>1. res[r].src = "LOCAL_STOCK" /\ res[r].st = "CONSUMED"
    BY <1>5, <1>7
  <2> QED BY <1>1, <2>1 DEF IssueInv
<1> QED BY <1>1, <1>6, <1>7 DEF IssueInv, LinkedRow, Issues

LEMMA IssueEdits ==
    ASSUME OneInv, IssueInv, "assign" \notin Requests, NEW h \in Handlers,
           \/ SyncTx(h) \/ DeleteTx(h) \/ AddItemTx(h) \/ SetItemTx(h) \/ DropOwnTx(h)
           \/ DropItemTx(h) \/ UpdateTx(h) \/ ZhTx(h) \/ CreateDocument(h)
    PROVE  IssueInv'
<1>0. RowsTyped
  BY DEF OneInv, NeedInv
<1>1. res' = res
  BY DEF SyncTx, DeleteTx, AddItemTx, SetItemTx, DropOwnTx, DropItemTx, UpdateTx, ZhTx, CreateDocument
<1>2. CASE doc' = doc
  BY <1>1, <1>2 DEF IssueInv, LinkedRow, Issues
<1>3. ASSUME NEW d \in DocIds, NEW row, doc[d].st = "DRAFT", EditedAs(d, row),
             doc' = [doc EXCEPT ![d] = row]
      PROVE  IssueInv'
  <2>1. LinkedRow(row, res)
    <3>1. CASE row.st = "DELETED"
      BY <3>1 DEF LinkedRow, Open
    <3>2. ASSUME row.st = "DRAFT", row.type = doc[d].type, row.o = doc[d].o,
                 LinksFromOrder(d, row.lines), NEW l \in row.lines
          PROVE  /\ row.type = "WZ" /\ row.o # None /\ res[l.res].o = row.o
                 /\ res[l.res].st # "FREE" /\ res[l.res].src = "LOCAL_STOCK"
      <4>1. CASE \E m \in doc[d].lines : m.res = l.res
        BY <1>3, <3>2, <4>1 DEF IssueInv, LinkedRow, Open
      <4>2. CASE doc[d].type = "WZ" /\ doc[d].o # None /\ l.res \in ActiveLocal(doc[d].o)
        BY <3>2, <4>2 DEF ActiveLocal, Active
      <4> QED BY <3>2, <4>1, <4>2 DEF LinksFromOrder
    <3>3. row.st = "DELETED" \/ (/\ row.st = "DRAFT" /\ row.type = doc[d].type /\ row.o = doc[d].o
                                 /\ LinksFromOrder(d, row.lines))
      BY <1>3 DEF EditedAs
    <3> QED BY <3>1, <3>2, <3>3 DEF LinkedRow
  <2> QED BY <1>0, <1>1, <1>3, <2>1, IssueSame
<1>4. ASSUME NEW d \in DocIds, NEW row, doc[d].st = "FREE", row.lines = {},
             doc' = [doc EXCEPT ![d] = row]
      PROVE  IssueInv'
  <2>1. LinkedRow(row, res)
    BY <1>4 DEF LinkedRow
  <2> QED BY <1>0, <1>1, <1>4, <2>1, IssueSame
<1>5. CASE ZhTx(h) \/ CreateDocument(h)
  <2>1. PICK d \in DocIds : \E row :
             /\ doc[d].st = "FREE" /\ row.st = "DRAFT" /\ row.link = None /\ row.lines = {}
             /\ doc' = [doc EXCEPT ![d] = row]
    BY <1>5, MadeByHand
  <2> QED BY <1>4, <2>1
<1>6. CASE \/ SyncTx(h) \/ DeleteTx(h) \/ AddItemTx(h) \/ SetItemTx(h) \/ DropOwnTx(h)
           \/ DropItemTx(h) \/ UpdateTx(h)
  BY <1>2, <1>3, <1>6, DraftsEdited
<1> QED BY <1>5, <1>6

(* A confirmed WZ issues what it links. *)
LEMMA IssueMade ==
    ASSUME OneInv, IssueInv, NEW h \in Handlers, WzTx(h)
    PROVE  IssueInv'
<1>0. RowsTyped
  BY DEF OneInv, NeedInv
<1>1. CASE doc' = doc /\ res' = res
  BY <1>1 DEF IssueInv, LinkedRow, Issues
<1>2. PICK o \in Orders : o = at[h].o
  BY ReservationFields DEF WzTx, OneInv, NeedInv, StepsTyped
<1>3. o # None
  BY IdsAssumption
<1>4. at[h].lines = LinesFor(o)
  BY <1>2 DEF WzTx, OneInv, FreshInv, Fresh, FreshReservation
<1>5. \A l \in at[h].lines : l.res \in ResIds /\ res[l.res].st = "ACTIVE"
                             /\ res[l.res].src = "LOCAL_STOCK" /\ res[l.res].o = o
  BY <1>4 DEF LinesFor, ActiveLocal, Active
<1>6. ASSUME NEW d \in DocIds, NEW row, NEW R, doc[d].st = "FREE", row.type = "WZ",
             row.o = o, row.lines = at[h].lines, doc' = [doc EXCEPT ![d] = row],
             Consumes(R, {}),
             \/ row.st = "DRAFT" /\ R = {}
             \/ row.st = "CONFIRMED" /\ R = {l.res : l \in at[h].lines}
      PROVE  IssueInv'
  <2>1. doc'[d] = row /\ \A x \in DocIds \ {d} : doc'[x] = doc[x]
    BY <1>0, <1>6 DEF RowsTyped
  <2>2. \A r \in ResIds : /\ res'[r].src = res[r].src /\ res'[r].o = res[r].o
                          /\ res[r].st # "FREE" => res'[r].st # "FREE"
                          /\ res[r].st = "CONSUMED" => res'[r].st = "CONSUMED"
                          /\ res[r].st = "ACTIVE" /\ r \in R => res'[r].st = "CONSUMED"
                          /\ res'[r].st = "CONSUMED" =>
                               res[r].st = "CONSUMED" \/ (res[r].st = "ACTIVE" /\ r \in R)
    BY <1>0, <1>6, ConsumedRows
  <2>3. LinkedRow(row, res')
    <3> SUFFICES ASSUME NEW l \in row.lines
                 PROVE  /\ row.type = "WZ" /\ row.o # None /\ res'[l.res].o = row.o
                        /\ res'[l.res].st # "FREE" /\ res'[l.res].src = "LOCAL_STOCK"
                        /\ row.st = "CONFIRMED" => res'[l.res].st = "CONSUMED"
      BY DEF LinkedRow
    <3>1. l.res \in ResIds /\ res[l.res].st = "ACTIVE" /\ res[l.res].src = "LOCAL_STOCK"
          /\ res[l.res].o = o
      BY <1>5, <1>6
    <3>2. row.st = "CONFIRMED" => l.res \in R
      BY <1>6
    <3> QED BY <1>3, <1>6, <2>2, <3>1, <3>2
  <2>4. \A x \in DocIds \ {d}, r \in ResIds : Issues(doc[x], r) => res'[r].st = "CONSUMED"
    BY <2>2 DEF IssueInv, LinkedRow, Issues, Open
  <2>5. ASSUME NEW r \in ResIds, res'[r].src = "LOCAL_STOCK", res'[r].st = "CONSUMED"
        PROVE  Issues(doc'[d], r) \/ \E x \in DocIds \ {d} : Issues(doc[x], r)
    <3>1. CASE res[r].st = "CONSUMED"
      <4>1. PICK x \in DocIds : Issues(doc[x], r)
        BY <2>2, <2>5, <3>1 DEF IssueInv
      <4>2. x # d
        BY <1>6, <4>1 DEF Issues
      <4> QED BY <4>1, <4>2
    <3>2. CASE r \in R
      BY <1>6, <2>1, <3>2 DEF Issues
    <3> QED BY <2>2, <2>5, <3>1, <3>2
  <2> QED BY <1>0, <2>1, <2>2, <2>3, <2>4, <2>5, IssueStep
<1> QED BY <1>1, <1>2, <1>6, MadeForOrder

LEMMA IssueConfirmed ==
    ASSUME OneInv, IssueInv, NEW h \in Handlers, ConfirmTx(h)
    PROVE  IssueInv'
<1>0. RowsTyped
  BY DEF OneInv, NeedInv
<1>1. CASE doc' = doc /\ res' = res
  BY <1>1 DEF IssueInv, LinkedRow, Issues
<1>2. ASSUME NEW d \in DocIds, NEW row, NEW R, NEW cancelled, doc[d].st = "DRAFT",
             row.st = "CONFIRMED", row.type = doc[d].type, row.o = doc[d].o,
             row.lines = doc[d].lines \ DetachedLines(d), doc' = [doc EXCEPT ![d] = row],
             R = {l.res : l \in ConsumedLines(d)}, Consumes(R, cancelled)
      PROVE  IssueInv'
  <2>1. doc'[d] = row /\ \A x \in DocIds \ {d} : doc'[x] = doc[x]
    BY <1>0, <1>2 DEF RowsTyped
  <2>2. \A r \in ResIds : /\ res'[r].src = res[r].src /\ res'[r].o = res[r].o
                          /\ res[r].st # "FREE" => res'[r].st # "FREE"
                          /\ res[r].st = "CONSUMED" => res'[r].st = "CONSUMED"
                          /\ res[r].st = "ACTIVE" /\ r \in R => res'[r].st = "CONSUMED"
                          /\ res'[r].st = "CONSUMED" =>
                               res[r].st = "CONSUMED" \/ (res[r].st = "ACTIVE" /\ r \in R)
    BY <1>0, <1>2, ConsumedRows
  <2>3. ASSUME NEW l \in doc[d].lines
        PROVE  /\ l.res \in ResIds /\ doc[d].type = "WZ" /\ doc[d].o # None
               /\ res[l.res].o = doc[d].o /\ res[l.res].src = "LOCAL_STOCK"
               /\ res[l.res].st \in {"ACTIVE", "RELEASED", "CONSUMED", "CANCELLED"}
    <3>1. l.res \in ResIds
      BY <1>0, LineOfReservation
    <3>2. res[l.res] \in ResRow
      BY <1>0, <3>1 DEF RowsTyped
    <3>3. /\ doc[d].type = "WZ" /\ doc[d].o # None /\ res[l.res].o = doc[d].o
          /\ res[l.res].src = "LOCAL_STOCK" /\ res[l.res].st # "FREE"
      BY <1>2 DEF IssueInv, LinkedRow, Open
    <3> QED BY <3>1, <3>2, <3>3 DEF ResRow
  <2>4. ASSUME NEW l \in doc[d].lines
        PROVE  l \in DetachedLines(d) <=> res[l.res].st \in {"RELEASED", "CANCELLED"}
    BY <2>3 DEF DetachedLines, BackorderLines, LinesOf
  <2>5. LinkedRow(row, res')
    <3> SUFFICES ASSUME NEW l \in row.lines
                 PROVE  /\ row.type = "WZ" /\ row.o # None /\ res'[l.res].o = row.o
                        /\ res'[l.res].st = "CONSUMED" /\ res'[l.res].src = "LOCAL_STOCK"
      BY DEF LinkedRow
    <3>1. l \in doc[d].lines /\ res[l.res].st \in {"ACTIVE", "CONSUMED"}
      BY <1>2, <2>3, <2>4
    <3>2. l \in ConsumedLines(d)
      BY <2>3, <3>1 DEF ConsumedLines, LinesOf
    <3>3. l.res \in R
      BY <1>2, <3>2
    <3> QED BY <1>2, <2>2, <2>3, <3>1, <3>3
  <2>6. \A x \in DocIds \ {d}, r \in ResIds : Issues(doc[x], r) => res'[r].st = "CONSUMED"
    BY <2>2 DEF IssueInv, LinkedRow, Issues, Open
  <2>7. ASSUME NEW r \in ResIds, res'[r].src = "LOCAL_STOCK", res'[r].st = "CONSUMED"
        PROVE  Issues(doc'[d], r) \/ \E x \in DocIds \ {d} : Issues(doc[x], r)
    <3>1. CASE res[r].st = "CONSUMED"
      <4>1. PICK x \in DocIds : Issues(doc[x], r)
        BY <2>2, <2>7, <3>1 DEF IssueInv
      <4>2. x # d
        BY <1>2, <4>1 DEF Issues
      <4> QED BY <4>1, <4>2
    <3>2. CASE res[r].st = "ACTIVE" /\ r \in R
      <4>1. PICK l \in ConsumedLines(d) : l.res = r
        BY <1>2, <3>2
      <4>2. l \in doc[d].lines
        BY <4>1 DEF ConsumedLines, LinesOf
      <4>3. l \in row.lines
        BY <1>2, <2>4, <3>2, <4>1, <4>2
      <4> QED BY <1>2, <2>1, <4>1, <4>3 DEF Issues
    <3> QED BY <2>2, <2>7, <3>1, <3>2
  <2> QED BY <1>0, <2>1, <2>2, <2>5, <2>6, <2>7, IssueStep
<1>3. CASE \E d \in DocIds : \E row :
                /\ doc[d].st = "DRAFT" /\ row.st = "CONFIRMED" /\ row.type = doc[d].type
                /\ row.link = doc[d].link /\ row.o = doc[d].o
                /\ row.lines = doc[d].lines \ DetachedLines(d)
                /\ doc' = [doc EXCEPT ![d] = row]
                /\ Consumes({l.res : l \in ConsumedLines(d)}, {l.res : l \in BackorderLines(d)})
  BY <1>2, <1>3
<1> QED BY <1>1, <1>3, DraftConfirmed

(* cancelDocument releases what the document issued, and nothing else.     *)
LEMMA IssueCancelled ==
    ASSUME OneInv, IssueInv, NEW h \in Handlers, CancelTx(h)
    PROVE  IssueInv'
<1>0. RowsTyped
  BY DEF OneInv, NeedInv
<1>1. CASE doc' = doc /\ res' = res
  BY <1>1 DEF IssueInv, LinkedRow, Issues
<1>2. ASSUME NEW d \in DocIds, NEW row, NEW holding, doc[d].st \in Open, row.st = "CANCELLED",
             doc[d].st = "CONFIRMED" => holding = StillHolding(doc[d].lines),
             doc[d].st = "DRAFT" => holding = {},
             doc' = [doc EXCEPT ![d] = row],
             res' = [r \in ResIds |-> IF r \in holding THEN [res[r] EXCEPT !.st = "RELEASED"]
                                      ELSE res[r]]
      PROVE  IssueInv'
  <2>1. doc'[d] = row /\ \A x \in DocIds \ {d} : doc'[x] = doc[x]
    BY <1>0, <1>2 DEF RowsTyped
  <2>2. ASSUME NEW r \in ResIds
        PROVE  /\ res'[r].src = res[r].src /\ res'[r].o = res[r].o
               /\ res[r].st # "FREE" => res'[r].st # "FREE"
               /\ r \notin holding => res'[r] = res[r]
               /\ r \in holding => res'[r].st = "RELEASED"
    <3>1. PICK it \in ResRow : it = res[r]
      BY <1>0 DEF RowsTyped
    <3>2. res'[r] = IF r \in holding THEN [it EXCEPT !.st = "RELEASED"] ELSE it
      BY <1>2, <3>1
    <3> QED BY <3>1, <3>2 DEF ResRow
  <2>3. LinkedRow(row, res')
    BY <1>2 DEF LinkedRow, Open
  <2>4. ASSUME NEW r \in holding
        PROVE  doc[d].st = "CONFIRMED" /\ \E l \in doc[d].lines : l.res = r
    BY <1>2 DEF StillHolding, Holding, Open
  <2>5. ASSUME NEW x \in DocIds \ {d}, NEW r \in ResIds, Issues(doc[x], r)
        PROVE  res'[r].st = "CONSUMED"
    <3>1. PICK m \in doc[x].lines : m.res = r
      BY <2>5 DEF Issues
    <3>2. doc[x].st \in Open /\ doc[x].st = "CONFIRMED"
      BY <2>5 DEF Issues, Open
    <3>3. res[r].st = "CONSUMED"
      BY <3>1, <3>2 DEF IssueInv, LinkedRow
    <3>4. r \notin holding
      <4>1. SUFFICES ASSUME r \in holding PROVE FALSE
        OBVIOUS
      <4>2. PICK l \in doc[d].lines : l.res = r
        BY <2>4, <4>1
      <4>3. d = x
        BY <1>2, <3>1, <3>2, <4>2, LinkedOnce
      <4> QED BY <4>3
    <3> QED BY <2>2, <3>3, <3>4
  <2>6. ASSUME NEW r \in ResIds, res'[r].src = "LOCAL_STOCK", res'[r].st = "CONSUMED"
        PROVE  \E x \in DocIds \ {d} : Issues(doc[x], r)
    <3>1. r \notin holding /\ res[r].src = "LOCAL_STOCK" /\ res[r].st = "CONSUMED"
      BY <2>2, <2>6
    <3>2. PICK x \in DocIds : Issues(doc[x], r)
      BY <3>1 DEF IssueInv
    <3>3. x # d
      <4>1. SUFFICES ASSUME x = d PROVE FALSE
        OBVIOUS
      <4>2. holding = StillHolding(doc[d].lines) /\ \E l \in doc[d].lines : l.res = r
        BY <1>2, <3>2, <4>1 DEF Issues
      <4>3. r \in holding
        BY <3>1, <4>2 DEF StillHolding, Holding
      <4> QED BY <3>1, <4>3
    <3> QED BY <3>2, <3>3
  <2> QED BY <1>0, <2>1, <2>2, <2>3, <2>5, <2>6, IssueStep
<1>3. CASE \E d \in DocIds : \E row, holding :
                /\ doc[d].st \in Open /\ row.st = "CANCELLED" /\ row.type = doc[d].type
                /\ row.link = doc[d].link
                /\ doc[d].st = "CONFIRMED" => holding = StillHolding(doc[d].lines)
                /\ doc[d].st = "DRAFT" => holding = {}
                /\ doc' = [doc EXCEPT ![d] = row]
                /\ res' = [r \in ResIds |-> IF r \in holding THEN [res[r] EXCEPT !.st = "RELEASED"]
                                            ELSE res[r]]
  BY <1>2, <1>3
<1> QED BY <1>1, <1>3, OpenCancelled

(* A PZ and the ZH it receives have no linked item. *)
LEMMA IssueReceipt ==
    ASSUME OneInv, IssueInv, NEW h \in Handlers, PzTx(h)
    PROVE  IssueInv'
<1>0. RowsTyped /\ StepsTyped
  BY DEF OneInv, NeedInv
<1>1. PICK t : t = at[h]
  OBVIOUS
<1>2. t.k = "pzTx" /\ t \in AnyStep
  BY <1>0, <1>1 DEF PzTx, StepsTyped
<1>3. PICK z \in DocIds : z = t.d
  BY <1>2, DocumentFields
<1>4. t.st = doc[z].st /\ doc[z].st \in Open /\ doc[z].type = "ZH"
  BY <1>1, <1>2, <1>3, DocumentFields DEF OneInv, FreshInv, Fresh, FreshDocument, Open
<1>5. res' = res
  BY DEF PzTx
<1>6. CASE doc' = doc
  BY <1>5, <1>6 DEF IssueInv, LinkedRow, Issues
<1>7. doc[z].lines = {}
  BY <1>4 DEF IssueInv, LinkedRow
<1>8. ASSUME NEW d \in DocIds, IsFirstFree(d, FreeDocIds),
             doc' = [doc EXCEPT ![d] = NewPz(t), ![z] = ReceivedZh(t, d)]
      PROVE  IssueInv'
  <2>1. doc[d].st = "FREE" /\ d # z
    BY <1>4, <1>8, FirstFree DEF Open
  <2>2. PICK row \in DocRow : row = doc[z]
    BY <1>0 DEF RowsTyped
  <2>3. doc'[d] = NewPz(t) /\ doc'[z] = ReceivedZh(t, d) /\ \A x \in DocIds \ {d, z} : doc'[x] = doc[x]
    BY <1>0, <1>8, <2>1 DEF RowsTyped
  <2>4. ReceivedZh(t, d) = [row EXCEPT !.st = IF t.st = "DRAFT" THEN "CONFIRMED" ELSE @, !.link = d]
    BY <1>3, <2>2 DEF ReceivedZh
  <2>5. doc'[z].lines = {}
    BY <1>7, <2>2, <2>3, <2>4 DEF DocRow
  <2>6. doc'[d].lines = {}
    <3>1. PICK st : st = IF t.draft THEN "DRAFT" ELSE "CONFIRMED"
      OBVIOUS
    <3>2. NewPz(t) = [FreeDoc EXCEPT !.st = st, !.type = "PZ", !.own = t.qty, !.link = t.d]
      BY <3>1, Zenon DEF NewPz
    <3>3. NewPz(t).lines = {}
      BY <3>2 DEF FreeDoc
    <3> QED BY <2>3, <3>3
  <2>7. \A x \in DocIds : LinkedRow(doc'[x], res')
    BY <1>5, <2>3, <2>5, <2>6 DEF IssueInv, LinkedRow
  <2>8. ASSUME NEW r \in ResIds, NEW x \in DocIds, Issues(doc[x], r) PROVE Issues(doc'[x], r)
    BY <1>7, <2>1, <2>3, <2>8 DEF Issues
  <2>9. \A r \in ResIds : res'[r].src = "LOCAL_STOCK" /\ res'[r].st = "CONSUMED" =>
                           \E x \in DocIds : Issues(doc'[x], r)
    BY <1>5, <2>8 DEF IssueInv
  <2> QED BY <2>7, <2>9 DEF IssueInv, LinkedRow, Issues
<1>9. \/ doc' = doc
      \/ \E d \in DocIds : /\ IsFirstFree(d, FreeDocIds)
                           /\ doc' = [doc EXCEPT ![d] = NewPz(t), ![z] = ReceivedZh(t, d)]
  BY <1>1, <1>3, Zenon DEF PzTx
<1> QED BY <1>6, <1>8, <1>9

LEMMA IssueNext ==
    ASSUME OneAtATime, OneInv, IssueInv, "assign" \notin Requests, [Next]_vars
    PROVE  IssueInv'
<1>1. CASE doc' = doc /\ res' = res
  BY <1>1 DEF IssueInv, LinkedRow, Issues
<1>2. ASSUME NEW h \in Handlers, WritesRows(h) PROVE IssueInv'
  <2>1. CASE RecalculateTx(h)
    BY <1>1, <2>1 DEF RecalculateTx
  <2> QED BY <1>2, <2>1, IssueApply, IssueEdits, IssueMade, IssueConfirmed, IssueCancelled,
             IssueReceipt DEF WritesRows
<1> QED BY <1>1, <1>2, WhatWrites

LEMMA IssueInit == ASSUME Init PROVE IssueInv
BY DEF Init, IssueInv, LinkedRow, Issues, FreeDoc, FreeRes, Open

(* While one request is served at a time and no WZ is moved to another     *)
(* order by hand, a consumed reservation is on exactly one confirmed       *)
(* document, and a confirmed document links no local reservation that is   *)
(* not consumed: confirmDocument detaches what was released before it, and *)
(* cancelDocument gives back all that the document had issued.             *)
THEOREM ConsumedWhereIssued ==
    ASSUME OneAtATime, "assign" \notin Requests
    PROVE  Spec => []ConsumedIffIssued
<1>1. Init => OneInv /\ IssueInv
  BY OneInit, IssueInit
<1>2. OneInv /\ IssueInv /\ [Next]_vars => OneInv' /\ IssueInv'
  BY OneNext, IssueNext
<1>3. OneInv /\ IssueInv => ConsumedIffIssued
  BY IssuesAre
<1> QED BY <1>1, <1>2, <1>3, PTL DEF Spec
=============================================================================
