----------------------- MODULE WarehouseLedgerProofs -----------------------
(***************************************************************************)
(* What the advisory lock and the unique index guarantee, for any number   *)
(* of requests, orders, reservations and documents.                        *)
(***************************************************************************)
EXTENDS WarehouseLedger, TLAPS

(* Quantities are sums over sets of rows, about which nothing is proved    *)
(* here: rows and steps are described by their fields, not their values.   *)
ResShape ==
    /\ res = [r \in ResIds |-> res[r]]
    /\ \A r \in ResIds :
          /\ res[r] = [st |-> res[r].st, src |-> res[r].src,
                       qty |-> res[r].qty, o |-> res[r].o]
          /\ res[r].src \in Sources

DocShape ==
    /\ doc = [d \in DocIds |-> doc[d]]
    /\ \A d \in DocIds :
          doc[d] = [st |-> doc[d].st, type |-> doc[d].type, o |-> doc[d].o,
                    own |-> doc[d].own, sys |-> doc[d].sys, lines |-> doc[d].lines,
                    warn |-> doc[d].warn, link |-> doc[d].link]

(* The transactions that read reservations one by one. *)
ReadsSome(x) ==
    \/ \E o \in Orders, force, draft, retry \in BOOLEAN : \E warn, lines, unread, consumed :
          x = [k |-> "wzTx", o |-> o, force |-> force, draft |-> draft, retry |-> retry,
               warn |-> warn, lines |-> lines, unread |-> unread, consumed |-> consumed]
    \/ \E d \in DocIds : \E own, sys, detached, unread, consumed, cancelled :
          x = [k |-> "confirmTx", d |-> d, own |-> own, sys |-> sys, detached |-> detached,
               unread |-> unread, consumed |-> consumed, cancelled |-> cancelled]
    \/ \E d \in DocIds : \E st, own, sys, seen, unread :
          x = [k |-> "cancelTx", d |-> d, st |-> st, own |-> own, sys |-> sys,
               seen |-> seen, unread |-> unread]

StepOK(x) ==
    \/ x = Idle
    \/ x \in PendingStep
    \/ x.k = "apply" /\ x.o \in Orders /\ x.short \in BOOLEAN
    \/ /\ x.k = "collect" /\ x.o \in Orders
       /\ x.force \in BOOLEAN /\ x.draft \in BOOLEAN /\ x.retry \in BOOLEAN
    \/ ReadsSome(x)
    \/ x.k = "zhTx" /\ x.o \in Orders
    \/ /\ x.k \in {"syncTx", "addItemTx", "setItemTx", "dropItemTx", "pzTx", "updateTx"}
       /\ x.d \in DocIds
    \/ x.k = "recalculateTx"

(* Every step but the writes of a reservation transaction, and those of    *)
(* the receipt of a wholesale order, which rest on what was read before.   *)
StepFree(x) == StepOK(x) /\ x.k # "apply" /\ x.k # "pzTx"

StepShape ==
    /\ at = [h \in Handlers |-> at[h]]
    /\ \A h \in Handlers : StepOK(at[h])
    /\ rest \in [Handlers -> Seq(PendingStep)]
    /\ lock \in [Orders -> Handlers \cup {None}]

(* Handler h moves on to a step that holds no lock, or is free as above. *)
Moves(h) ==
    /\ StepShape'
    /\ at'[h].k # "apply"
    /\ \A g \in Handlers \ {h} : at'[g] = at[g]
Departs(h) == Moves(h) /\ at'[h].k # "pzTx"

-----------------------------------------------------------------------------
(* How a handler moves on *)

LEMMA PendingOK == \A x \in PendingStep : x.k # "apply" /\ x.k # "pzTx" /\ x.k # "idle"
  BY DEF PendingStep, OrderSteps, WzSteps, CollectSteps, DocSteps, ReallocSteps

LEMMA StepsOK == StepFree(Idle) /\ \A x \in PendingStep : StepFree(x)
  BY PendingOK DEF StepFree, StepOK, Idle

LEMMA OneStep ==
    \A x \in PendingStep : <<x>> \in Seq(PendingStep)
  OBVIOUS

LEMMA MoveShape ==
    ASSUME StepShape, NEW h \in Handlers, NEW x, StepOK(x), NEW queue \in Seq(PendingStep),
           at' = [at EXCEPT ![h] = x], rest' = [rest EXCEPT ![h] = queue],
           lock' \in [Orders -> Handlers \cup {None}]
    PROVE  /\ StepShape' /\ at'[h] = x
           /\ \A g \in Handlers \ {h} : at'[g] = at[g]
<1>1. at' = [g \in Handlers |-> at'[g]] /\ \A g \in Handlers : StepOK(at'[g])
  BY DEF StepShape
<1>2. rest' \in [Handlers -> Seq(PendingStep)]
  BY DEF StepShape
<1>3. at'[h] = x /\ \A g \in Handlers \ {h} : at'[g] = at[g]
  BY DEF StepShape
<1> QED
  BY <1>1, <1>2, <1>3 DEF StepShape

LEMMA DepartShape ==
    ASSUME StepShape, NEW h \in Handlers, NEW x, StepFree(x), NEW queue \in Seq(PendingStep),
           at' = [at EXCEPT ![h] = x], rest' = [rest EXCEPT ![h] = queue],
           lock' \in [Orders -> Handlers \cup {None}]
    PROVE  Departs(h)
<1>1. StepOK(x) /\ x.k # "apply" /\ x.k # "pzTx"
  BY DEF StepFree
<1>2. /\ StepShape' /\ at'[h] = x
      /\ \A g \in Handlers \ {h} : at'[g] = at[g]
  BY <1>1, MoveShape
<1> QED
  BY <1>1, <1>2 DEF Departs, Moves

LEMMA GotoShape ==
    ASSUME StepShape, NEW h \in Handlers, NEW x, Goto(h, x), StepFree(x),
           lock' \in [Orders -> Handlers \cup {None}]
    PROVE  Departs(h)
<1>1. rest[h] \in Seq(PendingStep) /\ rest' = [rest EXCEPT ![h] = rest[h]]
  BY DEF StepShape, Goto
<1> QED
  BY <1>1, MoveShape DEF Goto, StepFree, Departs, Moves

LEMMA ThrowShape ==
    ASSUME StepShape, NEW h \in Handlers, Throw(h),
           lock' \in [Orders -> Handlers \cup {None}]
    PROVE  Departs(h)
<1>1. <<>> \in Seq(PendingStep)
  OBVIOUS
<1> QED
  BY <1>1, MoveShape, StepsOK DEF Throw, StepFree, Departs, Moves

LEMMA ReturnShape ==
    ASSUME StepShape, NEW h \in Handlers, Return(h),
           lock' \in [Orders -> Handlers \cup {None}]
    PROVE  Departs(h)
<1>1. rest \in [Handlers -> Seq(PendingStep)] /\ rest[h] \in Seq(PendingStep)
  BY DEF StepShape
<1>2. CASE rest[h] = <<>>
  <2>1. at' = [at EXCEPT ![h] = Idle] /\ rest' = [rest EXCEPT ![h] = rest[h]]
    BY <1>1, <1>2 DEF Return
  <2>2. StepFree(Idle)
    BY StepsOK
  <2> QED
    BY <1>1, <2>1, <2>2, DepartShape
<1>3. CASE rest[h] # <<>>
  <2>1. Head(rest[h]) \in PendingStep /\ Tail(rest[h]) \in Seq(PendingStep)
    BY <1>1, <1>3
  <2>2. at' = [at EXCEPT ![h] = Head(rest[h])] /\ rest' = [rest EXCEPT ![h] = Tail(rest[h])]
    BY <1>1, <1>3 DEF Return
  <2>3. StepFree(Head(rest[h]))
    BY <2>1, StepsOK
  <2> QED
    BY <2>1, <2>2, <2>3, DepartShape
<1> QED
  BY <1>2, <1>3

LEMMA CallShape ==
    ASSUME StepShape, NEW h \in Handlers, NEW x \in PendingStep,
           NEW after \in Seq(PendingStep), Call(h, x, after), UNCHANGED lock
    PROVE  Departs(h)
<1>1. rest \in [Handlers -> Seq(PendingStep)] /\ rest[h] \in Seq(PendingStep)
         /\ lock' \in [Orders -> Handlers \cup {None}]
  BY DEF StepShape
<1>2. after \o rest[h] \in Seq(PendingStep)
  BY <1>1
<1>3. rest' = [rest EXCEPT ![h] = after \o rest[h]]
  BY <1>1 DEF Call
<1> QED
  BY <1>1, <1>2, <1>3, DepartShape, StepsOK DEF Call

LEMMA StepFields ==
    ASSUME NEW x, StepOK(x)
    PROVE  /\ x.k \in {"reserve", "reserveTx", "release", "finalize", "reserveAndWz", "apply",
                       "wz", "collect", "wzTx", "zh", "zhCollect", "zhTx"} => x.o \in Orders
           /\ x.k \in {"wz", "collect", "wzTx"} =>
                x.force \in BOOLEAN /\ x.draft \in BOOLEAN /\ x.retry \in BOOLEAN
           /\ x.k \in {"sync", "confirm", "deleteTx", "dropOwnTx", "syncTx", "confirmTx",
                       "cancelTx", "addItemTx", "setItemTx", "dropItemTx", "pzTx",
                       "updateTx"} => x.d \in DocIds
           /\ x.k = "reallocOrders" =>
                x \in [k : {"reallocOrders"}, left : SUBSET Orders, all : SUBSET Orders]
           /\ x.k = "reallocDrafts" => x \in [k : {"reallocDrafts"}, left : SUBSET DocIds]
<1>1. CASE ReadsSome(x)
  BY <1>1 DEF ReadsSome
<1>2. CASE ~ReadsSome(x)
  BY <1>2 DEF StepOK, Idle, PendingStep, OrderSteps, WzSteps, CollectSteps, DocSteps,
              ReallocSteps
<1> QED
  BY <1>1, <1>2

LEMMA ReadingFields ==
    ASSUME NEW x, StepOK(x), x.k \in {"wzTx", "confirmTx", "cancelTx"}
    PROVE  ReadsSome(x)
  BY DEF StepOK, Idle, PendingStep, OrderSteps, WzSteps, CollectSteps, DocSteps, ReallocSteps

LEMMA ReadingKinds == \A x : ReadsSome(x) => x.k \in {"wzTx", "confirmTx", "cancelTx"}
  BY DEF ReadsSome

LEMMA ReadingBegins ==
    ASSUME NEW d \in DocIds, NEW own, NEW sys, NEW unread, NEW found, NEW st, NEW cancelled,
           NEW detached
    PROVE  /\ StepFree([k |-> "confirmTx", d |-> d, own |-> own, sys |-> sys,
                        detached |-> detached, unread |-> unread, consumed |-> found,
                        cancelled |-> cancelled])
           /\ StepFree([k |-> "cancelTx", d |-> d, st |-> st, own |-> own, sys |-> sys,
                        seen |-> found, unread |-> unread])
<1>1. PICK x : x = [k |-> "confirmTx", d |-> d, own |-> own, sys |-> sys,
                    detached |-> detached, unread |-> unread, consumed |-> found,
                    cancelled |-> cancelled]
  OBVIOUS
<1>2. PICK y : y = [k |-> "cancelTx", d |-> d, st |-> st, own |-> own, sys |-> sys,
                    seen |-> found, unread |-> unread]
  OBVIOUS
<1>3. ReadsSome(x) /\ ReadsSome(y)
  BY <1>1, <1>2 DEF ReadsSome
<1>4. StepFree(x) /\ StepFree(y)
  BY <1>3, ReadingKinds DEF StepFree, StepOK
<1> QED
  BY <1>1, <1>2, <1>4

(* Reading one more reservation changes nothing else of the step. *)
ToConsumeRead(x, unread, found) == [x EXCEPT !.unread = unread, !.consumed = found]
ToReleaseRead(x, unread, found) == [x EXCEPT !.unread = unread, !.seen = found]

LEMMA ReadingMoves ==
    ASSUME NEW x, StepOK(x), NEW unread, NEW found, NEW y,
           \/ x.k \in {"wzTx", "confirmTx"} /\ y = ToConsumeRead(x, unread, found)
           \/ x.k = "cancelTx" /\ y = ToReleaseRead(x, unread, found)
    PROVE  /\ StepFree(y) /\ y.k = x.k /\ y.unread = unread
           /\ x.k = "wzTx" =>
                 /\ y.o = x.o /\ y.force = x.force /\ y.draft = x.draft /\ y.retry = x.retry
                 /\ y.warn = x.warn /\ y.lines = x.lines /\ y.consumed = found
           /\ x.k = "confirmTx" =>
                 /\ y.d = x.d /\ y.own = x.own /\ y.sys = x.sys /\ y.detached = x.detached
                 /\ y.cancelled = x.cancelled /\ y.consumed = found
           /\ x.k = "cancelTx" =>
                 /\ y.d = x.d /\ y.st = x.st /\ y.own = x.own /\ y.sys = x.sys
                 /\ y.seen = found
<1>1. ReadsSome(x)
  BY ReadingFields
<1>2. CASE x.k = "wzTx"
  <2>1. PICK o \in Orders, force \in BOOLEAN, draft \in BOOLEAN, retry \in BOOLEAN :
          \E warn, lines, unread0, consumed :
             x = [k |-> "wzTx", o |-> o, force |-> force, draft |-> draft, retry |-> retry,
                  warn |-> warn, lines |-> lines, unread |-> unread0, consumed |-> consumed]
    BY <1>1, <1>2 DEF ReadsSome
  <2>2. PICK warn, lines, unread0, consumed :
             x = [k |-> "wzTx", o |-> o, force |-> force, draft |-> draft, retry |-> retry,
                  warn |-> warn, lines |-> lines, unread |-> unread0, consumed |-> consumed]
    BY <2>1
  <2>3. y = [k |-> "wzTx", o |-> o, force |-> force, draft |-> draft, retry |-> retry,
             warn |-> warn, lines |-> lines, unread |-> unread, consumed |-> found]
    BY <1>2, <2>2 DEF ToConsumeRead
  <2>4. ReadsSome(y)
    BY <2>3 DEF ReadsSome
  <2> QED
    BY <1>2, <2>2, <2>3, <2>4 DEF StepFree, StepOK
<1>3. CASE x.k = "confirmTx"
  <2>1. PICK d \in DocIds : \E own, sys, detached, unread0, consumed, cancelled :
             x = [k |-> "confirmTx", d |-> d, own |-> own, sys |-> sys, detached |-> detached,
                  unread |-> unread0, consumed |-> consumed, cancelled |-> cancelled]
    BY <1>1, <1>3 DEF ReadsSome
  <2>2. PICK own, sys, detached, unread0, consumed, cancelled :
             x = [k |-> "confirmTx", d |-> d, own |-> own, sys |-> sys, detached |-> detached,
                  unread |-> unread0, consumed |-> consumed, cancelled |-> cancelled]
    BY <2>1
  <2>3. y = [k |-> "confirmTx", d |-> d, own |-> own, sys |-> sys, detached |-> detached,
             unread |-> unread, consumed |-> found, cancelled |-> cancelled]
    BY <1>3, <2>2 DEF ToConsumeRead
  <2>4. ReadsSome(y)
    BY <2>3 DEF ReadsSome
  <2> QED
    BY <1>3, <2>2, <2>3, <2>4 DEF StepFree, StepOK
<1>4. CASE x.k = "cancelTx"
  <2>1. PICK d \in DocIds : \E st, own, sys, seen, unread0 :
             x = [k |-> "cancelTx", d |-> d, st |-> st, own |-> own, sys |-> sys,
                  seen |-> seen, unread |-> unread0]
    BY <1>1, <1>4 DEF ReadsSome
  <2>2. PICK st, own, sys, seen, unread0 :
             x = [k |-> "cancelTx", d |-> d, st |-> st, own |-> own, sys |-> sys,
                  seen |-> seen, unread |-> unread0]
    BY <2>1
  <2>3. y = [k |-> "cancelTx", d |-> d, st |-> st, own |-> own, sys |-> sys,
             seen |-> found, unread |-> unread]
    BY <1>4, <2>2 DEF ToReleaseRead
  <2>4. ReadsSome(y)
    BY <2>3 DEF ReadsSome
  <2> QED
    BY <1>4, <2>2, <2>3, <2>4 DEF StepFree, StepOK
<1> QED
  BY <1>2, <1>3, <1>4

LEMMA ReadsShape ==
    ASSUME StepShape, NEW h \in Handlers, UNCHANGED lock,
           \/ at[h].k \in {"wzTx", "confirmTx"} /\ ReadConsumed(h)
           \/ at[h].k = "cancelTx" /\ ReadReleased(h)
    PROVE  Departs(h)
<1>1. StepOK(at[h]) /\ lock' \in [Orders -> Handlers \cup {None}]
  BY DEF StepShape
<1>2. CASE Throw(h)
  BY <1>1, <1>2, ThrowShape
<1>3. CASE at[h].k \in {"wzTx", "confirmTx"} /\ ~Throw(h)
  <2>1. PICK unread, found :
          Goto(h, [at[h] EXCEPT !.unread = unread, !.consumed = found])
    BY <1>3, Zenon DEF ReadConsumed
  <2>2. PICK y : y = [at[h] EXCEPT !.unread = unread, !.consumed = found]
    OBVIOUS
  <2>3. StepFree(y)
    BY <1>1, <1>3, <2>2, ReadingMoves DEF ToConsumeRead
  <2> QED
    BY <1>1, <2>1, <2>2, <2>3, GotoShape
<1>4. CASE at[h].k = "cancelTx"
  <2>1. PICK unread, found :
          Goto(h, [at[h] EXCEPT !.unread = unread, !.seen = found])
    BY <1>4, Zenon DEF ReadReleased
  <2>2. PICK y : y = [at[h] EXCEPT !.unread = unread, !.seen = found]
    OBVIOUS
  <2>3. StepFree(y)
    BY <1>1, <1>4, <2>2, ReadingMoves DEF ToReleaseRead
  <2> QED
    BY <1>1, <2>1, <2>2, <2>3, GotoShape
<1> QED
  BY <1>2, <1>3, <1>4

LEMMA PendingSteps ==
    /\ \A o \in Orders : /\ ReserveStep(o) \in PendingStep
                         /\ ReleaseStep(o) \in PendingStep
                         /\ FinalizeStep(o) \in PendingStep
                         /\ [k |-> "reserveTx", o |-> o] \in PendingStep
                         /\ [k |-> "reserveAndWz", o |-> o] \in PendingStep
                         /\ [k |-> "zh", o |-> o] \in PendingStep
    /\ \A d \in DocIds : /\ SyncStep(d) \in PendingStep
                         /\ ConfirmStep(d) \in PendingStep
                         /\ [k |-> "deleteTx", d |-> d] \in PendingStep
                         /\ [k |-> "dropOwnTx", d |-> d] \in PendingStep
    /\ \A o \in Orders, force, draft, retry \in BOOLEAN :
          WzStep(o, force, draft, retry) \in PendingStep
    /\ \A o \in Orders, found \in BOOLEAN :
          [k |-> "zhCollect", o |-> o, found |-> found] \in PendingStep
    /\ [k |-> "realloc"] \in PendingStep
    /\ \A left, all \in SUBSET Orders :
          [k |-> "reallocOrders", left |-> left, all |-> all] \in PendingStep
    /\ \A left \in SUBSET DocIds : [k |-> "reallocDrafts", left |-> left] \in PendingStep
  BY DEF ReserveStep, ReleaseStep, FinalizeStep, SyncStep, ConfirmStep, WzStep,
         PendingStep, OrderSteps, WzSteps, CollectSteps, DocSteps, ReallocSteps

(* planReservationSplit holds from one source only. *)
LEMMA SplitExclusive ==
    ASSUME NEW target, NEW exLocal, NEW exBack, NEW plan,
           plan = PlanSplit(target, exLocal, exBack)
    PROVE  (plan.local = 0 \/ plan.back = 0) /\ plan.short \in BOOLEAN
<1> DEFINE available == Max({stock, 0})
           local == Min({target, exLocal + available})
<1>1. \/ plan = Split(target, 0, FALSE)
      \/ plan = Split(0, target, ~wholesale)
      \/ plan = Split(local, 0, ~wholesale /\ local < target)
      \/ plan = Split(0, target, FALSE)
  BY Zenon DEF PlanSplit
<1>2. (~wholesale) \in BOOLEAN /\ (~wholesale /\ local < target) \in BOOLEAN
  BY Zenon
<1> HIDE DEF local
<1>3. CASE plan = Split(target, 0, FALSE)
  BY <1>3 DEF Split
<1>4. CASE plan = Split(0, target, ~wholesale)
  BY <1>2, <1>4 DEF Split
<1>5. CASE plan = Split(local, 0, ~wholesale /\ local < target)
  BY <1>2, <1>5 DEF Split
<1>6. CASE plan = Split(0, target, FALSE)
  BY <1>6 DEF Split
<1> QED
  BY <1>1, <1>3, <1>4, <1>5, <1>6

-----------------------------------------------------------------------------
(* Steps keep their shape *)

(* The first half of a reservation transaction takes the lock of the order *)
(* and plans to hold from one source at most.                              *)
TakesLock(h) ==
    /\ StepShape'
    /\ \A g \in Handlers \ {h} : at'[g] = at[g]
    /\ at[h].o \in Orders /\ lock[at[h].o] = None
    /\ lock' = [lock EXCEPT ![at[h].o] = h]
    /\ at'[h].k = "apply" /\ at'[h].o = at[h].o /\ at'[h].seen = SeenActive(at[h].o)
    /\ at'[h].local = 0 \/ at'[h].back = 0
    /\ UNCHANGED res

LEMMA ShapeLocking ==
    ASSUME StepShape, NEW h \in Handlers, ReserveTx(h) \/ ReleaseTx(h)
    PROVE  TakesLock(h)
<1>1. /\ StepOK(at[h]) /\ rest[h] \in Seq(PendingStep)
      /\ lock \in [Orders -> Handlers \cup {None}]
  BY DEF StepShape
<1>2. /\ at[h].o \in Orders /\ lock[at[h].o] = None /\ res' = res
      /\ lock' = [lock EXCEPT ![at[h].o] = h]
  BY <1>1, StepFields DEF ReserveTx, ReleaseTx, LockFree, rows
<1>3. PICK plan : /\ plan = NothingHeld \/ \E target, exLocal, exBack :
                                               plan = PlanSplit(target, exLocal, exBack)
                  /\ Goto(h, ApplyStep(at[h].o, SeenActive(at[h].o), plan))
  BY DEF ReserveTx, ReleaseTx
<1>4. (plan.local = 0 \/ plan.back = 0) /\ plan.short \in BOOLEAN
  <2>1. CASE plan = NothingHeld
    BY <2>1 DEF NothingHeld, Split
  <2>2. CASE \E target, exLocal, exBack : plan = PlanSplit(target, exLocal, exBack)
    BY <2>2, SplitExclusive, Zenon
  <2> QED
    BY <1>3, <2>1, <2>2
<1> DEFINE step == ApplyStep(at[h].o, SeenActive(at[h].o), plan)
<1>5. /\ step.k = "apply" /\ step.o = at[h].o /\ step.seen = SeenActive(at[h].o)
      /\ step.local = plan.local /\ step.back = plan.back /\ step.short = plan.short
  BY DEF ApplyStep
<1>6. StepOK(step)
  BY <1>2, <1>4, <1>5 DEF StepOK
<1>7. at' = [at EXCEPT ![h] = step] /\ rest' = [rest EXCEPT ![h] = rest[h]]
  BY <1>1, <1>3 DEF Goto, StepShape
<1>8. lock' \in [Orders -> Handlers \cup {None}]
  BY <1>1, <1>2
<1> HIDE DEF step
<1> QED
  BY <1>1, <1>2, <1>4, <1>5, <1>6, <1>7, <1>8, MoveShape DEF TakesLock

LEMMA ShapeReservations ==
    ASSUME StepShape, NEW h \in Handlers,
           Reserve(h) \/ Apply(h) \/ ReserveAndWz(h)
    PROVE  Departs(h)
<1>1. StepOK(at[h]) /\ rest[h] \in Seq(PendingStep) /\ lock \in [Orders -> Handlers \cup {None}]
  BY DEF StepShape
<1>2. CASE Reserve(h)
  <2>1. at[h].o \in Orders /\ lock' = lock
    BY <1>1, <1>2, StepFields DEF Reserve
  <2>2. [k |-> "reserveTx", o |-> at[h].o] \in PendingStep
    BY <2>1, PendingSteps
  <2> QED
    BY <1>1, <1>2, <2>1, <2>2, ReturnShape, GotoShape, StepsOK DEF Reserve
<1>3. CASE Apply(h)
  <2>1. at[h].o \in Orders /\ at[h].short \in BOOLEAN
    <3>1. StepOK(at[h]) /\ at[h].k = "apply" /\ ~ReadsSome(at[h])
      BY <1>1, <1>3, ReadingKinds DEF Apply
    <3> QED
      BY <3>1 DEF StepOK, Idle, PendingStep, OrderSteps, WzSteps, CollectSteps, DocSteps,
                  ReallocSteps
  <2>2. lock' \in [Orders -> Handlers \cup {None}]
    BY <1>1, <1>3, <2>1 DEF Apply, Unlock
  <2>3. CASE ReturnResult(h) /\ rest[h] # <<>> /\ Head(rest[h]).k = "collect"
    <3> DEFINE x == [Head(rest[h]) EXCEPT !.warn = at[h].short]
    <3>1. Head(rest[h]) \in PendingStep /\ Tail(rest[h]) \in Seq(PendingStep)
      BY <1>1, <2>3
    <3>2. Head(rest[h]) \in CollectSteps
      BY <2>3, <3>1 DEF PendingStep, OrderSteps, WzSteps, DocSteps, ReallocSteps
    <3>3. x \in PendingStep
      BY <2>1, <3>2 DEF CollectSteps, PendingStep
    <3>4. at' = [at EXCEPT ![h] = x] /\ rest' = [rest EXCEPT ![h] = Tail(rest[h])]
      BY <2>3 DEF ReturnResult, StepShape
    <3>5. StepFree(x)
      BY <3>3, StepsOK
    <3> HIDE DEF x
    <3> QED
      BY <2>2, <3>1, <3>4, <3>5, DepartShape
  <2>4. CASE ReturnResult(h) /\ ~(rest[h] # <<>> /\ Head(rest[h]).k = "collect")
    BY <2>2, <2>4, ReturnShape DEF ReturnResult
  <2>5. CASE Throw(h)
    BY <2>2, <2>5, ThrowShape
  <2> QED
    BY <1>3, <2>3, <2>4, <2>5 DEF Apply
<1>4. CASE ReserveAndWz(h)
  <2>1. at[h].o \in Orders /\ lock' = lock
    BY <1>1, <1>4, StepFields DEF ReserveAndWz
  <2>2. /\ ReserveStep(at[h].o) \in PendingStep
        /\ WzStep(at[h].o, FALSE, FALSE, FALSE) \in PendingStep
    BY <2>1, PendingSteps, Zenon
  <2>3. <<WzStep(at[h].o, FALSE, FALSE, FALSE)>> \in Seq(PendingStep)
    BY <2>2, OneStep, Zenon
  <2> QED
    BY <1>4, <2>1, <2>2, <2>3, CallShape DEF ReserveAndWz
<1> QED
  BY <1>2, <1>3, <1>4

LEMMA ShapeWz ==
    ASSUME StepShape, NEW h \in Handlers,
           Wz(h) \/ Collect(h) \/ WzTx(h) \/ Sync(h) \/ SyncTx(h) \/ Finalize(h)
    PROVE  Departs(h)
<1>1. /\ StepOK(at[h]) /\ rest[h] \in Seq(PendingStep)
      /\ lock \in [Orders -> Handlers \cup {None}] /\ lock' = lock
  BY DEF StepShape, Wz, Collect, WzTx, Sync, SyncTx, Finalize
<1>2. ASSUME at[h].k \in {"wz", "collect"}, NEW warn
      PROVE  StepFree(WzTxStep(at[h], warn))
  <2>1. /\ at[h].o \in Orders /\ at[h].force \in BOOLEAN /\ at[h].draft \in BOOLEAN
        /\ at[h].retry \in BOOLEAN
    BY <1>1, <1>2, StepFields
  <2>2. ReadsSome(WzTxStep(at[h], warn)) /\ WzTxStep(at[h], warn).k = "wzTx"
    BY <2>1 DEF WzTxStep, ReadsSome
  <2> QED
    BY <2>2 DEF StepFree, StepOK
<1>3. CASE Wz(h)
  <2>1. /\ at[h].k = "wz" /\ at[h].o \in Orders
        /\ at[h].force \in BOOLEAN /\ at[h].draft \in BOOLEAN /\ at[h].retry \in BOOLEAN
    BY <1>1, <1>3, StepFields DEF Wz
  <2>2. CASE Call(h, ReserveStep(at[h].o), <<CollectStep(at[h])>>)
    <3>1. ReserveStep(at[h].o) \in PendingStep
      BY <2>1, PendingSteps
    <3>2. CollectStep(at[h]) \in PendingStep
      BY <2>1 DEF CollectStep, CollectSteps, PendingStep
    <3>3. <<CollectStep(at[h])>> \in Seq(PendingStep)
      BY <3>2, OneStep
    <3> QED
      BY <1>1, <2>2, <3>1, <3>3, CallShape
  <2>3. CASE Goto(h, WzTxStep(at[h], FALSE))
    BY <1>1, <1>2, <2>1, <2>3, GotoShape, Zenon
  <2>4. CASE Return(h)
    BY <1>1, <2>4, ReturnShape
  <2>5. CASE \E d \in DocIds : \/ Call(h, SyncStep(d), <<>>)
                                    \/ Call(h, SyncStep(d), <<ConfirmStep(d)>>)
    <3>1. PICK d \in DocIds : \/ Call(h, SyncStep(d), <<>>)
                             \/ Call(h, SyncStep(d), <<ConfirmStep(d)>>)
      BY <2>5
    <3>2. SyncStep(d) \in PendingStep /\ ConfirmStep(d) \in PendingStep
      BY PendingSteps
    <3>3. <<>> \in Seq(PendingStep) /\ <<ConfirmStep(d)>> \in Seq(PendingStep)
      BY <3>2
    <3> QED
      BY <1>1, <3>1, <3>2, <3>3, CallShape
  <2>6. \A d \in OpenWz(at[h].o) : d \in DocIds
    BY DEF OpenWz
  <2> QED
    BY <1>3, <2>2, <2>3, <2>4, <2>5, <2>6, Zenon DEF Wz
<1>4. CASE Collect(h)
  <2>1. at[h].k = "collect"
    BY <1>4 DEF Collect
  <2>2. CASE Return(h)
    BY <1>1, <2>2, ReturnShape
  <2>3. CASE Goto(h, WzTxStep(at[h], at[h].warn))
    BY <1>1, <1>2, <2>1, <2>3, GotoShape
  <2> QED
    BY <1>4, <2>2, <2>3 DEF Collect
<1>5. CASE WzTx(h)
  <2>1. /\ at[h].k = "wzTx" /\ at[h].o \in Orders
        /\ at[h].force \in BOOLEAN /\ at[h].draft \in BOOLEAN /\ TRUE \in BOOLEAN
    BY <1>1, <1>5, StepFields DEF WzTx
  <2>2. WzStep(at[h].o, at[h].force, at[h].draft, TRUE) \in PendingStep
    BY <2>1, PendingSteps, Zenon
  <2>3. CASE Goto(h, WzStep(at[h].o, at[h].force, at[h].draft, TRUE))
    BY <1>1, <2>2, <2>3, GotoShape, StepsOK, Zenon
  <2>4. CASE Throw(h) \/ Return(h)
    BY <1>1, <2>4, ThrowShape, ReturnShape
  <2>5. CASE ReadConsumed(h)
    BY <1>1, <2>1, <2>5, ReadsShape
  <2> QED
    BY <1>5, <2>3, <2>4, <2>5, Zenon DEF WzTx
<1>6. CASE Sync(h)
  <2>1. at[h].d \in DocIds
    BY <1>1, <1>6, StepFields DEF Sync
  <2>2. StepFree(SyncEdit(at[h].d))
    BY <2>1 DEF SyncEdit, StepFree, StepOK
  <2> QED
    BY <1>1, <1>6, <2>2, ReturnShape, GotoShape DEF Sync
<1>7. CASE SyncTx(h)
  BY <1>1, <1>7, ThrowShape, ReturnShape DEF SyncTx
<1>8. CASE Finalize(h)
  <2>1. at[h].o \in Orders
    BY <1>1, <1>8, StepFields DEF Finalize
  <2>2. CASE Return(h)
    BY <1>1, <2>2, ReturnShape
  <2>3. CASE Goto(h, WzStep(at[h].o, TRUE, FALSE, FALSE))
    <3>1. TRUE \in BOOLEAN /\ FALSE \in BOOLEAN
      OBVIOUS
    <3>2. WzStep(at[h].o, TRUE, FALSE, FALSE) \in PendingStep
      BY <2>1, <3>1, PendingSteps, Zenon
    <3> QED
      BY <1>1, <2>3, <3>2, GotoShape, StepsOK, Zenon
  <2>4. CASE \E d \in OpenWz(at[h].o) : Call(h, SyncStep(d), <<ConfirmStep(d)>>)
    <3>1. PICK d \in DocIds : Call(h, SyncStep(d), <<ConfirmStep(d)>>)
      BY <2>4 DEF OpenWz
    <3>2. SyncStep(d) \in PendingStep /\ ConfirmStep(d) \in PendingStep
      BY PendingSteps
    <3>3. <<ConfirmStep(d)>> \in Seq(PendingStep)
      BY <3>2
    <3> QED
      BY <1>1, <3>1, <3>2, <3>3, CallShape
  <2> QED
    BY <1>8, <2>2, <2>3, <2>4, Zenon DEF Finalize
<1> QED
  BY <1>3, <1>4, <1>5, <1>6, <1>7, <1>8

LEMMA ShapeWholesale ==
    ASSUME StepShape, NEW h \in Handlers,
           Zh(h) \/ ZhCollect(h) \/ ZhTx(h) \/ PzTx(h) \/ UpdateTx(h)
    PROVE  Departs(h)
<1>1. /\ StepOK(at[h]) /\ lock' = lock /\ lock \in [Orders -> Handlers \cup {None}]
  BY DEF StepShape, Zh, ZhCollect, ZhTx, PzTx, UpdateTx
<1>2. CASE Throw(h) \/ Return(h)
  BY <1>1, <1>2, ThrowShape, ReturnShape
<1>3. ASSUME NEW o \in Orders, NEW found, OrderBackorders(h, o, found)
      PROVE  Departs(h)
  <2>1. \A qty : StepFree([k |-> "zhTx", o |-> o, qty |-> qty])
    BY DEF StepFree, StepOK
  <2> QED
    BY <1>1, <1>2, <1>3, <2>1, GotoShape, Zenon DEF OrderBackorders
<1>4. CASE Zh(h)
  <2>1. at[h].o \in Orders /\ (OpenZh(at[h].o) # {}) \in BOOLEAN
    BY <1>1, <1>4, StepFields DEF Zh
  <2>2. PICK found \in BOOLEAN :
          \/ Call(h, ReserveStep(at[h].o),
                  <<[k |-> "zhCollect", o |-> at[h].o, found |-> found]>>)
          \/ OrderBackorders(h, at[h].o, found)
    BY <1>4, <2>1, Zenon DEF Zh
  <2>3. /\ ReserveStep(at[h].o) \in PendingStep
        /\ [k |-> "zhCollect", o |-> at[h].o, found |-> found] \in PendingStep
    BY <2>1, PendingSteps, Zenon
  <2>4. <<[k |-> "zhCollect", o |-> at[h].o, found |-> found]>> \in Seq(PendingStep)
    BY <2>3, OneStep, Zenon
  <2> QED
    BY <1>1, <1>3, <2>1, <2>2, <2>3, <2>4, CallShape, Zenon
<1>5. CASE ZhCollect(h)
  <2>1. at[h].o \in Orders /\ OrderBackorders(h, at[h].o, at[h].found)
    BY <1>1, <1>5, StepFields DEF ZhCollect
  <2> QED
    BY <1>3, <2>1, Zenon
<1>6. CASE PzTx(h)
  <2>1. Goto(h, [k |-> "realloc"]) \/ Throw(h) \/ Return(h)
    BY <1>6, Zenon DEF PzTx
  <2> QED
    BY <1>1, <1>2, <2>1, GotoShape, StepsOK, PendingSteps
<1>7. CASE ZhTx(h) \/ UpdateTx(h)
  BY <1>2, <1>7, Zenon DEF ZhTx, UpdateTx
<1> QED
  BY <1>4, <1>5, <1>6, <1>7

LEMMA ShapeDocuments ==
    ASSUME StepShape, NEW h \in Handlers,
           \/ Confirm(h) \/ ConfirmTx(h) \/ Realloc(h) \/ ReallocOrders(h) \/ ReallocDrafts(h)
           \/ CancelTx(h) \/ DeleteTx(h) \/ AddItemTx(h) \/ SetItemTx(h) \/ DropOwnTx(h)
           \/ DropItemTx(h) \/ RecalculateTx(h)
    PROVE  Departs(h)
<1>1. /\ StepOK(at[h]) /\ rest[h] \in Seq(PendingStep)
      /\ lock \in [Orders -> Handlers \cup {None}] /\ lock' = lock
  BY DEF StepShape, Confirm, ConfirmTx, Realloc, ReallocOrders, ReallocDrafts, CancelTx,
         DeleteTx, AddItemTx, SetItemTx, DropOwnTx, DropItemTx, RecalculateTx
<1>2. CASE Throw(h) \/ Return(h)
  BY <1>1, <1>2, ThrowShape, ReturnShape
<1>3. CASE Confirm(h)
  <2>1. at[h].d \in DocIds
    BY <1>1, <1>3, StepFields DEF Confirm
  <2>2. \A own, sys, detached, unread, consumed, cancelled :
           StepFree([k |-> "confirmTx", d |-> at[h].d, own |-> own, sys |-> sys,
                   detached |-> detached, unread |-> unread, consumed |-> consumed,
                   cancelled |-> cancelled])
    BY <2>1, ReadingBegins
  <2> QED
    BY <1>1, <1>2, <1>3, <2>2, GotoShape DEF Confirm
<1>4. CASE ConfirmTx(h)
  <2>1. at[h].k = "confirmTx"
    BY <1>4 DEF ConfirmTx
  <2>2. Goto(h, [k |-> "realloc"]) \/ Throw(h) \/ Return(h) \/ ReadConsumed(h)
    BY <1>4, Zenon DEF ConfirmTx
  <2> QED
    BY <1>1, <1>2, <2>1, <2>2, ReadsShape, GotoShape, StepsOK, PendingSteps
<1>5. CASE Realloc(h)
  <2>1. PICK waiting \in SUBSET Orders :
          Goto(h, [k |-> "reallocOrders", left |-> waiting, all |-> waiting])
    BY <1>5 DEF Realloc
  <2> QED
    BY <1>1, <2>1, GotoShape, StepsOK, PendingSteps
<1>6. CASE ReallocOrders(h)
  <2>1. at[h] \in [k : {"reallocOrders"}, left : SUBSET Orders, all : SUBSET Orders]
    BY <1>1, <1>6, StepFields DEF ReallocOrders
  <2>2. ASSUME NEW o \in at[h].left,
               Call(h, ReserveStep(o), <<[at[h] EXCEPT !.left = @ \ {o}]>>)
        PROVE  Departs(h)
    <3>1. ReserveStep(o) \in PendingStep
      BY <2>1, PendingSteps
    <3>2. [at[h] EXCEPT !.left = @ \ {o}] \in PendingStep
      BY <2>1 DEF PendingStep, ReallocSteps
    <3> QED
      BY <1>1, <2>2, <3>1, <3>2, OneStep, CallShape
  <2>3. ASSUME NEW drafts \in SUBSET DocIds,
               Goto(h, [k |-> "reallocDrafts", left |-> drafts])
        PROVE  Departs(h)
    BY <1>1, <2>3, GotoShape, StepsOK, PendingSteps
  <2>4. {d \in DocIds : doc[d].type = "WZ" /\ doc[d].st = "DRAFT" /\ doc[d].o \in at[h].all}
           \in SUBSET DocIds
    OBVIOUS
  <2> QED
    BY <1>6, <2>2, <2>3, <2>4, Zenon DEF ReallocOrders
<1>7. CASE ReallocDrafts(h)
  <2>1. at[h] \in [k : {"reallocDrafts"}, left : SUBSET DocIds]
    BY <1>1, <1>7, StepFields DEF ReallocDrafts
  <2>2. ASSUME NEW d \in at[h].left,
               Call(h, SyncStep(d), <<[at[h] EXCEPT !.left = @ \ {d}]>>)
        PROVE  Departs(h)
    <3>1. SyncStep(d) \in PendingStep
      BY <2>1, PendingSteps
    <3>2. [at[h] EXCEPT !.left = @ \ {d}] \in PendingStep
      BY <2>1 DEF PendingStep, ReallocSteps
    <3> QED
      BY <1>1, <2>2, <3>1, <3>2, OneStep, CallShape
  <2> QED
    BY <1>2, <1>7, <2>2, Zenon DEF ReallocDrafts
<1>8. CASE CancelTx(h)
  <2>1. at[h].k = "cancelTx" /\ (ReadReleased(h) \/ Throw(h) \/ Return(h))
    BY <1>8, Zenon DEF CancelTx
  <2> QED
    BY <1>1, <1>2, <2>1, ReadsShape
<1> QED
  BY <1>2, <1>3, <1>4, <1>5, <1>6, <1>7, <1>8
     DEF DeleteTx, AddItemTx, SetItemTx, DropOwnTx, DropItemTx, RecalculateTx

LEMMA ShapeRequests ==
    ASSUME StepShape, NEW h \in Handlers, Request(h) \/ Crash(h)
    PROVE  Moves(h) /\ (~CreatePz(h) => Departs(h))
<1>1. lock \in [Orders -> Handlers \cup {None}]
  BY DEF StepShape
<1>2. ASSUME NEW request, NEW x, StepFree(x), Begin(h, request, x)
      PROVE  Departs(h)
  BY <1>1, <1>2, GotoShape DEF Begin
<1> USE DEF Departs
<1>3. CASE Crash(h)
  <2>1. lock' \in [Orders -> Handlers \cup {None}]
    BY <1>1, <1>3 DEF Crash
  <2> QED
    BY <1>3, <2>1, ThrowShape DEF Crash
<1>4. CASE ChangeStatus(h)
  <2>1. PICK o \in Orders : \/ Begin(h, "status", FinalizeStep(o))
                            \/ Begin(h, "status", ReleaseStep(o))
                            \/ Begin(h, "status", ReserveStep(o))
                            \/ Begin(h, "status", [k |-> "reserveAndWz", o |-> o])
    BY <1>4 DEF ChangeStatus
  <2> QED
    BY <1>2, <2>1, StepsOK, PendingSteps
<1>5. CASE RefreshReservations(h) \/ ReleaseReservations(h) \/ CreateZh(h)
  BY <1>2, <1>5, StepsOK, PendingSteps DEF RefreshReservations, ReleaseReservations, CreateZh
<1>6. CASE CreateWz(h)
  <2>1. PICK o \in Orders : \E force, draft \in BOOLEAN :
          Begin(h, "createWz", WzStep(o, force, draft, FALSE))
    BY <1>6, Zenon DEF CreateWz
  <2>2. PICK force \in BOOLEAN, draft \in BOOLEAN :
          Begin(h, "createWz", WzStep(o, force, draft, FALSE))
    BY <2>1, Zenon
  <2>3. FALSE \in BOOLEAN
    OBVIOUS
  <2>4. WzStep(o, force, draft, FALSE) \in PendingStep
    BY <2>3, PendingSteps, Zenon
  <2> QED
    BY <1>2, <2>2, <2>4, StepsOK, Zenon
<1>7. CASE CreateDocument(h)
  <2>1. Begin(h, "create", Idle)
    BY <1>7 DEF CreateDocument
  <2> QED
    BY <1>2, <2>1, StepsOK
<1>8. CASE ConfirmDocument(h) \/ DeleteDocument(h) \/ DropOwn(h)
  BY <1>2, <1>8, StepsOK, PendingSteps DEF ConfirmDocument, DeleteDocument, DropOwn
<1>9. CASE CancelDocument(h) \/ AddItem(h) \/ SetItem(h) \/ DropItem(h)
  <2>1. \A d \in DocIds :
          /\ \A qty, sys : StepFree([k |-> "addItemTx", d |-> d, qty |-> qty, sys |-> sys])
          /\ \A qty : StepFree([k |-> "setItemTx", d |-> d, qty |-> qty])
          /\ \A line : StepFree([k |-> "dropItemTx", d |-> d, line |-> line])
    BY DEF StepFree, StepOK
  <2>2. CASE CancelDocument(h)
    BY <1>2, <2>2, ReadingBegins DEF CancelDocument
  <2>3. CASE AddItem(h)
    BY <1>2, <2>1, <2>3 DEF AddItem
  <2>4. CASE SetItem(h)
    BY <1>2, <2>1, <2>4 DEF SetItem
  <2>5. CASE DropItem(h)
    BY <1>2, <2>1, <2>5 DEF DropItem
  <2> QED
    BY <1>9, <2>2, <2>3, <2>4, <2>5
<1>10. CASE Recalculate(h)
  <2>1. StepFree([k |-> "recalculateTx", value |-> DocumentedStock])
    BY DEF StepFree, StepOK
  <2> QED
    BY <1>2, <1>10, <2>1 DEF Recalculate
<1>11. CASE UpdateDocument(h)
  <2>1. \A d \in DocIds : \A items, assign, q, sys, o :
          StepFree([k |-> "updateTx", d |-> d, items |-> items, order |-> assign, own |-> q,
                    sys |-> sys, o |-> o])
    BY DEF StepFree, StepOK
  <2>2. PICK d \in DocIds : \E request, items, assign, q, sys, o :
          Begin(h, request, [k |-> "updateTx", d |-> d, items |-> items, order |-> assign,
                             own |-> q, sys |-> sys, o |-> o])
    BY <1>11, ZenonT(60) DEF UpdateDocument
  <2> QED
    BY <1>2, <2>1, <2>2, Zenon
<1>12. CASE CreatePz(h)
  <2>1. PICK x : x.k = "pzTx" /\ x.d \in DocIds /\ Begin(h, "createPz", x)
    BY <1>12 DEF CreatePz
  <2>2. StepOK(x) /\ rest[h] \in Seq(PendingStep)
    BY <2>1 DEF StepOK, StepShape
  <2>3. /\ at' = [at EXCEPT ![h] = x] /\ rest' = [rest EXCEPT ![h] = rest[h]]
        /\ lock' \in [Orders -> Handlers \cup {None}]
    BY <1>1, <2>1 DEF Begin, Goto, StepShape
  <2> QED
    BY <1>12, <2>1, <2>2, <2>3, MoveShape DEF Moves
<1> QED
  BY <1>3, <1>4, <1>5, <1>6, <1>7, <1>8, <1>9, <1>10, <1>11, <1>12 DEF Request

LEMMA ShapeInit == Init => StepShape
  BY StepsOK DEF Init, StepShape, StepFree

LEMMA ShapeNext == StepShape /\ [Next]_vars => StepShape'
<1> SUFFICES ASSUME StepShape, [Next]_vars PROVE StepShape'
  OBVIOUS
<1>1. CASE SyncOffers \/ Quiescent \/ UNCHANGED vars
  BY <1>1 DEF SyncOffers, Quiescent, vars, StepShape
<1>2. CASE \E h \in Handlers : Request(h) \/ Step(h) \/ Crash(h)
  BY <1>2, ShapeLocking, ShapeReservations, ShapeWz, ShapeWholesale, ShapeDocuments,
     ShapeRequests DEF Step, TakesLock, Departs, Moves
<1> QED
  BY <1>1, <1>2 DEF Next

-----------------------------------------------------------------------------
(* The advisory lock *)

(* A handler between the two halves of a reservation transaction holds the *)
(* lock, and has seen every active reservation of its order.               *)
SeesActive(t) ==
    /\ t.local = 0 \/ t.back = 0
    /\ \A s \in t.seen : /\ s.r \in ResIds /\ res[s.r].st # "FREE"
                         /\ s.src = res[s.r].src
    /\ \A r \in Active(t.o) : \E s \in t.seen : s.r = r

OneActivePerOrder ==
    \A r1, r2 \in ResIds :
        /\ res[r1].st = "ACTIVE" /\ res[r2].st = "ACTIVE"
        /\ res[r1].o = res[r2].o
        => r1 = r2

LockInv == \A h \in Handlers : at[h].k = "apply" => lock[at[h].o] = h /\ SeesActive(at[h])

ReservationsInv == StepShape /\ ResShape /\ LockInv /\ OneActivePerOrder

(* What every step does to reservations, but for the one it may create.    *)
Kept(r) == /\ res'[r].src = res[r].src /\ res'[r].o = res[r].o
           /\ res'[r].st = "ACTIVE" => res[r].st = "ACTIVE"
           /\ res[r].st # "FREE" => res'[r].st # "FREE"

LEMMA RewrittenRow ==
    ASSUME ResShape, NEW r \in ResIds, NEW t
    PROVE  /\ Rewritten(t, r) = [st |-> Rewritten(t, r).st, src |-> res[r].src,
                                 qty |-> Rewritten(t, r).qty, o |-> res[r].o]
           /\ Rewritten(t, r).st = IF r \in ClosedIds(t) THEN "RELEASED" ELSE res[r].st
<1> USE DEF ResShape, Rewritten
<1>1. CASE r \in ClosedIds(t)
  BY <1>1
<1>2. CASE r \notin ClosedIds(t) /\ r \in KeptIds(t)
  BY <1>2
<1>3. CASE r \notin ClosedIds(t) /\ r \notin KeptIds(t)
  BY <1>3
<1> QED
  BY <1>1, <1>2, <1>3

LEMMA ConsumeKeeps ==
    ASSUME ResShape, NEW R, NEW cancelled, ConsumeRows(R, cancelled)
    PROVE  ResShape' /\ \A r \in ResIds : Kept(r)
<1>1. ASSUME NEW r \in ResIds
      PROVE  /\ res'[r] = [st |-> res'[r].st, src |-> res[r].src,
                           qty |-> res[r].qty, o |-> res[r].o]
             /\ Kept(r)
  BY <1>1 DEF ResShape, ConsumeRows, Kept
<1>2. res' = [r \in ResIds |-> res'[r]]
  BY DEF ConsumeRows
<1> QED
  BY <1>1, <1>2 DEF ResShape

LEMMA SameRowsKeep ==
    ASSUME ResShape, UNCHANGED res
    PROVE  ResShape' /\ \A r \in ResIds : Kept(r)
  BY DEF ResShape, Kept

LEMMA CancelKeeps ==
    ASSUME ResShape, NEW h, CancelTx(h)
    PROVE  ResShape' /\ \A r \in ResIds : Kept(r)
<1>1. CASE UNCHANGED res
  BY <1>1, SameRowsKeep
<1> DEFINE holding == {s.r : s \in at[h].seen}
<1>2. CASE res' = [r \in ResIds |-> IF r \in holding THEN [res[r] EXCEPT !.st = "RELEASED"]
                                                     ELSE res[r]]
  <2> HIDE DEF holding
  <2>1. ASSUME NEW r \in ResIds
        PROVE  /\ res'[r] = [st |-> res'[r].st, src |-> res[r].src,
                             qty |-> res[r].qty, o |-> res[r].o]
               /\ Kept(r)
    BY <1>2, <2>1 DEF ResShape, Kept
  <2>2. res' = [r \in ResIds |-> res'[r]]
    BY <1>2
  <2> QED
    BY <2>1, <2>2 DEF ResShape
<1> QED
  BY <1>1, <1>2, Zenon DEF CancelTx

LEMMA OthersKeepSeeing ==
    ASSUME ResShape, NEW t, SeesActive(t), \A r \in ResIds : Kept(r)
    PROVE  SeesActive(t)'
  BY DEF SeesActive, Kept, Active

(* The order a handler holds the lock of is not that of another.           *)
LEMMA OwnOrder ==
    ASSUME LockInv, NEW g \in Handlers, NEW h \in Handlers, g # h,
           at[g].k = "apply", at[h].k = "apply"
    PROVE  at[g].o # at[h].o
  BY DEF LockInv

(* A step that neither ends nor begins a reservation transaction.          *)
LEMMA LockOthers ==
    ASSUME ReservationsInv, NEW h \in Handlers, Moves(h), ResShape',
           \A r \in ResIds : Kept(r),
           \A o \in Orders : lock[o] # h => lock'[o] = lock[o]
    PROVE  ReservationsInv'
<1>1. OneActivePerOrder'
  BY DEF OneActivePerOrder, Kept, ReservationsInv
<1>2. ASSUME NEW g \in Handlers, at'[g].k = "apply"
      PROVE  lock'[at'[g].o] = g /\ SeesActive(at[g])'
  <2>1. g # h /\ at'[g] = at[g] /\ at[g].k = "apply"
    BY <1>2 DEF Moves
  <2>2. PICK t : t = at[g]
    OBVIOUS
  <2>3. at'[g] = t /\ lock[t.o] = g /\ SeesActive(t)
    BY <2>1, <2>2 DEF ReservationsInv, LockInv
  <2>4. t.o \in Orders
    BY <2>1, <2>2, StepFields DEF ReservationsInv, StepShape
  <2>5. SeesActive(t)'
    BY <2>3, OthersKeepSeeing DEF ReservationsInv
  <2> QED
    BY <2>1, <2>3, <2>4, <2>5
<1> QED
  BY <1>1, <1>2 DEF ReservationsInv, LockInv, Moves

LEMMA LockTaken ==
    ASSUME ReservationsInv, NEW h \in Handlers, TakesLock(h)
    PROVE  ReservationsInv'
<1>1. ResShape' /\ OneActivePerOrder' /\ \A r \in ResIds : Kept(r)
  BY SameRowsKeep DEF TakesLock, OneActivePerOrder, ReservationsInv
<1>2. ASSUME NEW g \in Handlers, at'[g].k = "apply"
      PROVE  lock'[at'[g].o] = g /\ SeesActive(at[g])'
  <2>1. PICK t : t = at'[g]
    OBVIOUS
  <2>2. CASE g = h
    <3>1. /\ t.o = at[h].o /\ t.seen = SeenActive(t.o)
          /\ t.local = 0 \/ t.back = 0
      BY <2>1, <2>2 DEF TakesLock
    <3>2. \A s \in t.seen : s.r \in ResIds /\ res[s.r].st # "FREE" /\ s.src = res[s.r].src
      BY <3>1 DEF SeenActive, Active
    <3>3. \A r \in Active(t.o) : \E s \in t.seen : s.r = r
      <4>1. ASSUME NEW r \in Active(t.o)
            PROVE  [r |-> r, src |-> res[r].src, qty |-> res[r].qty] \in t.seen
        BY <3>1 DEF SeenActive
      <4> QED
        BY <4>1
    <3>4. SeesActive(t)'
      BY <1>1, <3>1, <3>2, <3>3, OthersKeepSeeing DEF SeesActive, ReservationsInv
    <3>5. lock'[t.o] = h
      BY <3>1 DEF TakesLock, ReservationsInv, StepShape
    <3> QED
      BY <2>1, <2>2, <3>4, <3>5
  <2>3. CASE g # h
    <3>1. t = at[g] /\ t.k = "apply"
      BY <1>2, <2>1, <2>3 DEF TakesLock
    <3>2. lock[t.o] = g /\ SeesActive(t) /\ t.o \in Orders
      BY <3>1, StepFields DEF ReservationsInv, LockInv, StepShape
    <3>3. lock'[t.o] = g
      BY <3>2, IdsAssumption DEF TakesLock, ReservationsInv, StepShape
    <3>4. SeesActive(t)'
      BY <1>1, <3>2, OthersKeepSeeing DEF ReservationsInv
    <3> QED
      BY <2>1, <3>3, <3>4
  <2> QED
    BY <2>2, <2>3
<1> QED
  BY <1>1, <1>2 DEF ReservationsInv, LockInv, TakesLock

(* What Apply writes: the rows it saw, and at most one new row, beside     *)
(* which the order has no other active one.                                *)
AllBut(t, new) ==
    /\ new \in ResIds => res[new].st = "FREE" /\ res'[new].o = t.o
    /\ \A r \in ResIds \ {new} :
          Kept(r) /\ (new \in ResIds /\ r \in Active(t.o) => res'[r].st # "ACTIVE")

LEMMA ApplyWrites ==
    ASSUME ReservationsInv, NEW t, SeesActive(t), ApplyRows(t)
    PROVE  /\ ResShape'
           /\ \E new : AllBut(t, new)
<1> USE DEF ReservationsInv
<1>1. ASSUME NEW r \in ResIds
      PROVE  /\ Rewritten(t, r) = [st |-> Rewritten(t, r).st, src |-> res[r].src,
                                   qty |-> Rewritten(t, r).qty, o |-> res[r].o]
             /\ res'[r] = Rewritten(t, r) => Kept(r)
  BY RewrittenRow DEF Kept
<1>2. CASE res' = [r \in ResIds |-> Rewritten(t, r)]
  <2>1. PICK new : new \notin ResIds
    BY NoSetContainsEverything
  <2>2. \A r \in ResIds : res'[r] = Rewritten(t, r)
    BY <1>2
  <2>3. ResShape'
    <3>1. res' = [r \in ResIds |-> res'[r]]
      BY <1>2
    <3> QED
      BY <1>1, <2>2, <3>1 DEF ResShape
  <2> QED
    BY <1>1, <2>1, <2>2, <2>3 DEF AllBut
<1>3. ASSUME NEW src \in CreatedSources(t), NEW new \in ResIds, IsFirstFree(new, FreeResIds),
             res' = [r \in ResIds |->
                 IF r = new
                 THEN [st |-> "ACTIVE", src |-> src, qty |-> WantedOf(t, src), o |-> t.o]
                 ELSE Rewritten(t, r)]
      PROVE  ResShape' /\ AllBut(t, new)
  <2>1. src \in Sources /\ WantedOf(t, src) > 0 /\ \A s \in t.seen : s.src # src
    BY DEF CreatedSources, Sources
  <2>2. /\ res'[new] = [st |-> "ACTIVE", src |-> src, qty |-> WantedOf(t, src), o |-> t.o]
        /\ \A r \in ResIds \ {new} : res'[r] = Rewritten(t, r)
        /\ res' = [r \in ResIds |-> res'[r]]
    BY <1>3
  <2>3. res[new].st = "FREE"
    BY <1>3 DEF IsFirstFree, FreeResIds
  <2>4. ResShape'
    BY <1>1, <2>1, <2>2 DEF ResShape
  <2>5. KeptIds(t) = {}
    <3>1. ASSUME NEW s \in t.seen, WantedOf(t, s.src) > 0 PROVE FALSE
      <4>1. s.src \in Sources /\ s.src # src
        BY <2>1 DEF SeesActive, ResShape
      <4>2. t.local > 0 /\ t.back > 0
        BY <2>1, <3>1, <4>1 DEF WantedOf, Sources
      <4> QED
        BY <4>2 DEF SeesActive
    <3> QED
      BY <3>1 DEF KeptIds
  <2>6. ASSUME NEW r \in ResIds \ {new}, r \in Active(t.o)
        PROVE  res'[r].st # "ACTIVE"
    <3>1. r \in ClosedIds(t)
      BY <2>5, <2>6 DEF SeesActive, ClosedIds
    <3> QED
      BY <2>2, <3>1, RewrittenRow
  <2> QED
    BY <1>1, <2>2, <2>3, <2>4, <2>6 DEF AllBut
<1> QED
  BY <1>2, <1>3 DEF ApplyRows

LEMMA LockReleased ==
    ASSUME ReservationsInv, NEW h \in Handlers, Apply(h), Moves(h)
    PROVE  ReservationsInv'
<1>1. PICK t : t = at[h]
  OBVIOUS
<1>2. t.k = "apply" /\ t.o \in Orders /\ SeesActive(t) /\ (ApplyRows(t) \/ UNCHANGED res)
         /\ lock' = [lock EXCEPT ![t.o] = None]
  BY <1>1, StepFields DEF Apply, Unlock, ReservationsInv, LockInv, StepShape
<1>3. ResShape' /\ \E new : AllBut(t, new)
  <2>1. CASE ApplyRows(t)
    BY <1>2, <2>1, ApplyWrites
  <2>2. CASE UNCHANGED res
    <3>1. PICK new : new \notin ResIds
      BY NoSetContainsEverything
    <3> QED
      BY <2>2, <3>1, SameRowsKeep DEF ReservationsInv, AllBut
  <2> QED
    BY <1>2, <2>1, <2>2
<1>4. PICK new : AllBut(t, new)
  BY <1>3
<1>5. OneActivePerOrder'
  BY <1>4 DEF AllBut, OneActivePerOrder, Kept, Active, ReservationsInv
<1>6. ASSUME NEW g \in Handlers, at'[g].k = "apply"
      PROVE  lock'[at'[g].o] = g /\ SeesActive(at[g])'
  <2>1. g # h /\ at'[g] = at[g] /\ at[g].k = "apply"
    BY <1>6 DEF Moves
  <2>2. PICK u : u = at[g]
    OBVIOUS
  <2>3. lock[u.o] = g /\ SeesActive(u) /\ u.o \in Orders /\ u.o # t.o
    BY <1>1, <1>2, <2>1, <2>2, OwnOrder, StepFields DEF ReservationsInv, LockInv, StepShape
  <2>4. lock'[u.o] = g
    BY <1>2, <2>3 DEF ReservationsInv, StepShape
  <2>5. \A s \in u.seen : /\ s.r \in ResIds /\ s.r # new
                          /\ res'[s.r].st # "FREE" /\ s.src = res'[s.r].src
    BY <1>4, <2>3 DEF AllBut, SeesActive, Kept
  <2>6. Active(u.o)' \subseteq Active(u.o)
    BY <1>4, <2>3 DEF AllBut, Active, Kept
  <2>7. SeesActive(u)'
    BY <2>3, <2>5, <2>6 DEF SeesActive
  <2> QED
    BY <2>1, <2>2, <2>4, <2>7
<1> QED
  BY <1>3, <1>5, <1>6 DEF ReservationsInv, LockInv, Moves

LEMMA ReservationsNext == ReservationsInv /\ [Next]_vars => ReservationsInv'
<1> SUFFICES ASSUME ReservationsInv, [Next]_vars PROVE ReservationsInv'
  OBVIOUS
<1>1. StepShape /\ ResShape /\ StepShape'
  BY ShapeNext DEF ReservationsInv
<1>2. CASE SyncOffers \/ Quiescent \/ UNCHANGED vars
  <2>1. UNCHANGED <<res, at, rest, lock>>
    BY <1>2 DEF SyncOffers, Quiescent, rows, vars
  <2> QED
    BY <2>1 DEF ReservationsInv, StepShape, ResShape, LockInv, SeesActive, Active,
               OneActivePerOrder
<1>3. ASSUME NEW h \in Handlers, Request(h)
      PROVE  ReservationsInv'
  <2>1. UNCHANGED <<res, lock>>
    BY <1>3 DEF Request, Begin, rows, ChangeStatus, RefreshReservations, ReleaseReservations,
                CreateWz, CreateDocument, ConfirmDocument, CancelDocument, DeleteDocument,
                AddItem, SetItem, DropOwn, DropItem, Recalculate, CreateZh, CreatePz,
                UpdateDocument
  <2> QED
    BY <1>1, <1>3, <2>1, ShapeRequests, SameRowsKeep, LockOthers
<1>4. ASSUME NEW h \in Handlers, Crash(h)
      PROVE  ReservationsInv'
  <2>1. UNCHANGED res /\ \A o \in Orders : lock[o] # h => lock'[o] = lock[o]
    BY <1>4 DEF Crash, rows
  <2> QED
    BY <1>1, <1>4, <2>1, ShapeRequests, SameRowsKeep, LockOthers
<1>5. ASSUME NEW h \in Handlers, ReserveTx(h) \/ ReleaseTx(h)
      PROVE  ReservationsInv'
  BY <1>1, <1>5, ShapeLocking, LockTaken
<1>6. ASSUME NEW h \in Handlers, Apply(h)
      PROVE  ReservationsInv'
  BY <1>1, <1>6, ShapeReservations, LockReleased DEF Departs
<1>7. ASSUME NEW h \in Handlers, WzTx(h) \/ ConfirmTx(h)
      PROVE  ReservationsInv'
  <2>1. lock' = lock /\ Moves(h)
    BY <1>1, <1>7, ShapeWz, ShapeDocuments DEF WzTx, ConfirmTx, Departs
  <2>2. res' = res \/ \E R, cancelled : ConsumeRows(R, cancelled)
    BY <1>7 DEF WzTx, ConfirmTx
  <2> QED
    BY <1>1, <2>1, <2>2, SameRowsKeep, ConsumeKeeps, LockOthers
<1>8. ASSUME NEW h \in Handlers, CancelTx(h)
      PROVE  ReservationsInv'
  <2>1. lock' = lock /\ Moves(h)
    BY <1>1, <1>8, ShapeDocuments DEF CancelTx, Departs
  <2> QED
    BY <1>1, <1>8, <2>1, CancelKeeps, LockOthers
<1>9. ASSUME NEW h \in Handlers,
             \/ Reserve(h) \/ ReserveAndWz(h) \/ Wz(h) \/ Collect(h) \/ Sync(h) \/ SyncTx(h)
             \/ Finalize(h) \/ Confirm(h) \/ Realloc(h) \/ ReallocOrders(h) \/ ReallocDrafts(h)
             \/ DeleteTx(h) \/ AddItemTx(h) \/ SetItemTx(h) \/ DropOwnTx(h) \/ DropItemTx(h)
             \/ RecalculateTx(h) \/ Zh(h) \/ ZhCollect(h) \/ ZhTx(h) \/ PzTx(h) \/ UpdateTx(h)
      PROVE  ReservationsInv'
  <2>1. Moves(h)
    BY <1>1, <1>9, ShapeReservations, ShapeWz, ShapeWholesale, ShapeDocuments DEF Departs
  <2>2. UNCHANGED <<res, lock>>
    BY <1>9 DEF rows, Reserve, ReserveAndWz, Wz, Collect, Sync, SyncTx, Finalize, Confirm,
                Realloc, ReallocOrders, ReallocDrafts, DeleteTx, AddItemTx, SetItemTx,
                DropOwnTx, DropItemTx, RecalculateTx, Zh, ZhCollect, ZhTx, PzTx, UpdateTx
  <2> QED
    BY <1>1, <2>1, <2>2, SameRowsKeep, LockOthers
<1> QED
  BY <1>2, <1>3, <1>4, <1>5, <1>6, <1>7, <1>8, <1>9 DEF Next, Step

LEMMA ReservationsInit == Init => ReservationsInv
<1> SUFFICES ASSUME Init PROVE ReservationsInv
  OBVIOUS
<1>1. /\ res = [r \in ResIds |-> FreeRes] /\ \A h \in Handlers : at[h] = Idle
  BY DEF Init
<1>2. ResShape
  BY <1>1 DEF ResShape, FreeRes, Sources
<1>3. LockInv /\ OneActivePerOrder
  BY <1>1 DEF LockInv, OneActivePerOrder, Idle, FreeRes
<1> QED
  BY <1>2, <1>3, ShapeInit DEF ReservationsInv

(* What a handler has seen under the lock leaves nothing for the index to  *)
(* refuse: it closes all it has seen when it holds from another source.    *)
LEMMA NothingRefused ==
    ASSUME ResShape, NEW t, SeesActive(t)
    PROVE  ~Refused(t)
<1> SUFFICES ASSUME NEW src \in CreatedSources(t) PROVE Active(t.o) \subseteq ClosedIds(t)
  BY DEF Refused
<1>1. /\ src \in Sources /\ WantedOf(t, src) > 0
      /\ \A s \in t.seen : s.src # src
  BY DEF CreatedSources, Sources
<1>2. KeptIds(t) \cap Active(t.o) = {}
  <2>1. ASSUME NEW s \in t.seen, s.src \in Sources, WantedOf(t, s.src) > 0 PROVE FALSE
    <3>1. t.local > 0 /\ t.back > 0
      BY <1>1, <2>1 DEF WantedOf, Sources
    <3> QED
      BY <3>1 DEF SeesActive
  <2> QED
    BY <2>1 DEF SeesActive, KeptIds, ResShape
<1> QED
  BY <1>2 DEF SeesActive, ClosedIds

(* However many requests, webhooks and jobs run for an order, wherever they *)
(* are interrupted, the unique index on its active reservation refuses     *)
(* nothing: the advisory lock makes what reserveOrder and                  *)
(* releaseOrderReservations read still complete when they write, although  *)
(* confirmations and cancellations, which do not take the lock, change the *)
(* same rows.                                                              *)
THEOREM ReservationsExclusive == Spec => []NeverRefused
<1>1. Init => ReservationsInv
  BY ReservationsInit
<1>2. ReservationsInv /\ [Next]_vars => ReservationsInv'
  BY ReservationsNext
<1>3. ReservationsInv => NeverRefused
  BY NothingRefused DEF ReservationsInv, LockInv, NeverRefused
<1> QED
  BY <1>1, <1>2, <1>3, PTL DEF Spec

-----------------------------------------------------------------------------
(* The unique index *)

(* The wholesale order whose receipt a handler is about to write is still  *)
(* one, or is gone: that write does not look at the row's type again.      *)
ReadZh(t) == \/ doc[t.d].st = "DELETED"
             \/ doc[t.d].st # "FREE" /\ doc[t.d].type = "ZH"
ReceiptsOfZh == \A h \in Handlers : at[h].k = "pzTx" => ReadZh(at[h])

DocumentsInv == StepShape /\ DocShape /\ OneOpenWz /\ ReceiptsOfZh

(* What every step does to the documents that exist. *)
KeptDoc(d) == doc[d].st # "FREE" =>
                 \/ doc'[d].st = "DELETED"
                 \/ doc[d].st # "DELETED" /\ doc'[d].st # "FREE" /\ doc'[d].type = doc[d].type
WritesWell == DocShape' /\ OneOpenWz' /\ \A d \in DocIds : KeptDoc(d)

(* Most steps write at most one document, and may open a WZ for an order   *)
(* only where there is none.                                               *)
Writes(d, row) == doc' = [doc EXCEPT ![d] = row]
SameKind(d, row) ==
    /\ row.type = doc[d].type /\ row.o = doc[d].o
    /\ \/ row.st = doc[d].st
       \/ row.st = "CANCELLED" /\ doc[d].st # "DELETED"
NewOrKept(d, row) ==
    \/ doc[d].st = "FREE"
    \/ doc[d].st # "DELETED" /\ row.st # "FREE" /\ row.type = doc[d].type
IsRow(row) == row = [st |-> row.st, type |-> row.type, o |-> row.o, own |-> row.own,
                     sys |-> row.sys, lines |-> row.lines, warn |-> row.warn,
                     link |-> row.link]

LEMMA FirstFree == \A d \in DocIds : IsFirstFree(d, FreeDocIds) => doc[d].st = "FREE"
  BY DEF IsFirstFree, FreeDocIds

LEMMA DocWritten ==
    ASSUME DocShape, NEW d \in DocIds, NEW row, IsRow(row), Writes(d, row)
    PROVE  DocShape' /\ doc'[d] = row /\ \A x \in DocIds \ {d} : doc'[x] = doc[x]
  BY DEF DocShape, Writes, IsRow

LEMMA WzNotOpened ==
    ASSUME DocShape, OneOpenWz, NEW d \in DocIds, NEW row, IsRow(row), Writes(d, row),
           SameKind(d, row)
    PROVE  WritesWell
<1>1. DocShape' /\ doc'[d] = row /\ \A x \in DocIds \ {d} : doc'[x] = doc[x]
  BY DocWritten
<1>2. \A o \in Orders : OpenWz(o)' \subseteq OpenWz(o)
  BY <1>1 DEF OpenWz, SameKind
<1>3. \A x \in DocIds : KeptDoc(x)
  BY <1>1 DEF KeptDoc, SameKind
<1> QED
  BY <1>1, <1>2, <1>3 DEF OneOpenWz, WritesWell

LEMMA WzOpened ==
    ASSUME DocShape, OneOpenWz, NEW d \in DocIds, NEW row, IsRow(row), Writes(d, row),
           NewOrKept(d, row),
           NEW x \in {d, None}, row.type = "WZ" => ~UniqueViolation(x, row.o)
    PROVE  WritesWell
<1>1. DocShape' /\ doc'[d] = row /\ \A y \in DocIds \ {d} : doc'[y] = doc[y]
  BY DocWritten
<1>2. ASSUME NEW o \in Orders
      PROVE  /\ OpenWz(o)' \subseteq OpenWz(o) \cup {d}
             /\ d \in OpenWz(o)' => OpenWz(o) \subseteq {d}
  <2>1. OpenWz(o)' \subseteq OpenWz(o) \cup {d}
    BY <1>1 DEF OpenWz
  <2>2. ASSUME d \in OpenWz(o)'
        PROVE  OpenWz(o) \subseteq {d}
    <3>1. row.type = "WZ" /\ row.o = o
      BY <1>1, <2>2 DEF OpenWz
    <3>2. OpenWz(o) \subseteq {x} /\ OpenWz(o) \subseteq DocIds
      BY <3>1, IdsAssumption DEF UniqueViolation, OpenWz
    <3> QED
      BY <3>2, IdsAssumption
  <2> QED
    BY <2>1, <2>2
<1>3. \A y \in DocIds : KeptDoc(y)
  BY <1>1 DEF KeptDoc, NewOrKept
<1> QED
  BY <1>1, <1>2, <1>3 DEF OneOpenWz, WritesWell

(* A document that does not count may name any order. *)
WritesShut(d, row) ==
    /\ doc[d].st \notin {"DRAFT", "CONFIRMED", "DELETED"}
    /\ row.st = doc[d].st /\ row.type = doc[d].type

LEMMA WzShut ==
    ASSUME DocShape, OneOpenWz, NEW d \in DocIds, NEW row, IsRow(row), Writes(d, row),
           WritesShut(d, row)
    PROVE  WritesWell
<1>1. DocShape' /\ doc'[d] = row /\ \A x \in DocIds \ {d} : doc'[x] = doc[x]
  BY DocWritten
<1>2. \A o \in Orders : OpenWz(o)' \subseteq OpenWz(o)
  BY <1>1 DEF OpenWz, WritesShut
<1>3. \A x \in DocIds : KeptDoc(x)
  BY <1>1 DEF KeptDoc, WritesShut
<1> QED
  BY <1>1, <1>2, <1>3 DEF OneOpenWz, WritesWell

LEMMA DocUnchanged ==
    ASSUME DocShape, OneOpenWz, UNCHANGED doc
    PROVE  WritesWell
  BY DEF DocShape, OneOpenWz, OpenWz, KeptDoc, WritesWell

LEMMA WzEdits ==
    ASSUME DocumentsInv, NEW h \in Handlers,
           \/ SyncTx(h) \/ CancelTx(h) \/ DeleteTx(h) \/ AddItemTx(h) \/ SetItemTx(h)
           \/ DropOwnTx(h) \/ DropItemTx(h)
    PROVE  WritesWell
<1> USE DEF DocumentsInv
<1>1. PICK d \in DocIds : d = at[h].d
  BY StepFields DEF StepShape, SyncTx, CancelTx, DeleteTx, AddItemTx, SetItemTx, DropOwnTx,
                    DropItemTx
<1>2. doc[d] = [st |-> doc[d].st, type |-> doc[d].type, o |-> doc[d].o, own |-> doc[d].own,
                sys |-> doc[d].sys, lines |-> doc[d].lines, warn |-> doc[d].warn,
                link |-> doc[d].link]
  BY DEF DocShape
<1>3. CASE UNCHANGED doc
  BY <1>3, DocUnchanged
<1>4. ASSUME NEW row, IsRow(row), Writes(d, row), SameKind(d, row)
      PROVE  WritesWell
  BY <1>4, WzNotOpened
<1>5. CASE \E lines : doc' = [doc EXCEPT ![d].lines = lines]
  <2>1. PICK lines : doc' = [doc EXCEPT ![d].lines = lines]
    BY <1>5
  <2>2. PICK row : row = [doc[d] EXCEPT !.lines = lines]
    OBVIOUS
  <2>3. IsRow(row) /\ row.type = doc[d].type /\ row.o = doc[d].o /\ row.st = doc[d].st
    BY <1>2, <2>2 DEF IsRow
  <2>4. Writes(d, row)
    BY <2>1, <2>2 DEF Writes, DocShape
  <2>5. SameKind(d, row)
    BY <2>3 DEF SameKind
  <2> QED
    BY <1>4, <2>3, <2>4, <2>5
<1>6. CASE \E own, sys : doc' = [doc EXCEPT ![d].own = own, ![d].sys = sys]
  <2>1. PICK own, sys : doc' = [doc EXCEPT ![d].own = own, ![d].sys = sys]
    BY <1>6
  <2>2. PICK row : row = [doc[d] EXCEPT !.own = own, !.sys = sys]
    OBVIOUS
  <2>3. IsRow(row) /\ row.type = doc[d].type /\ row.o = doc[d].o /\ row.st = doc[d].st
    BY <1>2, <2>2 DEF IsRow
  <2>4. Writes(d, row)
    BY <2>1, <2>2 DEF Writes, DocShape
  <2>5. SameKind(d, row)
    BY <2>3 DEF SameKind
  <2> QED
    BY <1>4, <2>3, <2>4, <2>5
<1>7. CASE \E own : doc' = [doc EXCEPT ![d].own = own]
  <2>1. PICK own : doc' = [doc EXCEPT ![d].own = own]
    BY <1>7
  <2>2. PICK row : row = [doc[d] EXCEPT !.own = own]
    OBVIOUS
  <2>3. IsRow(row) /\ row.type = doc[d].type /\ row.o = doc[d].o /\ row.st = doc[d].st
    BY <1>2, <2>2 DEF IsRow
  <2>4. Writes(d, row)
    BY <2>1, <2>2 DEF Writes, DocShape
  <2>5. SameKind(d, row)
    BY <2>3 DEF SameKind
  <2> QED
    BY <1>4, <2>3, <2>4, <2>5
<1>8. CASE ~RowGone(d) /\ doc' = [doc EXCEPT ![d].st = "CANCELLED"]
  <2>1. PICK row : row = [doc[d] EXCEPT !.st = "CANCELLED"]
    OBVIOUS
  <2>2. IsRow(row) /\ Writes(d, row) /\ SameKind(d, row)
    BY <1>2, <1>8, <2>1 DEF IsRow, Writes, SameKind, DocShape, RowGone
  <2> QED
    BY <1>4, <2>2
<1>9. CASE DeleteTx(h) /\ doc' = [doc EXCEPT ![d] = [FreeDoc EXCEPT !.st = "DELETED"]]
  <2>1. PICK row : row = [FreeDoc EXCEPT !.st = "DELETED"]
    OBVIOUS
  <2>2. IsRow(row) /\ Writes(d, row) /\ row.st = "DELETED"
    BY <1>9, <2>1 DEF IsRow, Writes, FreeDoc
  <2>3. DocShape' /\ doc'[d] = row /\ \A x \in DocIds \ {d} : doc'[x] = doc[x]
    BY <2>2, DocWritten
  <2> QED
    BY <2>2, <2>3 DEF OneOpenWz, OpenWz, KeptDoc, WritesWell
<1> QED
  <2>1. CASE SyncTx(h) \/ DropItemTx(h)
    BY <1>1, <1>3, <1>5, <2>1, Zenon DEF SyncTx, DropItemTx
  <2>2. CASE AddItemTx(h) \/ SetItemTx(h) \/ DropOwnTx(h)
    BY <1>1, <1>3, <1>6, <1>7, <2>2, Zenon DEF AddItemTx, SetItemTx, DropOwnTx
  <2>3. CASE CancelTx(h)
    BY <1>1, <1>3, <1>8, <2>3, Zenon DEF CancelTx
  <2>4. CASE DeleteTx(h)
    BY <1>1, <1>3, <1>9, <2>4 DEF DeleteTx
  <2> QED
    BY <2>1, <2>2, <2>3, <2>4

LEMMA WzCreated ==
    ASSUME DocumentsInv, NEW h \in Handlers,
           \/ WzTx(h) \/ ConfirmTx(h) \/ CreateDocument(h) \/ ZhTx(h) \/ UpdateTx(h)
    PROVE  WritesWell
<1> USE DEF DocumentsInv
<1>1. CASE UNCHANGED doc
  BY <1>1, DocUnchanged
<1>2. ASSUME NEW d \in DocIds, NEW row, IsRow(row), Writes(d, row), NewOrKept(d, row),
             NEW x \in {d, None}, row.type = "WZ" => ~UniqueViolation(x, row.o)
      PROVE  WritesWell
  BY <1>2, WzOpened
<1>3. CASE WzTx(h) /\ doc' # doc
  <2> DEFINE t == at[h]
             confirms == ~t.draft /\ (t.force \/ AutoConfirmWz) /\ ~t.warn
  <2>1. ~UniqueViolation(None, t.o)
    BY <1>3, Zenon DEF WzTx
  <2>2. PICK d \in DocIds :
          /\ IsFirstFree(d, FreeDocIds)
          /\ doc' = [doc EXCEPT ![d] =
                    [FreeDoc EXCEPT !.st = IF confirms THEN "CONFIRMED" ELSE "DRAFT",
                                    !.o = t.o, !.lines = t.lines, !.warn = t.warn]]
    BY <1>3, Zenon DEF WzTx
  <2>3. PICK st, lines, warn :
          doc' = [doc EXCEPT ![d] = [FreeDoc EXCEPT !.st = st, !.o = at[h].o,
                                                    !.lines = lines, !.warn = warn]]
    BY <2>2, Zenon
  <2>4. PICK row : row = [FreeDoc EXCEPT !.st = st, !.o = at[h].o, !.lines = lines, !.warn = warn]
    OBVIOUS
  <2>5. IsRow(row) /\ row.o = at[h].o
    BY <2>4 DEF IsRow, FreeDoc
  <2>6. Writes(d, row)
    BY <2>3, <2>4 DEF Writes
  <2>7. NewOrKept(d, row)
    BY <2>2, FirstFree DEF NewOrKept
  <2> QED
    BY <1>2, <2>1, <2>5, <2>6, <2>7
<1>4. CASE ConfirmTx(h) /\ doc' # doc
  <2>1. PICK d \in DocIds : d = at[h].d
    BY <1>4, StepFields DEF StepShape, ConfirmTx
  <2>2. PICK own, lines :
          /\ ~RowGone(d) /\ ~(doc[d].type = "WZ" /\ UniqueViolation(d, doc[d].o))
          /\ doc' = [doc EXCEPT ![d].st = "CONFIRMED", ![d].own = own, ![d].lines = lines]
    BY <1>4, <2>1, Zenon DEF ConfirmTx
  <2>3. PICK row : row = [doc[d] EXCEPT !.st = "CONFIRMED", !.own = own, !.lines = lines]
    OBVIOUS
  <2>4. IsRow(doc[d])
    BY DEF IsRow, DocShape
  <2>5. IsRow(row) /\ row.type = doc[d].type /\ row.o = doc[d].o /\ NewOrKept(d, row)
    BY <2>2, <2>3, <2>4 DEF IsRow, NewOrKept, RowGone
  <2>6. Writes(d, row)
    BY <2>2, <2>3 DEF Writes, DocShape
  <2> QED
    BY <1>2, <2>2, <2>5, <2>6
<1>5. CASE CreateDocument(h)
  <2>1. PICK d \in DocIds, type \in Types, q \in Qtys, o \in Orders \cup {None} :
          \E sys : /\ IsFirstFree(d, FreeDocIds)
                  /\ (o # None => ~UniqueViolation(d, o))
                  /\ doc' = [doc EXCEPT ![d] =
                               [FreeDoc EXCEPT !.st = "DRAFT", !.type = type, !.o = o,
                                               !.own = q, !.sys = sys]]
    BY <1>5, Zenon DEF CreateDocument
  <2>2. PICK sys : /\ IsFirstFree(d, FreeDocIds)
                   /\ (o # None => ~UniqueViolation(d, o))
                   /\ doc' = [doc EXCEPT ![d] =
                                [FreeDoc EXCEPT !.st = "DRAFT", !.type = type, !.o = o,
                                                !.own = q, !.sys = sys]]
    BY <2>1, Zenon
  <2>3. PICK row : row = [FreeDoc EXCEPT !.st = "DRAFT", !.type = type, !.o = o, !.own = q,
                                         !.sys = sys]
    OBVIOUS
  <2>4. IsRow(row) /\ row.o = o
    BY <2>3 DEF IsRow, FreeDoc
  <2>5. Writes(d, row) /\ NewOrKept(d, row)
    BY <2>2, <2>3, FirstFree DEF Writes, NewOrKept
  <2>6. ~UniqueViolation(d, o)
    BY <2>2 DEF UniqueViolation
  <2> QED
    BY <1>2, <2>4, <2>5, <2>6
<1>6. CASE ZhTx(h)
  <2>1. PICK d \in DocIds : \E row :
          /\ IsFirstFree(d, FreeDocIds) /\ Writes(d, row)
          /\ row = [FreeDoc EXCEPT !.st = "DRAFT", !.type = "ZH", !.o = at[h].o,
                                   !.own = at[h].qty]
    BY <1>6 DEF ZhTx, Writes
  <2>2. PICK row :
          /\ IsFirstFree(d, FreeDocIds) /\ Writes(d, row)
          /\ row = [FreeDoc EXCEPT !.st = "DRAFT", !.type = "ZH", !.o = at[h].o,
                                   !.own = at[h].qty]
    BY <2>1
  <2>3. IsRow(row) /\ row.type = "ZH" /\ NewOrKept(d, row)
    BY <2>2, FirstFree DEF IsRow, FreeDoc, NewOrKept
  <2> QED
    BY <1>2, <2>2, <2>3
<1>7. CASE UpdateTx(h) /\ doc' # doc
  <2> DEFINE t == at[h]
             base == IF t.items
                     THEN [doc[t.d] EXCEPT !.own = t.own, !.sys = t.sys, !.lines = {}]
                     ELSE doc[t.d]
  <2>1. t.d \in DocIds /\ IsRow(doc[t.d])
    BY <1>7, StepFields DEF StepShape, UpdateTx, DocShape, IsRow
  <2>2. /\ ~RowGone(t.d)
        /\ ~(t.order /\ base.type = "WZ" /\ base.st # "CANCELLED" /\ UniqueViolation(t.d, t.o))
        /\ doc' = [doc EXCEPT ![t.d] = IF t.order THEN [base EXCEPT !.o = t.o] ELSE base]
    BY <1>7, Zenon DEF UpdateTx
  <2>3. base = doc[t.d] \/ base = [doc[t.d] EXCEPT !.own = t.own, !.sys = t.sys, !.lines = {}]
    BY Zenon
  <2> HIDE DEF base, t
  <2>5. IsRow(base) /\ base.type = doc[t.d].type /\ base.st = doc[t.d].st /\ base.o = doc[t.d].o
    BY <2>1, <2>3 DEF IsRow
  <2>6. CASE ~t.order
    <3>1. Writes(t.d, base) /\ SameKind(t.d, base)
      BY <2>2, <2>5, <2>6 DEF Writes, SameKind
    <3> QED
      BY <2>1, <2>5, <3>1, WzNotOpened
  <2>7. CASE t.order
    <3>1. PICK row : row = [base EXCEPT !.o = t.o]
      OBVIOUS
    <3>2. /\ IsRow(row) /\ Writes(t.d, row) /\ row.o = t.o
          /\ row.type = doc[t.d].type /\ row.st = doc[t.d].st
      BY <2>2, <2>5, <2>7, <3>1 DEF IsRow, Writes
    <3>3. CASE doc[t.d].st \in {"DRAFT", "CONFIRMED"}
      <4>1. NewOrKept(t.d, row) /\ (row.type = "WZ" => ~UniqueViolation(t.d, row.o))
        BY <2>2, <2>5, <2>7, <3>2, <3>3 DEF NewOrKept
      <4> QED
        BY <1>2, <2>1, <3>2, <4>1
    <3>4. CASE doc[t.d].st \notin {"DRAFT", "CONFIRMED"}
      <4>1. WritesShut(t.d, row)
        BY <2>2, <3>2, <3>4 DEF WritesShut, RowGone
      <4> QED
        BY <2>1, <3>2, <4>1, WzShut
    <3> QED
      BY <3>3, <3>4
  <2> QED
    BY <2>6, <2>7
<1> QED
  BY <1>1, <1>3, <1>4, <1>5, <1>6, <1>7

(* The receipt of a wholesale order writes two rows, neither of them a WZ. *)
LEMMA PzWritten ==
    ASSUME DocumentsInv, NEW h \in Handlers, PzTx(h)
    PROVE  WritesWell
<1> USE DEF DocumentsInv
<1> DEFINE t == at[h]
<1>2. t.d \in DocIds /\ ReadZh(t) /\ IsRow(doc[t.d])
  BY StepFields DEF StepShape, PzTx, ReceiptsOfZh, DocShape, IsRow
<1>3. CASE UNCHANGED doc
  BY <1>3, DocUnchanged
<1>4. CASE ~RowGone(t.d) /\ doc' # doc
  <2>1. PICK d \in DocIds :
          /\ IsFirstFree(d, FreeDocIds)
          /\ doc' = [doc EXCEPT ![d] = NewPz(t), ![t.d] = ReceivedZh(t, d)]
    BY <1>4, Zenon DEF PzTx
  <2> HIDE DEF t
  <2>2. doc[t.d].type = "ZH" /\ doc[t.d].st \notin {"FREE", "DELETED"} /\ doc[d].st = "FREE"
    BY <1>2, <1>4, <2>1, FirstFree DEF ReadZh, RowGone
  <2>3. PICK new : new = NewPz(t)
    OBVIOUS
  <2>4. PICK zh : zh = ReceivedZh(t, d)
    OBVIOUS
  <2>5. /\ doc'[d] = new /\ doc'[t.d] = zh
        /\ \A x \in DocIds \ {d, t.d} : doc'[x] = doc[x]
        /\ doc' = [x \in DocIds |-> doc'[x]]
    BY <1>2, <2>1, <2>2, <2>3, <2>4 DEF DocShape
  <2>6. /\ IsRow(new) /\ new.type = "PZ"
        /\ IsRow(zh) /\ zh.type = "ZH" /\ zh.st # "FREE"
    <3>1. IsRow(new) /\ new.type = "PZ"
      BY <2>3 DEF IsRow, FreeDoc, NewPz
    <3>2. IsRow(zh) /\ zh.type = "ZH" /\ zh.st # "FREE"
      BY <1>2, <2>2, <2>4 DEF IsRow, ReceivedZh
    <3> QED
      BY <3>1, <3>2
  <2>7. DocShape'
    BY <2>5, <2>6 DEF DocShape, IsRow
  <2>8. \A x \in DocIds : KeptDoc(x)
    BY <2>2, <2>5, <2>6 DEF KeptDoc
  <2>9. \A o \in Orders : OpenWz(o)' \subseteq OpenWz(o)
    BY <2>5, <2>6 DEF OpenWz
  <2> QED
    BY <2>7, <2>8, <2>9 DEF WritesWell, OneOpenWz
<1> QED
  BY <1>3, <1>4, Zenon DEF PzTx

LEMMA ReceiptsKeep ==
    ASSUME DocumentsInv, WritesWell, NEW h \in Handlers, Moves(h),
           at'[h].k = "pzTx" => ReadZh(at[h])'
    PROVE  DocumentsInv'
<1>1. ASSUME NEW g \in Handlers \ {h}, at'[g].k = "pzTx"
      PROVE  ReadZh(at[g])'
  <2>1. PICK t : t = at[g]
    OBVIOUS
  <2>2. at'[g] = t /\ t.d \in DocIds /\ ReadZh(t)
    BY <1>1, <2>1, StepFields DEF Moves, DocumentsInv, ReceiptsOfZh, StepShape
  <2>3. ReadZh(t)'
    BY <2>2 DEF WritesWell, KeptDoc, ReadZh
  <2> QED
    BY <2>2, <2>3
<1> QED
  BY <1>1 DEF DocumentsInv, WritesWell, ReceiptsOfZh, Moves

LEMMA DocumentsInit == Init => DocumentsInv
<1> SUFFICES ASSUME Init PROVE DocumentsInv
  OBVIOUS
<1>1. doc = [d \in DocIds |-> FreeDoc]
  BY DEF Init
<1>2. DocShape /\ OneOpenWz
  BY <1>1 DEF DocShape, OneOpenWz, OpenWz, FreeDoc
<1>3. ReceiptsOfZh
  BY DEF Init, ReceiptsOfZh, Idle
<1> QED
  BY <1>2, <1>3, ShapeInit DEF DocumentsInv

LEMMA DocumentsNext == DocumentsInv /\ [Next]_vars => DocumentsInv'
<1> SUFFICES ASSUME DocumentsInv, [Next]_vars PROVE DocumentsInv'
  OBVIOUS
<1>1. StepShape /\ DocShape /\ OneOpenWz
  BY DEF DocumentsInv
<1>2. CASE SyncOffers \/ Quiescent \/ UNCHANGED vars
  <2>1. UNCHANGED <<doc, at>> /\ StepShape'
    BY <1>1, <1>2, ShapeNext DEF SyncOffers, Quiescent, vars, rows
  <2>2. ReceiptsOfZh'
    BY <2>1 DEF DocumentsInv, ReceiptsOfZh, ReadZh
  <2> QED
    BY <1>1, <2>1, <2>2, DocUnchanged DEF DocumentsInv, WritesWell
<1>3. ASSUME NEW h \in Handlers, Departs(h), WritesWell
      PROVE  DocumentsInv'
  BY <1>3, ReceiptsKeep DEF Departs
<1>4. ASSUME NEW h \in Handlers, Request(h), ~CreateDocument(h)
      PROVE  UNCHANGED doc
  BY <1>4 DEF Request, rows, ChangeStatus, RefreshReservations, ReleaseReservations, CreateWz,
              ConfirmDocument, CancelDocument, DeleteDocument, AddItem, SetItem, DropOwn,
              DropItem, Recalculate, CreateZh, CreatePz, UpdateDocument
<1>5. ASSUME NEW h \in Handlers, Request(h) \/ Crash(h)
      PROVE  DocumentsInv'
  <2>1. WritesWell
    <3>1. CASE CreateDocument(h)
      BY <3>1, WzCreated
    <3>2. CASE (Request(h) /\ ~CreateDocument(h)) \/ Crash(h)
      BY <1>1, <1>4, <3>2, DocUnchanged DEF Crash, rows
    <3> QED
      BY <1>5, <3>1, <3>2
  <2>2. CASE CreatePz(h)
    <3>1. ReadZh(at[h])'
      <4>1. PICK x : /\ Goto(h, x) /\ UNCHANGED doc
                     /\ doc[x.d].type = "ZH" /\ doc[x.d].st \in {"DRAFT", "CONFIRMED"}
        BY <2>2 DEF CreatePz, Begin, rows
      <4>2. at'[h] = x
        BY <1>1, <4>1 DEF Goto, StepShape
      <4> QED
        BY <4>1, <4>2 DEF ReadZh
    <3> QED
      BY <1>1, <1>5, <2>1, <3>1, ShapeRequests, ReceiptsKeep
  <2>3. CASE ~CreatePz(h)
    BY <1>1, <1>3, <1>5, <2>1, <2>3, ShapeRequests
  <2> QED
    BY <2>2, <2>3
<1>6. ASSUME NEW h \in Handlers,
             \/ Reserve(h) \/ Apply(h) \/ ReserveAndWz(h)
             \/ Wz(h) \/ Collect(h) \/ Sync(h) \/ Finalize(h) \/ Confirm(h) \/ Realloc(h)
             \/ ReallocOrders(h) \/ ReallocDrafts(h) \/ RecalculateTx(h) \/ Zh(h) \/ ZhCollect(h)
      PROVE  DocumentsInv'
  <2>1. UNCHANGED doc
    BY <1>6 DEF rows, Reserve, Apply, ReserveAndWz, Wz, Collect, Sync, Finalize, Confirm,
                Realloc, ReallocOrders, ReallocDrafts, RecalculateTx, Zh, ZhCollect
  <2>2. Departs(h)
    BY <1>1, <1>6, ShapeReservations, ShapeWz, ShapeWholesale, ShapeDocuments
  <2> QED
    BY <1>1, <1>3, <2>1, <2>2, DocUnchanged
<1>7. ASSUME NEW h \in Handlers, ReserveTx(h) \/ ReleaseTx(h)
      PROVE  DocumentsInv'
  <2>1. TakesLock(h) /\ UNCHANGED doc
    BY <1>1, <1>7, ShapeLocking DEF ReserveTx, ReleaseTx, rows
  <2>2. ASSUME NEW g \in Handlers, at'[g].k = "pzTx"
        PROVE  at'[g] = at[g]
    BY <2>1, <2>2 DEF TakesLock
  <2>3. ReceiptsOfZh'
    BY <2>1, <2>2 DEF ReceiptsOfZh, ReadZh, DocumentsInv
  <2> QED
    BY <1>1, <2>1, <2>3, DocUnchanged DEF DocumentsInv, WritesWell, TakesLock
<1>8. ASSUME NEW h \in Handlers,
             \/ SyncTx(h) \/ CancelTx(h) \/ DeleteTx(h) \/ AddItemTx(h) \/ SetItemTx(h)
             \/ DropOwnTx(h) \/ DropItemTx(h) \/ WzTx(h) \/ ConfirmTx(h)
             \/ ZhTx(h) \/ UpdateTx(h) \/ PzTx(h)
      PROVE  DocumentsInv'
  <2>1. Departs(h)
    BY <1>1, <1>8, ShapeWz, ShapeWholesale, ShapeDocuments
  <2>2. WritesWell
    BY <1>8, WzEdits, WzCreated, PzWritten
  <2> QED
    BY <1>3, <2>1, <2>2
<1> QED
  BY <1>2, <1>5, <1>6, <1>7, <1>8 DEF Next, Step

(* No order gets a second WZ, although createWzForOrder, the panel and the *)
(* confirmation of a document cancelled meanwhile may each be about to     *)
(* open one: whatever the code has read, the index decides when it writes. *)
THEOREM OneWzPerOrder == Spec => []OneOpenWz
<1>1. Init => DocumentsInv
  BY DocumentsInit
<1>2. DocumentsInv /\ [Next]_vars => DocumentsInv'
  BY DocumentsNext
<1>3. DocumentsInv => OneOpenWz
  BY DEF DocumentsInv
<1> QED
  BY <1>1, <1>2, <1>3, PTL DEF Spec
=============================================================================
