------------------------ MODULE WarehouseStockProofs ------------------------
(***************************************************************************)
(* What the warehouse keeps, for any number of requests: the types of its  *)
(* rows and of what a request carries from step to step, and that no step  *)
(* makes an order hold or be issued more than it needs while what its     *)
(* documents consume is still active.                                      *)
(***************************************************************************)
EXTENDS WarehouseLedgerProofs, SumFacts

AnyStep == {Idle} \cup PendingStep \cup TxSteps

(* What a step has read is a finite part of finite tables. *)
FiniteStep(x) ==
    /\ x.k = "apply" => IsFiniteSet(x.seen)
    /\ x.k = "wzTx" => IsFiniteSet(x.lines)
    /\ x.k = "syncTx" => IsFiniteSet(x.set) /\ IsFiniteSet(x.add)
    /\ x.k = "confirmTx" => IsFiniteSet(x.detached)
    /\ x.k = "cancelTx" => IsFiniteSet(x.seen)

RowsTyped ==
    /\ stock \in Int /\ wholesale \in BOOLEAN /\ budget \in 0..MaxRequests
    /\ order \in [Orders -> OrderStatuses]
    /\ res \in [ResIds -> ResRow]
    /\ doc \in [DocIds -> DocRow]
    /\ \A d \in DocIds : IsFiniteSet(doc[d].lines)

StepsTyped ==
    /\ lock \in [Orders -> Handlers \cup {None}]
    /\ at \in [Handlers -> AnyStep]
    /\ \A h \in Handlers : FiniteStep(at[h])
    /\ rest \in [Handlers -> Seq(PendingStep)]

-----------------------------------------------------------------------------
(* Steps and their fields *)

LEMMA ReservationFields ==
    ASSUME NEW x \in AnyStep
    PROVE  /\ x.k \in {"reserve", "reserveTx", "release", "finalize", "reserveAndWz", "zh"} =>
                x \in OrderSteps /\ x.o \in Orders
           /\ x.k = "apply" =>
                /\ x.o \in Orders /\ x.local \in Nat /\ x.back \in Nat /\ x.short \in BOOLEAN
                /\ x.seen \in SUBSET SeenRow
           /\ x.k = "wz" => x.o \in Orders /\ {x.force, x.draft, x.retry} \subseteq BOOLEAN
           /\ x.k = "collect" =>
                x.o \in Orders /\ {x.force, x.draft, x.retry, x.warn} \subseteq BOOLEAN
           /\ x.k = "wzTx" =>
                /\ x.o \in Orders /\ {x.force, x.draft, x.retry, x.warn} \subseteq BOOLEAN
                /\ x.lines \in SUBSET Line
                /\ x.unread \in SUBSET ResIds /\ x.consumed \in SUBSET ResIds
           /\ x.k = "zhCollect" => x.o \in Orders /\ x.found \in BOOLEAN
           /\ x.k = "zhTx" => x.o \in Orders /\ x.qty \in Nat
BY DEF AnyStep, Idle, PendingStep, OrderSteps, WzSteps, CollectSteps, DocSteps, ReallocSteps, TxSteps

LEMMA DocumentFields ==
    ASSUME NEW x \in AnyStep
    PROVE  /\ x.k \in {"sync", "confirm", "deleteTx", "dropOwnTx"} => x.d \in DocIds
           /\ x.k = "syncTx" =>
                /\ x.d \in DocIds /\ x.drop \in SUBSET ItemRef /\ x.set \in SUBSET Line
                /\ x.add \in SUBSET [res : ResIds, qty : Nat]
           /\ x.k = "confirmTx" =>
                /\ x.d \in DocIds /\ x.own \in Nat /\ x.sys \in Int
                /\ x.detached \in SUBSET Line
                /\ x.unread \in SUBSET ResIds /\ x.consumed \in SUBSET ResIds
                /\ x.cancelled \in SUBSET ResIds
           /\ x.k = "cancelTx" =>
                /\ x.d \in DocIds /\ x.st \in {"DRAFT", "CONFIRMED"}
                /\ x.own \in Nat /\ x.sys \in Int
                /\ x.unread \in SUBSET ResIds /\ x.seen \in SUBSET SeenRow
           /\ x.k = "addItemTx" => x.d \in DocIds /\ x.qty \in Nat /\ x.sys \in Int
           /\ x.k = "setItemTx" => x.d \in DocIds /\ x.qty \in Nat
           /\ x.k = "dropItemTx" => x.d \in DocIds /\ x.line \in ItemRef
           /\ x.k = "recalculateTx" => x.value \in Int
           /\ x.k = "pzTx" =>
                /\ x.d \in DocIds /\ x.st \in {"DRAFT", "CONFIRMED"}
                /\ x.qty \in Nat /\ x.draft \in BOOLEAN
           /\ x.k = "updateTx" =>
                /\ x.d \in DocIds /\ x.items \in BOOLEAN /\ x.order \in BOOLEAN
                /\ x.own \in Nat /\ x.sys \in Int /\ x.o \in Orders \cup {None}
           /\ x.k = "reallocOrders" =>
                x \in [k : {"reallocOrders"}, left : SUBSET Orders, all : SUBSET Orders]
           /\ x.k = "reallocDrafts" => x \in [k : {"reallocDrafts"}, left : SUBSET DocIds]
BY DEF AnyStep, Idle, PendingStep, OrderSteps, WzSteps, CollectSteps, DocSteps, ReallocSteps, TxSteps

-----------------------------------------------------------------------------
(* How a request moves on *)

Goes(h) ==
    /\ at' \in [Handlers -> AnyStep]
    /\ FiniteStep(at'[h]) /\ \A g \in Handlers \ {h} : at'[g] = at[g]
    /\ rest' \in [Handlers -> Seq(PendingStep)]

LEMMA PendingIsAny ==
    \A x \in {Idle} \cup PendingStep : x \in AnyStep /\ FiniteStep(x)
<1>1. \A x \in PendingStep : x.k \notin {"apply", "wzTx", "syncTx", "confirmTx", "cancelTx"}
  BY DEF PendingStep, OrderSteps, WzSteps, CollectSteps, DocSteps, ReallocSteps
<1> QED BY <1>1 DEF AnyStep, FiniteStep, Idle

LEMMA GotoGoes ==
    ASSUME StepsTyped, NEW h \in Handlers, NEW x \in AnyStep, FiniteStep(x), Goto(h, x)
    PROVE  Goes(h)
BY DEF StepsTyped, Goto, Goes

(* One more reservation is read. *)
LEMMA ReadingTyped ==
    ASSUME NEW x \in AnyStep, FiniteStep(x), NEW unread \in SUBSET ResIds, NEW found, NEW y,
           \/ /\ x.k \in {"wzTx", "confirmTx"} /\ found \in SUBSET ResIds
              /\ y = [x EXCEPT !.unread = unread, !.consumed = found]
           \/ /\ x.k = "cancelTx" /\ found \in SUBSET SeenRow /\ IsFiniteSet(found)
              /\ y = [x EXCEPT !.unread = unread, !.seen = found]
    PROVE  y \in AnyStep /\ FiniteStep(y)
<1>1. CASE x.k = "wzTx"
  <2>1. x \in [k : {"wzTx"}, o : Orders, force : BOOLEAN, draft : BOOLEAN, retry : BOOLEAN,
               warn : BOOLEAN, lines : SUBSET Line, unread : SUBSET ResIds,
               consumed : SUBSET ResIds]
    BY <1>1 DEF AnyStep, Idle, PendingStep, OrderSteps, WzSteps, CollectSteps, DocSteps,
                ReallocSteps, TxSteps
  <2>2. /\ y \in [k : {"wzTx"}, o : Orders, force : BOOLEAN, draft : BOOLEAN, retry : BOOLEAN,
                  warn : BOOLEAN, lines : SUBSET Line, unread : SUBSET ResIds,
                  consumed : SUBSET ResIds]
        /\ y.k = "wzTx" /\ y.lines = x.lines
    BY <1>1, <2>1
  <2> QED BY <1>1, <2>2 DEF AnyStep, TxSteps, FiniteStep
<1>2. CASE x.k = "confirmTx"
  <2>1. x \in [k : {"confirmTx"}, d : DocIds, own : Nat, sys : Int, detached : SUBSET Line,
               unread : SUBSET ResIds, consumed : SUBSET ResIds, cancelled : SUBSET ResIds]
    BY <1>2 DEF AnyStep, Idle, PendingStep, OrderSteps, WzSteps, CollectSteps, DocSteps,
                ReallocSteps, TxSteps
  <2>2. /\ y \in [k : {"confirmTx"}, d : DocIds, own : Nat, sys : Int, detached : SUBSET Line,
                  unread : SUBSET ResIds, consumed : SUBSET ResIds, cancelled : SUBSET ResIds]
        /\ y.k = "confirmTx" /\ y.detached = x.detached
    BY <1>2, <2>1
  <2> QED BY <1>2, <2>2 DEF AnyStep, TxSteps, FiniteStep
<1>3. CASE x.k = "cancelTx"
  <2>1. x \in [k : {"cancelTx"}, d : DocIds, st : {"DRAFT", "CONFIRMED"}, own : Nat, sys : Int,
               unread : SUBSET ResIds, seen : SUBSET SeenRow]
    BY <1>3 DEF AnyStep, Idle, PendingStep, OrderSteps, WzSteps, CollectSteps, DocSteps,
                ReallocSteps, TxSteps
  <2>2. /\ y \in [k : {"cancelTx"}, d : DocIds, st : {"DRAFT", "CONFIRMED"}, own : Nat, sys : Int,
                  unread : SUBSET ResIds, seen : SUBSET SeenRow]
        /\ y.k = "cancelTx" /\ y.seen = found
    BY <1>3, <2>1
  <2> QED BY <1>3, <2>2 DEF AnyStep, TxSteps, FiniteStep
<1> QED BY <1>1, <1>2, <1>3

LEMMA CallGoes ==
    ASSUME StepsTyped, NEW h \in Handlers, NEW x \in PendingStep,
           NEW after \in Seq(PendingStep), Call(h, x, after)
    PROVE  Goes(h)
<1>1. x \in AnyStep /\ FiniteStep(x)
  BY PendingIsAny
<1>2. rest[h] \in Seq(PendingStep) /\ after \o rest[h] \in Seq(PendingStep)
  BY DEF StepsTyped
<1>3. rest' = [rest EXCEPT ![h] = after \o rest[h]]
  BY DEF Call, StepsTyped
<1>4. at' \in [Handlers -> AnyStep] /\ at'[h] = x /\ \A g \in Handlers \ {h} : at'[g] = at[g]
  BY <1>1 DEF Call, StepsTyped
<1>5. rest' \in [Handlers -> Seq(PendingStep)]
  BY <1>2, <1>3 DEF StepsTyped
<1> QED BY <1>1, <1>4, <1>5 DEF Goes

LEMMA ThrowGoes ==
    ASSUME StepsTyped, NEW h \in Handlers, Throw(h)
    PROVE  Goes(h)
<1>1. Idle \in AnyStep /\ FiniteStep(Idle)
  BY PendingIsAny
<1> QED BY <1>1 DEF StepsTyped, Throw, Goes

LEMMA ReadsGo ==
    ASSUME RowsTyped, StepsTyped, NEW h \in Handlers,
           \/ at[h].k \in {"wzTx", "confirmTx"} /\ ReadConsumed(h)
           \/ at[h].k = "cancelTx" /\ ReadReleased(h)
    PROVE  Goes(h)
<1>1. at[h] \in AnyStep /\ FiniteStep(at[h])
  BY DEF StepsTyped
<1>2. at[h].unread \in SUBSET ResIds
  BY <1>1, ReservationFields, DocumentFields
<1>3. CASE Throw(h)
  BY <1>3, ThrowGoes
<1>4. CASE at[h].k \in {"wzTx", "confirmTx"} /\ ~Throw(h)
  <2>1. PICK r \in at[h].unread :
          Goto(h, [at[h] EXCEPT !.unread = at[h].unread \ {r},
                     !.consumed = IF res[r].st = "ACTIVE" THEN at[h].consumed \cup {r}
                                  ELSE at[h].consumed])
    BY <1>4 DEF ReadConsumed
  <2>2. PICK found : found = IF res[r].st = "ACTIVE" THEN at[h].consumed \cup {r}
                             ELSE at[h].consumed
    OBVIOUS
  <2>3. PICK y : y = [at[h] EXCEPT !.unread = at[h].unread \ {r}, !.consumed = found]
    OBVIOUS
  <2>4. found \in SUBSET ResIds /\ at[h].unread \ {r} \in SUBSET ResIds
    BY <1>1, <1>2, <1>4, <2>2, ReservationFields, DocumentFields
  <2>5. y \in AnyStep /\ FiniteStep(y)
    BY <1>1, <1>4, <2>3, <2>4, ReadingTyped
  <2>6. Goto(h, y)
    BY <2>1, <2>2, <2>3
  <2> QED BY <2>5, <2>6, GotoGoes
<1>5. CASE at[h].k = "cancelTx"
  <2>1. PICK r \in at[h].unread :
          Goto(h, [at[h] EXCEPT !.unread = at[h].unread \ {r},
                     !.seen = IF Holding(r)
                              THEN at[h].seen \cup {[r |-> r, src |-> res[r].src, qty |-> res[r].qty]}
                              ELSE at[h].seen])
    BY <1>5 DEF ReadReleased
  <2>2. PICK row : row = [r |-> r, src |-> res[r].src, qty |-> res[r].qty]
    OBVIOUS
  <2>3. PICK found : found = IF Holding(r) THEN at[h].seen \cup {row} ELSE at[h].seen
    OBVIOUS
  <2>4. row \in SeenRow /\ at[h].unread \ {r} \in SUBSET ResIds
    BY <1>2, <2>2 DEF RowsTyped, ResRow, SeenRow
  <2>5. at[h].seen \in SUBSET SeenRow /\ IsFiniteSet(at[h].seen)
    BY <1>1, <1>5, DocumentFields DEF FiniteStep
  <2>6. found \in SUBSET SeenRow /\ IsFiniteSet(found)
    BY <2>3, <2>4, <2>5, FS_AddElement
  <2>7. PICK y : y = [at[h] EXCEPT !.unread = at[h].unread \ {r}, !.seen = found]
    OBVIOUS
  <2>8. y \in AnyStep /\ FiniteStep(y)
    BY <1>1, <1>5, <2>4, <2>6, <2>7, ReadingTyped
  <2>9. Goto(h, y)
    BY <2>1, <2>2, <2>3, <2>7
  <2> QED BY <2>8, <2>9, GotoGoes
<1> QED BY <1>3, <1>4, <1>5

(* The step a request takes up again. *)
LEMMA NextQueued ==
    ASSUME StepsTyped, NEW h \in Handlers, rest[h] # <<>>
    PROVE  Head(rest[h]) \in PendingStep /\ Tail(rest[h]) \in Seq(PendingStep)
BY DEF StepsTyped

LEMMA ReturnGoes ==
    ASSUME StepsTyped, NEW h \in Handlers, Return(h)
    PROVE  Goes(h)
<1>1. CASE rest[h] = <<>>
  <2>1. Idle \in AnyStep /\ FiniteStep(Idle)
    BY PendingIsAny
  <2>2. at' = [at EXCEPT ![h] = Idle] /\ rest' = rest
    BY <1>1 DEF Return, StepsTyped
  <2> QED BY <2>1, <2>2 DEF StepsTyped, Goes
<1>2. CASE rest[h] # <<>>
  <2> DEFINE x == Head(rest[h])
             queue == Tail(rest[h])
  <2>1. x \in PendingStep /\ queue \in Seq(PendingStep)
    BY <1>2, NextQueued
  <2>2. at' = [at EXCEPT ![h] = x] /\ rest' = [rest EXCEPT ![h] = queue]
    BY <1>2 DEF Return, StepsTyped
  <2> HIDE DEF x, queue
  <2>3. x \in AnyStep /\ FiniteStep(x)
    BY <2>1, PendingIsAny
  <2> QED BY <2>1, <2>2, <2>3 DEF StepsTyped, Goes
<1> QED BY <1>1, <1>2

LEMMA GoesTyped ==
    ASSUME StepsTyped, NEW h \in Handlers, Goes(h), lock' \in [Orders -> Handlers \cup {None}]
    PROVE  StepsTyped'
BY DEF StepsTyped, Goes

-----------------------------------------------------------------------------
(* Quantities *)

LEMMA MinOfTwo ==
    ASSUME NEW a \in Int, NEW b \in Int
    PROVE  Min({a, b}) = IF a <= b THEN a ELSE b
BY DEF Min

LEMMA MaxOfTwo ==
    ASSUME NEW a \in Int, NEW b \in Int
    PROVE  Max({a, b}) = IF a >= b THEN a ELSE b
BY DEF Max

(* A finite set of naturals has a greatest element. *)
LEMMA GreatestNatural ==
    ASSUME NEW S \in SUBSET Nat, IsFiniteSet(S), S # {}
    PROVE  \E m \in S : \A n \in S : m >= n
<1> DEFINE Bad == {s \in SUBSET S : s # {} /\ ~\E m \in s : \A n \in s : m >= n}
<1>1. Bad = {}
  <2>1. SUFFICES ASSUME Bad # {} PROVE FALSE OBVIOUS
  <2>2. PICK s \in Bad : \A t \in SUBSET s : t # s => t \notin Bad
    <3>1. Bad \in SUBSET (SUBSET S) OBVIOUS
    <3> HIDE DEF Bad
    <3> QED BY <2>1, <3>1, SmallestSubset
  <2>3. PICK p \in s : TRUE
    OBVIOUS
  <2>4. s \ {p} = {} \/ \E m \in s \ {p} : \A n \in s \ {p} : m >= n
    BY <2>2, <2>3
  <2> QED BY <2>3, <2>4
<1> QED BY <1>1

LEMMA GreatestIsMax ==
    ASSUME NEW S \in SUBSET Nat, IsFiniteSet(S), S # {}
    PROVE  Max(S) \in S /\ \A n \in S : Max(S) >= n
BY GreatestNatural DEF Max

LEMMA SumQtyNat ==
    ASSUME NEW S, IsFiniteSet(S), \A x \in S : x.qty \in Nat
    PROVE  SumQty(S) \in Nat
<1> DEFINE f == [x \in S |-> x.qty]
<1>1. \A x \in S : f[x] \in Nat
  OBVIOUS
<1>2. DOMAIN f = S
  OBVIOUS
<1>3. SumQty(S) = SumFunctionOnSet(f, S)
  BY <1>2 DEF SumQty, SumFunction
<1> HIDE DEF f
<1> QED BY <1>1, <1>3, SumNatural

LEMMA SumQtyNone == SumQty({}) = 0
BY SumEmpty DEF SumQty, SumFunction

LEMMA SumQtyOne ==
    ASSUME NEW x, x.qty \in Int
    PROVE  SumQty({x}) = x.qty
<1> DEFINE f == [y \in {x} |-> y.qty]
<1>1. SumQty({x}) = SumFunctionOnSet(f, {x})
  BY DEF SumQty, SumFunction
<1>2. f[x] = x.qty /\ \A y \in {x} : f[y] \in Int
  OBVIOUS
<1>3. IsFiniteSet({x}) /\ {x} \ {x} = {}
  BY FS_Singleton
<1> HIDE DEF f
<1>4. SumFunctionOnSet(f, {x}) = f[x] + SumFunctionOnSet(f, {})
  BY <1>2, <1>3, SumRemove
<1> QED BY <1>1, <1>2, <1>4, SumEmpty

LEMMA SumResNat ==
    ASSUME RowsTyped, NEW R \in SUBSET ResIds
    PROVE  IsFiniteSet(R) /\ SumRes(R) \in Nat
<1> DEFINE f == [r \in R |-> res[r].qty]
<1>1. IsFiniteSet(R)
  BY IdsAssumption, FS_Subset
<1>2. \A r \in R : f[r] \in Nat
  BY DEF RowsTyped, ResRow
<1>3. SumRes(R) = SumFunctionOnSet(f, R)
  BY DEF SumRes, SumFunction
<1> HIDE DEF f
<1> QED BY <1>1, <1>2, <1>3, SumNatural

-----------------------------------------------------------------------------
(* What a reservation transaction reads and plans *)

LEMMA SeenTyped ==
    ASSUME RowsTyped, NEW o
    PROVE  /\ SeenActive(o) \in SUBSET SeenRow
           /\ IsFiniteSet(SeenActive(o))
<1> DEFINE f == [r \in ResIds |-> [r |-> r, src |-> res[r].src, qty |-> res[r].qty]]
<1>1. Active(o) \in SUBSET ResIds
  BY DEF Active
<1>2. \A r \in Active(o) : f[r] \in SeenRow
  BY <1>1 DEF RowsTyped, ResRow, SeenRow
<1>3. SeenActive(o) = {f[r] : r \in Active(o)}
  BY <1>1 DEF SeenActive
<1> HIDE DEF f
<1>4. IsFiniteSet(Active(o))
  BY <1>1, SumResNat
<1>5. IsFiniteSet({f[r] : r \in Active(o)})
  BY <1>4, ImageIsFinite
<1> QED BY <1>2, <1>3, <1>5

LEMMA SeenQtyNat ==
    ASSUME NEW seen \in SUBSET SeenRow, IsFiniteSet(seen), NEW src
    PROVE  SeenQty(seen, src) \in Nat
<1>1. IsFiniteSet({s \in seen : s.src = src})
  BY FS_Subset
<1>2. \A s \in {s \in seen : s.src = src} : s.qty \in Nat
  BY DEF SeenRow
<1> QED BY <1>1, <1>2, SumQtyNat DEF SeenQty

LEMMA UnlinkedNat == ASSUME RowsTyped, NEW o PROVE Unlinked(o) \in Nat
<1> DEFINE D == OpenWz(o) \cap ConfirmedDocs
           f == [d \in D |-> doc[d].own]
<1>1. D \in SUBSET DocIds /\ IsFiniteSet(D)
  BY IdsAssumption, FS_Subset DEF ConfirmedDocs
<1>2. \A d \in D : f[d] \in Nat
  BY <1>1 DEF RowsTyped, DocRow
<1>3. Unlinked(o) = SumFunctionOnSet(f, D)
  BY DEF Unlinked, SumFunction
<1> HIDE DEF f, D
<1> QED BY <1>1, <1>2, <1>3, SumNatural

(* What was issued counts the consumed reservations. *)
LEMMA IssuedCounts ==
    ASSUME RowsTyped, NEW o \in Orders
    PROVE  /\ IssuedQty(o) \in Nat /\ SumRes(Consumed(o)) \in Nat
           /\ IssuedQty(o) >= SumRes(Consumed(o))
           /\ Need[o] \in Nat
<1>1. SumRes(Consumed(o)) \in Nat
  <2>1. Consumed(o) \in SUBSET ResIds BY DEF Consumed
  <2> QED BY <2>1, SumResNat
<1>2. Unlinked(o) \in Nat /\ Need[o] \in Nat
  BY UnlinkedNat, DataAssumption
<1> QED BY <1>1, <1>2, MinOfTwo DEF IssuedQty

(* planReservationSplit: what is held is no more than what is wanted, and  *)
(* from the shelf no more than what is there.                              *)
NoNegative == ~AllowNegative
PlanFits(plan, target, exLocal) ==
    /\ plan.local \in Nat /\ plan.back \in Nat /\ plan.short \in BOOLEAN
    /\ plan.local = 0 \/ plan.back = 0
    /\ plan.local <= target /\ plan.back <= target
    /\ NoNegative /\ stock >= 0 => stock - plan.local + exLocal >= 0

LEMMA PlanSplitFits ==
    ASSUME stock \in Int, wholesale \in BOOLEAN,
           NEW target \in Nat, NEW exLocal \in Nat, NEW exBack \in Nat,
           NEW plan, plan = PlanSplit(target, exLocal, exBack)
    PROVE  PlanFits(plan, target, exLocal)
<1> DEFINE available == Max({stock, 0})
           local == Min({target, exLocal + available})
<1>1. available = IF stock >= 0 THEN stock ELSE 0
  BY MaxOfTwo
<1>2. local \in Nat /\ local <= target /\ local <= exLocal + available
  <2>1. exLocal + available \in Nat BY <1>1
  <2> HIDE DEF available
  <2> QED BY <2>1, MinOfTwo
<1>3. \/ plan = Split(target, 0, FALSE) /\ (~NoNegative \/ available >= target)
      \/ plan = Split(0, target, ~wholesale)
      \/ plan = Split(local, 0, ~wholesale /\ local < target)
      \/ plan = Split(0, target, FALSE)
  BY Zenon DEF PlanSplit, NoNegative
<1>4. PICK l \in Nat : l = local
  BY <1>2
<1>5. (~wholesale) \in BOOLEAN /\ (~wholesale /\ local < target) \in BOOLEAN
  OBVIOUS
<1> HIDE DEF local, available
<1>6. CASE plan = Split(target, 0, FALSE) /\ (~NoNegative \/ available >= target)
  <2>1. plan.local = target /\ plan.back = 0 /\ plan.short \in BOOLEAN
    BY <1>6 DEF Split
  <2>2. available >= target => stock < 0 \/ stock - target + exLocal >= 0
    BY <1>1
  <2>3. CASE NoNegative
    <3>1. available >= target
      BY <1>6, <2>3, Zenon
    <3> QED BY <2>1, <2>2, <3>1 DEF PlanFits
  <2>4. CASE ~NoNegative
    BY <2>1, <2>4 DEF PlanFits
  <2> QED BY <2>3, <2>4
<1>7. CASE plan = Split(0, target, ~wholesale) \/ plan = Split(0, target, FALSE)
  <2>1. plan.local = 0 /\ plan.back = target /\ plan.short \in BOOLEAN
    <3>1. CASE plan = Split(0, target, ~wholesale)
      BY <1>5, <3>1 DEF Split
    <3>2. CASE plan = Split(0, target, FALSE)
      BY <3>2 DEF Split
    <3> QED BY <1>7, <3>1, <3>2
  <2> QED BY <2>1 DEF PlanFits
<1>8. CASE plan = Split(local, 0, ~wholesale /\ local < target)
  <2>1. plan.local = l /\ plan.back = 0 /\ plan.short \in BOOLEAN
    BY <1>4, <1>5, <1>8 DEF Split
  <2>2. stock >= 0 => stock - l + exLocal >= 0
    <3>1. l <= target /\ l <= exLocal + available
      BY <1>2, <1>4
    <3> QED BY <1>1, <3>1
  <2> QED BY <1>2, <1>4, <2>1, <2>2 DEF PlanFits
<1> QED BY <1>3, <1>6, <1>7, <1>8

(* What a reservation transaction decides to hold for an order. *)
Planned(o, plan) ==
    /\ plan.local \in Nat /\ plan.back \in Nat /\ plan.short \in BOOLEAN
    /\ plan.local = 0 \/ plan.back = 0
    /\ plan.local + plan.back = 0 \/ plan.local + plan.back + SumRes(Consumed(o)) <= Need[o]
    /\ NoNegative /\ stock >= 0 => stock - plan.local + SeenQty(SeenActive(o), "LOCAL_STOCK") >= 0

LEMMA NothingIsPlanned ==
    ASSUME RowsTyped, NEW o
    PROVE  Planned(o, NothingHeld)
<1>1. SeenQty(SeenActive(o), "LOCAL_STOCK") \in Nat
  BY SeenTyped, SeenQtyNat
<1> DEFINE plan == NothingHeld
<1>2. plan.local = 0 /\ plan.back = 0 /\ plan.short \in BOOLEAN
  BY DEF NothingHeld, Split
<1> HIDE DEF plan
<1>3. Planned(o, plan)
  BY <1>1, <1>2 DEF Planned, RowsTyped
<1> QED BY <1>3 DEF plan

LEMMA TargetIsPlanned ==
    ASSUME RowsTyped, NEW o \in Orders, NEW target, target = Need[o] - IssuedQty(o), ~(target <= 0),
           NEW plan, plan = PlanSplit(target, SeenQty(SeenActive(o), "LOCAL_STOCK"),
                                      SeenQty(SeenActive(o), "WHOLESALE_BACKORDER"))
    PROVE  Planned(o, plan)
<1> DEFINE exLocal == SeenQty(SeenActive(o), "LOCAL_STOCK")
           exBack == SeenQty(SeenActive(o), "WHOLESALE_BACKORDER")
<1>1. exLocal \in Nat /\ exBack \in Nat
  BY SeenTyped, SeenQtyNat
<1>2. target \in Nat /\ target + SumRes(Consumed(o)) <= Need[o]
  BY IssuedCounts
<1>3. plan = PlanSplit(target, exLocal, exBack)
  OBVIOUS
<1> HIDE DEF exLocal, exBack
<1>4. PlanFits(plan, target, exLocal)
  BY <1>1, <1>2, <1>3, PlanSplitFits DEF RowsTyped
<1>5. SumRes(Consumed(o)) \in Nat /\ Need[o] \in Nat
  BY IssuedCounts
<1>6. plan.local + plan.back + SumRes(Consumed(o)) <= Need[o]
  BY <1>2, <1>4, <1>5 DEF PlanFits
<1> QED BY <1>1, <1>4, <1>6 DEF Planned, PlanFits, exLocal

LEMMA ReservationPlanned ==
    ASSUME RowsTyped, StepsTyped, NEW h \in Handlers, ReserveTx(h) \/ ReleaseTx(h)
    PROVE  /\ at[h].o \in Orders
           /\ \E plan : /\ Planned(at[h].o, plan)
                        /\ ReleaseTx(h) => plan = NothingHeld
                        /\ Goto(h, ApplyStep(at[h].o, SeenActive(at[h].o), plan))
<1> DEFINE o == at[h].o
<1>1. o \in Orders
  BY ReservationFields DEF StepsTyped, ReserveTx, ReleaseTx
<1>2. CASE ReleaseTx(h)
  BY <1>1, <1>2, NothingIsPlanned DEF ReleaseTx
<1>3. CASE ReserveTx(h)
  <2> DEFINE target == Need[o] - IssuedQty(o)
             split == PlanSplit(target, SeenQty(SeenActive(o), "LOCAL_STOCK"),
                                    SeenQty(SeenActive(o), "WHOLESALE_BACKORDER"))
             plan == IF target <= 0 THEN NothingHeld ELSE split
  <2>1. Goto(h, ApplyStep(o, SeenActive(o), plan))
    BY <1>3 DEF ReserveTx
  <2>2. Planned(o, plan)
    <3>1. CASE target <= 0
      BY <3>1, NothingIsPlanned
    <3>2. CASE ~(target <= 0)
      <4>1. Planned(o, split)
        BY <1>1, <3>2, TargetIsPlanned
      <4> QED BY <3>2, <4>1
    <3> QED BY <3>1, <3>2
  <2>3. at[h].k # "release"
    BY <1>3 DEF ReserveTx
  <2> HIDE DEF plan
  <2> QED BY <1>1, <2>1, <2>2, <2>3 DEF ReleaseTx
<1> QED BY <1>2, <1>3

-----------------------------------------------------------------------------
(* Every request moves on to a step of its type *)

LEMMA ReservationsGo ==
    ASSUME RowsTyped, StepsTyped, NEW h \in Handlers,
           Reserve(h) \/ ReserveTx(h) \/ ReleaseTx(h) \/ Apply(h) \/ ReserveAndWz(h)
    PROVE  Goes(h) /\ lock' \in [Orders -> Handlers \cup {None}]
<1>1. at[h] \in AnyStep /\ lock \in [Orders -> Handlers \cup {None}]
  BY DEF StepsTyped
<1>2. CASE Reserve(h)
  <2>1. at[h].o \in Orders /\ lock' = lock
    BY <1>1, <1>2, ReservationFields DEF Reserve
  <2>2. [k |-> "reserveTx", o |-> at[h].o] \in PendingStep
    BY <2>1, PendingSteps
  <2>3. Goto(h, [k |-> "reserveTx", o |-> at[h].o]) \/ Return(h)
    BY <1>2 DEF Reserve
  <2> QED BY <1>1, <2>1, <2>2, <2>3, PendingIsAny, GotoGoes, ReturnGoes
<1>3. CASE ReserveTx(h) \/ ReleaseTx(h)
  <2>1. PICK plan : Planned(at[h].o, plan) /\ Goto(h, ApplyStep(at[h].o, SeenActive(at[h].o), plan))
    BY <1>3, ReservationPlanned
  <2>2. at[h].o \in Orders
    BY <1>3, ReservationPlanned
  <2> DEFINE step == ApplyStep(at[h].o, SeenActive(at[h].o), plan)
  <2>3. step \in TxSteps /\ step.k = "apply" /\ step.seen = SeenActive(at[h].o)
    BY <2>1, <2>2, SeenTyped DEF ApplyStep, TxSteps, Planned
  <2> HIDE DEF step
  <2>4. step \in AnyStep /\ FiniteStep(step)
    BY <2>3, SeenTyped DEF AnyStep, FiniteStep
  <2>5. lock' = [lock EXCEPT ![at[h].o] = h]
    BY <1>3 DEF ReserveTx, ReleaseTx
  <2>6. Goes(h)
    BY <2>1, <2>4, GotoGoes DEF step
  <2> QED BY <1>1, <2>5, <2>6
<1>4. CASE Apply(h)
  <2>1. at[h].o \in Orders /\ at[h].short \in BOOLEAN
    BY <1>1, <1>4, ReservationFields DEF Apply
  <2>2. lock' \in [Orders -> Handlers \cup {None}]
    BY <1>1, <1>4 DEF Apply, Unlock
  <2>3. CASE ReturnResult(h) /\ rest[h] # <<>> /\ Head(rest[h]).k = "collect"
    <3> DEFINE x == [Head(rest[h]) EXCEPT !.warn = at[h].short]
    <3>1. Head(rest[h]) \in PendingStep /\ Tail(rest[h]) \in Seq(PendingStep)
      BY <2>3, NextQueued
    <3>2. Head(rest[h]) \in CollectSteps
      BY <2>3, <3>1 DEF PendingStep, OrderSteps, WzSteps, DocSteps, ReallocSteps
    <3>3. x \in PendingStep
      BY <2>1, <3>2 DEF CollectSteps, PendingStep
    <3>4. at' = [at EXCEPT ![h] = x] /\ rest' = [rest EXCEPT ![h] = Tail(rest[h])]
      BY <2>3 DEF ReturnResult, StepsTyped
    <3> HIDE DEF x
    <3>5. x \in AnyStep /\ FiniteStep(x)
      BY <3>3, PendingIsAny
    <3> QED BY <2>2, <3>1, <3>4, <3>5 DEF Goes, StepsTyped
  <2>4. CASE ReturnResult(h) /\ ~(rest[h] # <<>> /\ Head(rest[h]).k = "collect")
    BY <2>2, <2>4, ReturnGoes DEF ReturnResult
  <2>5. CASE Throw(h)
    BY <2>2, <2>5, ThrowGoes
  <2> QED BY <1>4, <2>3, <2>4, <2>5 DEF Apply
<1>5. CASE ReserveAndWz(h)
  <2>1. at[h].o \in Orders /\ lock' = lock
    BY <1>1, <1>5, ReservationFields DEF ReserveAndWz
  <2>2. /\ ReserveStep(at[h].o) \in PendingStep
        /\ WzStep(at[h].o, FALSE, FALSE, FALSE) \in PendingStep
    BY <2>1, PendingSteps, Zenon
  <2>3. <<WzStep(at[h].o, FALSE, FALSE, FALSE)>> \in Seq(PendingStep)
    BY <2>2, OneStep, Zenon
  <2> QED BY <1>1, <1>5, <2>1, <2>2, <2>3, CallGoes DEF ReserveAndWz
<1> QED BY <1>2, <1>3, <1>4, <1>5

LEMMA WzLinesTyped ==
    ASSUME RowsTyped, NEW t, t.o \in Orders, {t.force, t.draft, t.retry} \subseteq BOOLEAN,
           NEW warn \in BOOLEAN
    PROVE  WzTxStep(t, warn) \in AnyStep /\ FiniteStep(WzTxStep(t, warn))
<1> DEFINE f == [r \in ResIds |-> [n |-> 1, res |-> r, qty |-> res[r].qty]]
           step == WzTxStep(t, warn)
<1>1. ActiveLocal(t.o) \in SUBSET ResIds /\ IsFiniteSet(ActiveLocal(t.o))
  <2>1. ActiveLocal(t.o) \in SUBSET ResIds BY DEF ActiveLocal, Active
  <2> QED BY <2>1, SumResNat
<1>2. \A r \in ResIds : f[r] \in Line
  BY DEF RowsTyped, ResRow, Line
<1>3. step.lines = {f[r] : r \in ActiveLocal(t.o)} /\ step.k = "wzTx"
  BY <1>1 DEF WzTxStep
<1>4. step = [k |-> "wzTx", o |-> t.o, force |-> t.force, draft |-> t.draft,
              retry |-> t.retry, warn |-> warn, lines |-> step.lines,
              unread |-> ActiveLocal(t.o), consumed |-> {}]
  BY DEF WzTxStep
<1> HIDE DEF f, step
<1>5. step.lines \in SUBSET Line /\ IsFiniteSet(step.lines)
  BY <1>1, <1>2, <1>3, ImageIsFinite
<1>6. step \in TxSteps
  BY <1>1, <1>4, <1>5 DEF TxSteps
<1>7. step \in AnyStep /\ FiniteStep(step)
  BY <1>3, <1>5, <1>6 DEF AnyStep, FiniteStep
<1> QED BY <1>7 DEF step

LEMMA SyncEditTyped ==
    ASSUME RowsTyped, NEW d \in DocIds
    PROVE  SyncEdit(d) \in AnyStep /\ FiniteStep(SyncEdit(d))
<1> DEFINE active == ActiveLocal(doc[d].o)
           linked == {l.res : l \in doc[d].lines} \cap active
           missing == active \ linked
           dropped == {l \in doc[d].lines :
                      /\ l.res \notin active
                      /\ \/ res[l.res].st = "ACTIVE" /\ res[l.res].src = "WHOLESALE_BACKORDER"
                         \/ /\ res[l.res].st # "CONSUMED" /\ res[l.res].o = doc[d].o
                            /\ missing # {}}
           stale == {l \in doc[d].lines : l.res \in active /\ l.qty # res[l.res].qty}
           f == [l \in doc[d].lines |-> [n |-> l.n, res |-> l.res, qty |-> res[l.res].qty]]
           g == [r \in ResIds |-> [res |-> r, qty |-> res[r].qty]]
           step == SyncEdit(d)
<1>1. /\ doc[d].lines \in SUBSET Line /\ IsFiniteSet(doc[d].lines)
      /\ \A r \in ResIds : res[r].qty \in Nat
  BY DEF RowsTyped, DocRow, ResRow
<1>2. missing \in SUBSET ResIds /\ IsFiniteSet(missing) /\ IsFiniteSet(stale)
  <2>1. missing \in SUBSET ResIds BY DEF ActiveLocal, Active
  <2>2. stale \in SUBSET doc[d].lines OBVIOUS
  <2> QED BY <1>1, <2>1, <2>2, SumResNat, FS_Subset
<1>3. /\ step.k = "syncTx" /\ step.d = d
      /\ step.drop = {[n |-> l.n, res |-> l.res] : l \in dropped}
      /\ step.set = {f[l] : l \in stale} /\ step.add = {g[r] : r \in missing}
      /\ step = [k |-> "syncTx", d |-> d, drop |-> step.drop, set |-> step.set, add |-> step.add]
  <2>1. step.set = {f[l] : l \in stale}
    BY DEF SyncEdit
  <2>2. step.add = {g[r] : r \in missing}
    BY <1>2 DEF SyncEdit
  <2> QED BY <2>1, <2>2 DEF SyncEdit
<1>4. /\ \A l \in Line : [n |-> l.n, res |-> l.res] \in ItemRef
      /\ \A l \in doc[d].lines : f[l] \in Line
      /\ \A r \in ResIds : g[r] \in [res : ResIds, qty : Nat]
  BY <1>1 DEF Line, ItemRef
<1>5. dropped \in SUBSET Line /\ stale \in SUBSET doc[d].lines
  BY <1>1
<1> HIDE DEF f, g, step, dropped, stale, missing
<1>6. /\ step.drop \in SUBSET ItemRef
      /\ step.set \in SUBSET Line
      /\ step.add \in SUBSET [res : ResIds, qty : Nat]
  BY <1>2, <1>3, <1>4, <1>5
<1>7. IsFiniteSet(step.set) /\ IsFiniteSet(step.add)
  BY <1>2, <1>3, ImageIsFinite
<1>8. step \in TxSteps
  <2>1. step \in [k : {"syncTx"}, d : DocIds, drop : SUBSET ItemRef, set : SUBSET Line,
                  add : SUBSET [res : ResIds, qty : Nat]]
    BY <1>3, <1>6
  <2> QED BY <2>1 DEF TxSteps
<1>9. step \in AnyStep /\ FiniteStep(step)
  BY <1>3, <1>7, <1>8 DEF AnyStep, FiniteStep
<1> QED BY <1>9 DEF step

LEMMA WzGoes ==
    ASSUME RowsTyped, StepsTyped, NEW h \in Handlers,
           Wz(h) \/ Collect(h) \/ WzTx(h) \/ Sync(h) \/ SyncTx(h) \/ Finalize(h)
    PROVE  Goes(h) /\ lock' = lock
<1>1. at[h] \in AnyStep /\ lock' = lock
  BY DEF StepsTyped, Wz, Collect, WzTx, Sync, SyncTx, Finalize
<1>2. CASE Wz(h)
  <2>1. at[h].k = "wz" /\ at[h].o \in Orders /\ {at[h].force, at[h].draft, at[h].retry} \subseteq BOOLEAN
    BY <1>1, <1>2, ReservationFields DEF Wz
  <2>2. CASE Call(h, ReserveStep(at[h].o), <<CollectStep(at[h])>>)
    <3>1. ReserveStep(at[h].o) \in PendingStep
      BY <2>1, PendingSteps
    <3>2. CollectStep(at[h]) \in PendingStep
      BY <2>1 DEF CollectStep, CollectSteps, PendingStep
    <3>3. <<CollectStep(at[h])>> \in Seq(PendingStep)
      BY <3>2, OneStep
    <3> QED BY <1>1, <2>2, <3>1, <3>3, CallGoes
  <2>3. CASE Goto(h, WzTxStep(at[h], FALSE))
    <3>1. FALSE \in BOOLEAN OBVIOUS
    <3>2. WzTxStep(at[h], FALSE) \in AnyStep /\ FiniteStep(WzTxStep(at[h], FALSE))
      BY <2>1, <3>1, WzLinesTyped, Zenon
    <3> QED BY <1>1, <2>3, <3>2, GotoGoes, Zenon
  <2>4. CASE Return(h)
    BY <1>1, <2>4, ReturnGoes
  <2>5. CASE \E d \in DocIds : \/ Call(h, SyncStep(d), <<>>)
                               \/ Call(h, SyncStep(d), <<ConfirmStep(d)>>)
    <3>1. PICK d \in DocIds : \/ Call(h, SyncStep(d), <<>>)
                              \/ Call(h, SyncStep(d), <<ConfirmStep(d)>>)
      BY <2>5
    <3>2. SyncStep(d) \in PendingStep /\ ConfirmStep(d) \in PendingStep
      BY PendingSteps
    <3>3. <<>> \in Seq(PendingStep) /\ <<ConfirmStep(d)>> \in Seq(PendingStep)
      BY <3>2
    <3> QED BY <1>1, <3>1, <3>2, <3>3, CallGoes
  <2>6. \A d \in OpenWz(at[h].o) : d \in DocIds
    BY DEF OpenWz
  <2> QED BY <1>2, <2>2, <2>3, <2>4, <2>5, <2>6, Zenon DEF Wz
<1>3. CASE Collect(h)
  <2>1. /\ at[h].k = "collect" /\ at[h].o \in Orders
        /\ {at[h].force, at[h].draft, at[h].retry} \subseteq BOOLEAN /\ at[h].warn \in BOOLEAN
    BY <1>1, <1>3, ReservationFields DEF Collect
  <2>2. WzTxStep(at[h], at[h].warn) \in AnyStep /\ FiniteStep(WzTxStep(at[h], at[h].warn))
    BY <2>1, WzLinesTyped, Zenon
  <2> QED BY <1>1, <1>3, <2>2, ReturnGoes, GotoGoes, Zenon DEF Collect
<1>4. CASE WzTx(h)
  <2>1. /\ at[h].k = "wzTx" /\ at[h].o \in Orders
        /\ at[h].force \in BOOLEAN /\ at[h].draft \in BOOLEAN /\ TRUE \in BOOLEAN
    BY <1>1, <1>4, ReservationFields DEF WzTx
  <2>2. WzStep(at[h].o, at[h].force, at[h].draft, TRUE) \in PendingStep
    BY <2>1, PendingSteps, Zenon
  <2>3. CASE Goto(h, WzStep(at[h].o, at[h].force, at[h].draft, TRUE))
    BY <1>1, <2>2, <2>3, GotoGoes, PendingIsAny, Zenon
  <2>4. CASE Throw(h) \/ Return(h)
    BY <1>1, <2>4, ThrowGoes, ReturnGoes
  <2>5. CASE ReadConsumed(h)
    BY <1>1, <2>1, <2>5, ReadsGo
  <2> QED BY <1>1, <1>4, <2>3, <2>4, <2>5, Zenon DEF WzTx
<1>5. CASE Sync(h)
  <2>1. at[h].d \in DocIds
    BY <1>1, <1>5, DocumentFields DEF Sync
  <2>2. SyncEdit(at[h].d) \in AnyStep /\ FiniteStep(SyncEdit(at[h].d))
    BY <2>1, SyncEditTyped
  <2>3. Return(h) \/ Goto(h, SyncEdit(at[h].d))
    BY <1>5 DEF Sync
  <2> QED BY <1>1, <2>2, <2>3, ReturnGoes, GotoGoes
<1>6. CASE SyncTx(h)
  BY <1>1, <1>6, ThrowGoes, ReturnGoes DEF SyncTx
<1>7. CASE Finalize(h)
  <2>1. at[h].o \in Orders
    BY <1>1, <1>7, ReservationFields DEF Finalize
  <2>2. CASE Return(h)
    BY <1>1, <2>2, ReturnGoes
  <2>3. CASE Goto(h, WzStep(at[h].o, TRUE, FALSE, FALSE))
    <3>1. TRUE \in BOOLEAN /\ FALSE \in BOOLEAN
      OBVIOUS
    <3>2. WzStep(at[h].o, TRUE, FALSE, FALSE) \in PendingStep
      BY <2>1, <3>1, PendingSteps, Zenon
    <3> QED BY <1>1, <2>3, <3>2, GotoGoes, PendingIsAny, Zenon
  <2>4. CASE \E d \in OpenWz(at[h].o) : Call(h, SyncStep(d), <<ConfirmStep(d)>>)
    <3>1. PICK d \in DocIds : Call(h, SyncStep(d), <<ConfirmStep(d)>>)
      BY <2>4 DEF OpenWz
    <3>2. SyncStep(d) \in PendingStep /\ ConfirmStep(d) \in PendingStep
      BY PendingSteps
    <3>3. <<ConfirmStep(d)>> \in Seq(PendingStep)
      BY <3>2
    <3> QED BY <1>1, <3>1, <3>2, <3>3, CallGoes
  <2> QED BY <1>7, <2>2, <2>3, <2>4, Zenon DEF Finalize
<1> QED BY <1>1, <1>2, <1>3, <1>4, <1>5, <1>6, <1>7

LEMMA WholesaleGoes ==
    ASSUME RowsTyped, StepsTyped, NEW h \in Handlers,
           Zh(h) \/ ZhCollect(h) \/ ZhTx(h) \/ PzTx(h) \/ UpdateTx(h)
    PROVE  Goes(h) /\ lock' = lock
<1>1. at[h] \in AnyStep /\ lock' = lock
  BY DEF StepsTyped, Zh, ZhCollect, ZhTx, PzTx, UpdateTx
<1>2. CASE Throw(h) \/ Return(h)
  BY <1>1, <1>2, ThrowGoes, ReturnGoes
<1>3. ASSUME NEW o \in Orders, NEW found, OrderBackorders(h, o, found)
      PROVE  Goes(h)
  <2> DEFINE step == [k |-> "zhTx", o |-> o, qty |-> SumRes(Backorders(o))]
  <2>1. SumRes(Backorders(o)) \in Nat
    <3>1. Backorders(o) \in SUBSET ResIds BY DEF Backorders, Active
    <3> QED BY <3>1, SumResNat
  <2>2. step \in AnyStep /\ FiniteStep(step)
    BY <2>1 DEF AnyStep, TxSteps, FiniteStep
  <2>3. Return(h) \/ Goto(h, step)
    BY <1>3, Zenon DEF OrderBackorders
  <2> HIDE DEF step
  <2> QED BY <1>1, <2>2, <2>3, ReturnGoes, GotoGoes
<1>4. CASE Zh(h)
  <2>1. at[h].o \in Orders /\ (OpenZh(at[h].o) # {}) \in BOOLEAN
    BY <1>1, <1>4, ReservationFields DEF Zh
  <2>2. PICK found \in BOOLEAN :
          \/ Call(h, ReserveStep(at[h].o),
                  <<[k |-> "zhCollect", o |-> at[h].o, found |-> found]>>)
          \/ OrderBackorders(h, at[h].o, found)
    BY <1>4, <2>1, Zenon DEF Zh
  <2>3. /\ ReserveStep(at[h].o) \in PendingStep
        /\ [k |-> "zhCollect", o |-> at[h].o, found |-> found] \in PendingStep
    BY <2>1, PendingSteps, Zenon
  <2>4. <<[k |-> "zhCollect", o |-> at[h].o, found |-> found]>> \in Seq(PendingStep)
    BY <2>3, OneStep, Zenon
  <2> QED BY <1>1, <1>3, <2>1, <2>2, <2>3, <2>4, CallGoes, Zenon
<1>5. CASE ZhCollect(h)
  <2>1. at[h].o \in Orders /\ OrderBackorders(h, at[h].o, at[h].found)
    BY <1>1, <1>5, ReservationFields DEF ZhCollect
  <2> QED BY <1>1, <1>3, <2>1, Zenon
<1>6. CASE PzTx(h)
  <2>1. Goto(h, [k |-> "realloc"]) \/ Throw(h) \/ Return(h)
    BY <1>6, Zenon DEF PzTx
  <2>2. [k |-> "realloc"] \in PendingStep
    BY PendingSteps
  <2> QED BY <1>1, <1>2, <2>1, <2>2, GotoGoes, PendingIsAny
<1>7. CASE ZhTx(h) \/ UpdateTx(h)
  BY <1>1, <1>2, <1>7, Zenon DEF ZhTx, UpdateTx
<1> QED BY <1>1, <1>4, <1>5, <1>6, <1>7

(* The lines of a document that a set of reservations selects. *)
LEMMA LinesTyped ==
    ASSUME RowsTyped, NEW d \in DocIds, NEW S, S \subseteq doc[d].lines
    PROVE  S \in SUBSET Line /\ IsFiniteSet(S) /\ SumQty(S) \in Nat
<1>1. S \in SUBSET Line
  BY DEF RowsTyped, DocRow
<1>2. IsFiniteSet(S)
  BY FS_Subset DEF RowsTyped
<1>3. \A x \in S : x.qty \in Nat
  BY <1>1 DEF Line
<1> QED BY <1>1, <1>2, <1>3, SumQtyNat

LEMMA ConfirmGoes ==
    ASSUME RowsTyped, StepsTyped, NEW h \in Handlers, Confirm(h)
    PROVE  Goes(h) /\ lock' = lock
<1>1. at[h] \in AnyStep /\ lock' = lock
  BY DEF StepsTyped, Confirm
<1> DEFINE d == at[h].d
           step == [k |-> "confirmTx", d |-> d, own |-> doc[d].own,
                    sys |-> doc[d].sys, detached |-> DetachedLines(d),
                    unread |-> {l.res : l \in ConsumedLines(d)}, consumed |-> {},
                    cancelled |-> {l.res : l \in BackorderLines(d)}]
<1>2. d \in DocIds
  BY <1>1, DocumentFields DEF Confirm
<1>3. DetachedLines(d) \in SUBSET Line /\ IsFiniteSet(DetachedLines(d))
  <2>1. DetachedLines(d) \subseteq doc[d].lines
    BY DEF DetachedLines, BackorderLines, LinesOf
  <2> QED BY <1>2, <2>1, LinesTyped
<1>4. /\ {l.res : l \in ConsumedLines(d)} \in SUBSET ResIds
      /\ {l.res : l \in BackorderLines(d)} \in SUBSET ResIds
  <2>1. ConsumedLines(d) \subseteq doc[d].lines /\ BackorderLines(d) \subseteq doc[d].lines
    BY DEF ConsumedLines, BackorderLines, LinesOf
  <2>2. doc[d].lines \in SUBSET Line
    BY <1>2 DEF RowsTyped, DocRow
  <2> QED BY <2>1, <2>2 DEF Line
<1>5. doc[d].own \in Nat /\ doc[d].sys \in Int
  BY <1>2 DEF RowsTyped, DocRow
<1>6. step \in AnyStep /\ FiniteStep(step)
  <2>1. step \in TxSteps
    BY <1>2, <1>3, <1>4, <1>5 DEF TxSteps
  <2> QED BY <1>3, <2>1 DEF AnyStep, FiniteStep
<1>7. Throw(h) \/ Goto(h, step)
  BY DEF Confirm
<1> HIDE DEF step
<1> QED BY <1>1, <1>6, <1>7, ThrowGoes, GotoGoes

LEMMA DocumentsGo ==
    ASSUME RowsTyped, StepsTyped, NEW h \in Handlers,
           \/ ConfirmTx(h) \/ Realloc(h) \/ ReallocOrders(h) \/ ReallocDrafts(h)
           \/ CancelTx(h) \/ DeleteTx(h) \/ AddItemTx(h) \/ SetItemTx(h) \/ DropOwnTx(h)
           \/ DropItemTx(h) \/ RecalculateTx(h)
    PROVE  Goes(h) /\ lock' = lock
<1>1. at[h] \in AnyStep /\ lock' = lock
  BY DEF StepsTyped, ConfirmTx, Realloc, ReallocOrders, ReallocDrafts, CancelTx,
         DeleteTx, AddItemTx, SetItemTx, DropOwnTx, DropItemTx, RecalculateTx
<1>2. CASE Throw(h) \/ Return(h)
  BY <1>1, <1>2, ThrowGoes, ReturnGoes
<1>3. CASE ConfirmTx(h)
  <2>1. at[h].k = "confirmTx"
    BY <1>3 DEF ConfirmTx
  <2>2. Goto(h, [k |-> "realloc"]) \/ Throw(h) \/ Return(h) \/ ReadConsumed(h)
    BY <1>3, Zenon DEF ConfirmTx
  <2> QED BY <1>1, <1>2, <2>1, <2>2, ReadsGo, GotoGoes, PendingIsAny, PendingSteps
<1>4. CASE Realloc(h)
  <2>1. PICK waiting \in SUBSET Orders :
          Goto(h, [k |-> "reallocOrders", left |-> waiting, all |-> waiting])
    BY <1>4 DEF Realloc
  <2> QED BY <1>1, <2>1, GotoGoes, PendingIsAny, PendingSteps
<1>5. CASE ReallocOrders(h)
  <2>1. at[h] \in [k : {"reallocOrders"}, left : SUBSET Orders, all : SUBSET Orders]
    BY <1>1, <1>5, DocumentFields DEF ReallocOrders
  <2>2. ASSUME NEW o \in at[h].left,
               Call(h, ReserveStep(o), <<[at[h] EXCEPT !.left = @ \ {o}]>>)
        PROVE  Goes(h)
    <3>1. ReserveStep(o) \in PendingStep
      BY <2>1, PendingSteps
    <3>2. [at[h] EXCEPT !.left = @ \ {o}] \in PendingStep
      BY <2>1 DEF PendingStep, ReallocSteps
    <3> QED BY <1>1, <2>2, <3>1, <3>2, OneStep, CallGoes
  <2>3. ASSUME NEW drafts \in SUBSET DocIds,
               Goto(h, [k |-> "reallocDrafts", left |-> drafts])
        PROVE  Goes(h)
    BY <1>1, <2>3, GotoGoes, PendingIsAny, PendingSteps
  <2>4. {d \in DocIds : doc[d].type = "WZ" /\ doc[d].st = "DRAFT" /\ doc[d].o \in at[h].all}
           \in SUBSET DocIds
    OBVIOUS
  <2> QED BY <1>1, <1>5, <2>2, <2>3, <2>4, Zenon DEF ReallocOrders
<1>6. CASE ReallocDrafts(h)
  <2>1. at[h] \in [k : {"reallocDrafts"}, left : SUBSET DocIds]
    BY <1>1, <1>6, DocumentFields DEF ReallocDrafts
  <2>2. ASSUME NEW d \in at[h].left,
               Call(h, SyncStep(d), <<[at[h] EXCEPT !.left = @ \ {d}]>>)
        PROVE  Goes(h)
    <3>1. SyncStep(d) \in PendingStep
      BY <2>1, PendingSteps
    <3>2. [at[h] EXCEPT !.left = @ \ {d}] \in PendingStep
      BY <2>1 DEF PendingStep, ReallocSteps
    <3> QED BY <1>1, <2>2, <3>1, <3>2, OneStep, CallGoes
  <2> QED BY <1>1, <1>2, <1>6, <2>2, Zenon DEF ReallocDrafts
<1>7. CASE CancelTx(h)
  <2>1. at[h].k = "cancelTx" /\ (ReadReleased(h) \/ Throw(h) \/ Return(h))
    BY <1>7, Zenon DEF CancelTx
  <2> QED BY <1>1, <1>2, <2>1, ReadsGo
<1> QED BY <1>1, <1>2, <1>3, <1>4, <1>5, <1>6, <1>7
        DEF DeleteTx, AddItemTx, SetItemTx, DropOwnTx, DropItemTx, RecalculateTx

(* prepareDocumentItems and calculateQuantity. *)
LEMMA ReadQuantities ==
    ASSUME RowsTyped
    PROVE  SystemQuantity \in Int /\ DocumentedStock \in Int
<1> DEFINE R == HeldLocally({"ACTIVE"})
           f == [d \in ConfirmedDocs |->
                   StockDelta(doc[d].type, doc[d].own + SumQty(doc[d].lines), doc[d].sys)]
<1>1. SumRes(R) \in Nat
  <2>1. R \in SUBSET ResIds BY DEF HeldLocally
  <2> QED BY <2>1, SumResNat
<1>2. ConfirmedDocs \in SUBSET DocIds /\ IsFiniteSet(ConfirmedDocs)
  BY IdsAssumption, FS_Subset DEF ConfirmedDocs
<1>3. ASSUME NEW d \in ConfirmedDocs PROVE f[d] \in Int
  <2>1. d \in DocIds BY <1>2
  <2>2. SumQty(doc[d].lines) \in Nat /\ doc[d].own \in Nat /\ doc[d].sys \in Int
    BY <2>1, LinesTyped DEF RowsTyped, DocRow
  <2> QED BY <2>2 DEF StockDelta
<1>4. SumFunction(f) = SumFunctionOnSet(f, ConfirmedDocs)
  BY DEF SumFunction
<1> HIDE DEF f
<1>5. SumFunction(f) \in Int
  BY <1>2, <1>3, <1>4, SumInt
<1>6. DocumentedStock = SumFunction(f) - SumRes(R)
  BY DEF DocumentedStock, f
<1> QED BY <1>1, <1>5, <1>6 DEF SystemQuantity, RowsTyped

LEMMA RequestsCounted ==
    ASSUME RowsTyped, NEW h \in Handlers, Request(h)
    PROVE  lock' = lock /\ wholesale' = wholesale /\ budget' \in 0..MaxRequests
<1>1. UNCHANGED <<wholesale, lock>> /\ budget > 0 /\ budget' = budget - 1
  BY DEF Request, Begin, ChangeStatus, RefreshReservations, ReleaseReservations, CreateWz,
         CreateDocument, ConfirmDocument, CancelDocument, DeleteDocument, AddItem, SetItem,
         DropOwn, DropItem, Recalculate, CreateZh, CreatePz, UpdateDocument
<1> QED BY <1>1, DataAssumption DEF RowsTyped

LEMMA RequestsGo ==
    ASSUME RowsTyped, StepsTyped, NEW h \in Handlers, Request(h)
    PROVE  Goes(h)
<1>1. ASSUME NEW request, NEW x \in AnyStep, FiniteStep(x), Begin(h, request, x)
      PROVE  Goes(h)
  BY <1>1, GotoGoes DEF Begin
<1>2. ASSUME NEW request, NEW x \in {Idle} \cup PendingStep, Begin(h, request, x)
      PROVE  Goes(h)
  BY <1>1, <1>2, PendingIsAny
<1>3. CASE ChangeStatus(h)
  <2>1. PICK o \in Orders : \/ Begin(h, "status", FinalizeStep(o))
                            \/ Begin(h, "status", ReleaseStep(o))
                            \/ Begin(h, "status", ReserveStep(o))
                            \/ Begin(h, "status", [k |-> "reserveAndWz", o |-> o])
    BY <1>3 DEF ChangeStatus
  <2> QED BY <1>2, <2>1, PendingSteps
<1>4. CASE RefreshReservations(h) \/ ReleaseReservations(h) \/ CreateZh(h)
  BY <1>2, <1>4, PendingSteps DEF RefreshReservations, ReleaseReservations, CreateZh
<1>5. CASE CreateWz(h)
  <2>1. PICK o \in Orders : \E force, draft \in BOOLEAN :
          Begin(h, "createWz", WzStep(o, force, draft, FALSE))
    BY <1>5, Zenon DEF CreateWz
  <2>2. PICK force \in BOOLEAN, draft \in BOOLEAN :
          Begin(h, "createWz", WzStep(o, force, draft, FALSE))
    BY <2>1, Zenon
  <2>3. FALSE \in BOOLEAN
    OBVIOUS
  <2>4. WzStep(o, force, draft, FALSE) \in PendingStep
    BY <2>3, PendingSteps, Zenon
  <2> QED BY <1>2, <2>2, <2>4, Zenon
<1>6. CASE CreateDocument(h)
  <2>1. Begin(h, "create", Idle)
    BY <1>6 DEF CreateDocument
  <2> QED BY <1>2, <2>1
<1>7. CASE ConfirmDocument(h) \/ DeleteDocument(h) \/ DropOwn(h)
  BY <1>2, <1>7, PendingSteps DEF ConfirmDocument, DeleteDocument, DropOwn
<1>8. CASE CancelDocument(h) \/ AddItem(h) \/ SetItem(h) \/ DropItem(h)
  <2>1. ASSUME NEW d \in DocIds
        PROVE  doc[d].own \in Nat /\ doc[d].sys \in Int /\ doc[d].lines \in SUBSET Line
    BY DEF RowsTyped, DocRow
  <2>2. CASE CancelDocument(h)
    <3>1. PICK d \in DocIds : /\ doc[d].st \in {"DRAFT", "CONFIRMED"}
                              /\ Begin(h, "cancel", [k |-> "cancelTx", d |-> d, st |-> doc[d].st,
                                   own |-> doc[d].own, sys |-> doc[d].sys, seen |-> {},
                                   unread |-> IF doc[d].st = "CONFIRMED"
                                              THEN {l.res : l \in doc[d].lines} ELSE {}])
      BY <2>2 DEF CancelDocument
    <3>3. PICK unread \in SUBSET ResIds : unread = IF doc[d].st = "CONFIRMED"
                                                   THEN {l.res : l \in doc[d].lines} ELSE {}
      BY <2>1 DEF Line
    <3> DEFINE x == [k |-> "cancelTx", d |-> d, st |-> doc[d].st, own |-> doc[d].own,
                     sys |-> doc[d].sys, seen |-> {}, unread |-> unread]
    <3>2. x \in AnyStep /\ FiniteStep(x)
      BY <2>1, <3>1, FS_EmptySet DEF AnyStep, TxSteps, FiniteStep
    <3>4. Begin(h, "cancel", x)
      BY <3>1, <3>3
    <3> HIDE DEF x
    <3> QED BY <1>1, <3>2, <3>4
  <2>3. CASE AddItem(h)
    <3>1. PICK d \in DocIds, q \in Qtys :
            Begin(h, "addItem", [k |-> "addItemTx", d |-> d, qty |-> q, sys |-> SystemQuantity])
      BY <2>3 DEF AddItem
    <3> DEFINE x == [k |-> "addItemTx", d |-> d, qty |-> q, sys |-> SystemQuantity]
    <3>2. x \in AnyStep /\ FiniteStep(x)
      BY ReadQuantities, DataAssumption DEF AnyStep, TxSteps, FiniteStep
    <3> HIDE DEF x
    <3> QED BY <1>1, <3>1, <3>2 DEF x
  <2>4. CASE SetItem(h)
    <3>1. PICK d \in DocIds, q \in Qtys :
            Begin(h, "setItem", [k |-> "setItemTx", d |-> d, qty |-> q])
      BY <2>4 DEF SetItem
    <3> DEFINE x == [k |-> "setItemTx", d |-> d, qty |-> q]
    <3>2. x \in AnyStep /\ FiniteStep(x)
      BY DataAssumption DEF AnyStep, TxSteps, FiniteStep
    <3> HIDE DEF x
    <3> QED BY <1>1, <3>1, <3>2 DEF x
  <2>5. CASE DropItem(h)
    <3>1. PICK d \in DocIds : \E l \in doc[d].lines :
            Begin(h, "dropItem", [k |-> "dropItemTx", d |-> d, line |-> [n |-> l.n, res |-> l.res]])
      BY <2>5 DEF DropItem
    <3>2. PICK l \in doc[d].lines :
            Begin(h, "dropItem", [k |-> "dropItemTx", d |-> d, line |-> [n |-> l.n, res |-> l.res]])
      BY <3>1
    <3> DEFINE x == [k |-> "dropItemTx", d |-> d, line |-> [n |-> l.n, res |-> l.res]]
    <3>3. x \in AnyStep /\ FiniteStep(x)
      <4>1. [n |-> l.n, res |-> l.res] \in ItemRef
        BY <2>1 DEF Line, ItemRef
      <4> QED BY <4>1 DEF AnyStep, TxSteps, FiniteStep
    <3> HIDE DEF x
    <3> QED BY <1>1, <3>2, <3>3 DEF x
  <2> QED BY <1>8, <2>2, <2>3, <2>4, <2>5
<1>9. CASE Recalculate(h)
  <2> DEFINE x == [k |-> "recalculateTx", value |-> DocumentedStock]
  <2>1. x \in AnyStep /\ FiniteStep(x)
    BY ReadQuantities DEF AnyStep, TxSteps, FiniteStep
  <2>2. Begin(h, "recalculate", x)
    BY <1>9 DEF Recalculate
  <2> HIDE DEF x
  <2> QED BY <1>1, <2>1, <2>2
<1>10. CASE UpdateDocument(h)
  <2>1. PICK d \in DocIds, q \in Qtys, o \in Orders \cup {None}, items \in BOOLEAN,
             assign \in BOOLEAN :
          \E sys : /\ sys = (IF doc[d].type = "INW" THEN SystemQuantity ELSE 0)
                    /\ \E request : Begin(h, request,
                         [k |-> "updateTx", d |-> d, items |-> items, order |-> assign,
                          own |-> q, sys |-> sys, o |-> o])
    BY <1>10, ZenonT(60) DEF UpdateDocument
  <2>2. PICK sys : /\ sys = (IF doc[d].type = "INW" THEN SystemQuantity ELSE 0)
                   /\ \E request : Begin(h, request,
                         [k |-> "updateTx", d |-> d, items |-> items, order |-> assign,
                          own |-> q, sys |-> sys, o |-> o])
    BY <2>1
  <2>4. sys \in Int
    BY <2>2, ReadQuantities
  <2> DEFINE x == [k |-> "updateTx", d |-> d, items |-> items, order |-> assign,
                   own |-> q, sys |-> sys, o |-> o]
  <2>3. x \in AnyStep /\ FiniteStep(x)
    BY <2>4, DataAssumption DEF AnyStep, TxSteps, FiniteStep
  <2>5. PICK request : Begin(h, request, x)
    BY <2>2
  <2> HIDE DEF x
  <2> QED BY <1>1, <2>3, <2>5
<1>11. CASE CreatePz(h)
  <2>1. PICK d \in DocIds, draft \in BOOLEAN, q \in Nat :
          /\ doc[d].st \in {"DRAFT", "CONFIRMED"}
          /\ Begin(h, "createPz", [k |-> "pzTx", d |-> d, st |-> doc[d].st, qty |-> q,
                                   draft |-> draft])
    <3>1. \A d \in DocIds : Qtys \cup {doc[d].own} \subseteq Nat
      BY DataAssumption DEF RowsTyped, DocRow
    <3> QED BY <1>11, <3>1 DEF CreatePz
  <2> DEFINE x == [k |-> "pzTx", d |-> d, st |-> doc[d].st, qty |-> q, draft |-> draft]
  <2>2. x \in AnyStep /\ FiniteStep(x)
    BY <2>1 DEF AnyStep, TxSteps, FiniteStep
  <2> HIDE DEF x
  <2> QED BY <1>1, <2>1, <2>2 DEF x
<1> QED BY <1>3, <1>4, <1>5, <1>6, <1>7, <1>8, <1>9, <1>10, <1>11 DEF Request

-----------------------------------------------------------------------------
(* Every step leaves rows of their type *)

DocsTyped == doc \in [DocIds -> DocRow] /\ \A d \in DocIds : IsFiniteSet(doc[d].lines)

LEMMA DocPut ==
    ASSUME RowsTyped, NEW d \in DocIds, NEW row \in DocRow, IsFiniteSet(row.lines),
           doc' = [doc EXCEPT ![d] = row]
    PROVE  DocsTyped'
BY DEF RowsTyped, DocsTyped

LEMMA ApplyTyped ==
    ASSUME RowsTyped, StepsTyped, NEW h \in Handlers, Apply(h)
    PROVE  stock' \in Int /\ res' \in [ResIds -> ResRow]
<1>0. CASE UNCHANGED <<stock, res>>
  BY <1>0 DEF RowsTyped
<1> SUFFICES ASSUME ~UNCHANGED <<stock, res>> PROVE stock' \in Int /\ res' \in [ResIds -> ResRow]
  BY <1>0
<1> DEFINE t == at[h]
<1>1. /\ t.local \in Nat /\ t.back \in Nat /\ t.o \in Orders
      /\ t.seen \in SUBSET SeenRow /\ IsFiniteSet(t.seen)
  BY ReservationFields DEF StepsTyped, FiniteStep, Apply
<1>2. stock' \in Int
  <2>1. SeenQty(t.seen, "LOCAL_STOCK") \in Nat
    BY <1>1, SeenQtyNat
  <2>2. stock' = stock + SeenQty(t.seen, "LOCAL_STOCK") - t.local
    BY DEF Apply, StockAfter
  <2> QED BY <1>1, <2>1, <2>2 DEF RowsTyped
<1>3. \A src : WantedOf(t, src) \in Nat
  BY <1>1 DEF WantedOf
<1>4. \A r \in ResIds : Rewritten(t, r) \in ResRow
  BY <1>3 DEF Rewritten, RowsTyped, ResRow
<1>5. \A src \in CreatedSources(t) :
        [st |-> "ACTIVE", src |-> src, qty |-> WantedOf(t, src), o |-> t.o] \in ResRow
  BY <1>1, <1>3 DEF CreatedSources, ResRow, Sources
<1>6. ApplyRows(t)
  BY DEF Apply
<1> HIDE DEF t
<1>7. res' \in [ResIds -> ResRow]
  BY <1>4, <1>5, <1>6 DEF ApplyRows
<1> QED BY <1>2, <1>7

LEMMA ConsumeTyped ==
    ASSUME RowsTyped, NEW R, NEW cancelled, ConsumeRows(R, cancelled)
    PROVE  res' \in [ResIds -> ResRow]
BY DEF ConsumeRows, RowsTyped, ResRow

LEMMA FreeDocTyped == FreeDoc \in DocRow /\ IsFiniteSet(FreeDoc.lines)
BY FS_EmptySet DEF FreeDoc, DocRow, DocTypes

LEMMA WzTyped ==
    ASSUME RowsTyped, StepsTyped, NEW h \in Handlers, WzTx(h)
    PROVE  res' \in [ResIds -> ResRow] /\ DocsTyped'
<1> DEFINE t == at[h]
           confirms == ~t.draft /\ (t.force \/ AutoConfirmWz) /\ ~t.warn
<1>1. /\ t.o \in Orders /\ t.warn \in BOOLEAN /\ t.lines \in SUBSET Line /\ IsFiniteSet(t.lines)
  BY ReservationFields DEF StepsTyped, FiniteStep, WzTx
<1>2. CASE UNCHANGED <<res, doc>>
  BY <1>2 DEF RowsTyped, DocsTyped
<1>3. CASE ~UNCHANGED <<res, doc>>
  <2>1. PICK d \in DocIds :
          doc' = [doc EXCEPT ![d] = [FreeDoc EXCEPT !.st = IF confirms THEN "CONFIRMED" ELSE "DRAFT",
                                          !.o = t.o, !.lines = t.lines, !.warn = t.warn]]
    BY <1>3, Zenon DEF WzTx
  <2>2. ConsumeRows(t.consumed, {})
    BY <1>3, Zenon DEF WzTx
  <2>3. PICK st \in {"CONFIRMED", "DRAFT"} :
          doc' = [doc EXCEPT ![d] = [FreeDoc EXCEPT !.st = st,
                                          !.o = t.o, !.lines = t.lines, !.warn = t.warn]]
    BY <2>1
  <2> DEFINE row == [FreeDoc EXCEPT !.st = st, !.o = t.o, !.lines = t.lines, !.warn = t.warn]
  <2>4. row \in DocRow /\ row.lines = t.lines
    <3>1. PICK free \in DocRow : free = FreeDoc
      BY FreeDocTyped
    <3>2. row = [free EXCEPT !.st = st, !.o = t.o, !.lines = t.lines, !.warn = t.warn]
      BY <3>1
    <3> HIDE DEF t, row
    <3> QED BY <1>1, <3>2 DEF DocRow
  <2> HIDE DEF row
  <2> QED BY <1>1, <2>2, <2>3, <2>4, ConsumeTyped, DocPut DEF row
<1> QED BY <1>2, <1>3

LEMMA NextCopyNat ==
    ASSUME RowsTyped, NEW d \in DocIds, NEW r
    PROVE  NextCopy(d, r) \in Nat
<1> DEFINE S == {l \in doc[d].lines : l.res = r}
           f == [l \in S |-> l.n]
           N == {0} \cup {l.n : l \in S}
<1>1. IsFiniteSet(S) /\ S \in SUBSET Line
  BY LinesTyped
<1>2. IsFiniteSet(N)
  <2>1. N = {f[l] : l \in S} \cup {0}
    OBVIOUS
  <2> HIDE DEF f, N, S
  <2>2. IsFiniteSet({f[l] : l \in S})
    BY <1>1, ImageIsFinite
  <2> QED BY <2>1, <2>2, FS_AddElement
<1>3. N \in SUBSET Nat
  BY <1>1 DEF Line
<1>4. Max(N) \in Nat
  <2>1. N # {} OBVIOUS
  <2> HIDE DEF N
  <2> QED BY <1>2, <1>3, <2>1, GreatestIsMax
<1> QED BY <1>4 DEF NextCopy

LEMMA SyncTyped ==
    ASSUME RowsTyped, StepsTyped, NEW h \in Handlers, SyncTx(h)
    PROVE  DocsTyped'
<1> DEFINE t == at[h]
           Edits(l, S) == \E x \in S : x.n = l.n /\ x.res = l.res
           kept == {l \in doc[t.d].lines : ~Edits(l, t.drop) /\ ~Edits(l, t.set)}
           f == [a \in t.add |-> [n |-> NextCopy(t.d, a.res), res |-> a.res, qty |-> a.qty]]
           added == {[n |-> NextCopy(t.d, a.res), res |-> a.res, qty |-> a.qty] : a \in t.add}
           lines == kept \cup t.set \cup added
<1>1. /\ t.d \in DocIds /\ t.set \in SUBSET Line /\ t.add \in SUBSET [res : ResIds, qty : Nat]
      /\ IsFiniteSet(t.set) /\ IsFiniteSet(t.add)
  BY DocumentFields DEF StepsTyped, FiniteStep, SyncTx
<1>2. kept \in SUBSET Line /\ IsFiniteSet(kept)
  <2>1. kept \subseteq doc[t.d].lines OBVIOUS
  <2> HIDE DEF kept
  <2> QED BY <1>1, <2>1, LinesTyped
<1>3. added \in SUBSET Line
  <2>1. \A a \in t.add : NextCopy(t.d, a.res) \in Nat
    BY <1>1, NextCopyNat
  <2> QED BY <1>1, <2>1 DEF Line
<1>4. IsFiniteSet(added)
  <2>1. added = {f[a] : a \in t.add} OBVIOUS
  <2> HIDE DEF f, added
  <2> QED BY <1>1, <2>1, ImageIsFinite
<1>5. lines \in SUBSET Line /\ IsFiniteSet(lines)
  <2> HIDE DEF kept, added
  <2> QED BY <1>1, <1>2, <1>3, <1>4, FS_Union
<1>6. doc' = doc \/ doc' = [doc EXCEPT ![t.d].lines = lines]
  BY DEF SyncTx
<1> DEFINE row == [doc[t.d] EXCEPT !.lines = lines]
<1> HIDE DEF lines
<1>7. row \in DocRow /\ row.lines = lines
  BY <1>1, <1>5 DEF RowsTyped, DocRow
<1>8. doc' = doc \/ doc' = [doc EXCEPT ![t.d] = row]
  BY <1>6
<1> HIDE DEF row
<1> QED BY <1>1, <1>5, <1>7, <1>8, DocPut DEF RowsTyped, DocsTyped

LEMMA DeltaInt ==
    ASSUME NEW type, NEW quantity \in Int, NEW sys \in Int
    PROVE  StockDelta(type, quantity, sys) \in Int
BY DEF StockDelta

LEMMA ConfirmTyped ==
    ASSUME RowsTyped, StepsTyped, NEW h \in Handlers, ConfirmTx(h)
    PROVE  stock' \in Int /\ res' \in [ResIds -> ResRow] /\ DocsTyped'
<1> DEFINE t == at[h]
           row == doc[t.d]
           Detached(l) == \E x \in t.detached : x.n = l.n /\ x.res = l.res
           freed == {l \in row.lines : Detached(l)}
<1>1. /\ t.d \in DocIds /\ t.own \in Nat /\ t.sys \in Int /\ t.detached \in SUBSET Line
      /\ IsFiniteSet(t.detached)
  BY DocumentFields DEF StepsTyped, FiniteStep, ConfirmTx
<1>2. CASE UNCHANGED <<stock, res, doc>>
  BY <1>2 DEF RowsTyped, DocsTyped
<1>3. CASE ~UNCHANGED <<stock, res, doc>>
  <2>1. /\ stock' = stock + StockDelta(row.type, t.own + SumQty(t.detached), t.sys)
        /\ ConsumeRows(t.consumed, t.cancelled)
        /\ doc' = [doc EXCEPT ![t.d].st = "CONFIRMED", ![t.d].own = @ + SumQty(freed),
                              ![t.d].lines = @ \ freed]
    BY <1>3, Zenon DEF ConfirmTx
  <2>2. SumQty(t.detached) \in Nat
    <3>1. \A x \in t.detached : x.qty \in Nat
      BY <1>1 DEF Line
    <3> QED BY <1>1, <3>1, SumQtyNat
  <2>3. stock' \in Int
    <3>1. t.own + SumQty(t.detached) \in Int
      BY <1>1, <2>2
    <3>2. PICK delta \in Int : delta = StockDelta(row.type, t.own + SumQty(t.detached), t.sys)
      BY <1>1, <3>1, DeltaInt
    <3>3. stock' = stock + delta
      BY <2>1, <3>2
    <3> QED BY <3>3 DEF RowsTyped
  <2>4. row \in DocRow /\ SumQty(freed) \in Nat
    <3>1. freed \subseteq doc[t.d].lines OBVIOUS
    <3> HIDE DEF freed
    <3> QED BY <1>1, <3>1, LinesTyped DEF RowsTyped
  <2> DEFINE after == [row EXCEPT !.st = "CONFIRMED", !.own = @ + SumQty(freed), !.lines = @ \ freed]
  <2>5. doc' = [doc EXCEPT ![t.d] = after]
    BY <2>1
  <2> HIDE DEF freed
  <2>6. after \in DocRow /\ after.lines = row.lines \ freed
    <3>1. row.own + SumQty(freed) \in Nat /\ row.lines \ freed \in SUBSET Line
      BY <2>4 DEF DocRow
    <3> HIDE DEF row
    <3> QED BY <2>4, <3>1 DEF DocRow
  <2>7. IsFiniteSet(after.lines)
    <3>1. row.lines \ freed \subseteq doc[t.d].lines OBVIOUS
    <3> QED BY <1>1, <2>6, <3>1, LinesTyped
  <2> HIDE DEF after
  <2> QED BY <1>1, <2>1, <2>3, <2>5, <2>6, <2>7, ConsumeTyped, DocPut
<1> QED BY <1>2, <1>3

LEMMA CancelTyped ==
    ASSUME RowsTyped, StepsTyped, NEW h \in Handlers, CancelTx(h)
    PROVE  stock' \in Int /\ res' \in [ResIds -> ResRow] /\ DocsTyped'
<1> DEFINE t == at[h]
           released == {s.r : s \in t.seen}
           delta == IF t.st = "CONFIRMED" THEN StockDelta(doc[t.d].type, t.own, t.sys) ELSE 0
<1>1. /\ t.d \in DocIds /\ t.own \in Nat /\ t.sys \in Int
      /\ t.seen \in SUBSET SeenRow /\ IsFiniteSet(t.seen)
  BY DocumentFields DEF StepsTyped, CancelTx, FiniteStep
<1>2. CASE UNCHANGED <<stock, res, doc>>
  BY <1>2 DEF RowsTyped, DocsTyped
<1>3. CASE ~UNCHANGED <<stock, res, doc>>
  <2>1. /\ stock' = stock + SeenQty(t.seen, "LOCAL_STOCK") - delta
        /\ res' = [r \in ResIds |-> IF r \in released THEN [res[r] EXCEPT !.st = "RELEASED"] ELSE res[r]]
        /\ doc' = [doc EXCEPT ![t.d].st = "CANCELLED"]
    BY <1>3, Zenon DEF CancelTx
  <2>2. SeenQty(t.seen, "LOCAL_STOCK") \in Nat
    BY <1>1, SeenQtyNat
  <2>3. delta \in Int
    BY <1>1, DeltaInt
  <2> DEFINE row == [doc[t.d] EXCEPT !.st = "CANCELLED"]
  <2>4. row \in DocRow /\ IsFiniteSet(row.lines)
    BY <1>1 DEF RowsTyped, DocRow
  <2>5. doc' = [doc EXCEPT ![t.d] = row]
    BY <2>1
  <2> HIDE DEF row, released, delta
  <2>6. res' \in [ResIds -> ResRow]
    BY <2>1 DEF RowsTyped, ResRow
  <2>7. stock' \in Int
    BY <2>1, <2>2, <2>3 DEF RowsTyped
  <2> QED BY <1>1, <2>4, <2>5, <2>6, <2>7, DocPut
<1> QED BY <1>2, <1>3

(* The item without a reservation gets another quantity. *)
LEMMA OwnPut ==
    ASSUME RowsTyped, NEW d \in DocIds, NEW own \in Nat, NEW sys \in Int,
           doc' = [doc EXCEPT ![d].own = own, ![d].sys = sys]
    PROVE  DocsTyped'
<1> DEFINE row == [doc[d] EXCEPT !.own = own, !.sys = sys]
<1>1. doc[d] \in DocRow /\ IsFiniteSet(doc[d].lines)
  BY DEF RowsTyped
<1>2. row \in DocRow /\ row.lines = doc[d].lines
  BY <1>1 DEF DocRow
<1>3. doc' = [doc EXCEPT ![d] = row]
  OBVIOUS
<1> HIDE DEF row
<1> QED BY <1>1, <1>2, <1>3, DocPut

(* The edits of a draft's items. *)
LEMMA ItemsTyped ==
    ASSUME RowsTyped, StepsTyped, NEW h \in Handlers,
           DeleteTx(h) \/ AddItemTx(h) \/ SetItemTx(h) \/ DropOwnTx(h) \/ DropItemTx(h) \/ UpdateTx(h)
    PROVE  DocsTyped'
<1> DEFINE t == at[h]
<1>1. at[h] \in AnyStep
  BY DEF StepsTyped
<1>2. CASE doc' = doc
  BY <1>2 DEF RowsTyped, DocsTyped
<1>3. CASE DeleteTx(h) /\ doc' # doc
  <2> DEFINE row == [FreeDoc EXCEPT !.st = "DELETED"]
  <2>1. t.d \in DocIds /\ doc' = [doc EXCEPT ![t.d] = row]
    BY <1>1, <1>3, DocumentFields DEF DeleteTx
  <2>2. row \in DocRow /\ IsFiniteSet(row.lines)
    <3>1. PICK free \in DocRow : free = FreeDoc /\ IsFiniteSet(free.lines)
      BY FreeDocTyped
    <3>2. row = [free EXCEPT !.st = "DELETED"]
      BY <3>1
    <3> HIDE DEF row
    <3> QED BY <3>1, <3>2 DEF DocRow
  <2> HIDE DEF row, t
  <2> QED BY <2>1, <2>2, DocPut
<1>4. CASE AddItemTx(h) /\ doc' # doc
  <2>1. t.d \in DocIds /\ t.qty \in Nat /\ t.sys \in Int
    BY <1>1, <1>4, DocumentFields DEF AddItemTx
  <2>2. PICK own \in Nat, sys \in Int : doc' = [doc EXCEPT ![t.d].own = own, ![t.d].sys = sys]
    <3>1. doc[t.d].own \in Nat /\ doc[t.d].sys \in Int
      BY <2>1 DEF RowsTyped, DocRow
    <3>2. t.qty \in Nat /\ doc[t.d].own + t.qty \in Nat
      BY <2>1, <3>1
    <3>3. \/ doc' = [doc EXCEPT ![t.d].own = t.qty, ![t.d].sys = t.sys]
          \/ doc' = [doc EXCEPT ![t.d].own = doc[t.d].own + t.qty, ![t.d].sys = doc[t.d].sys]
      BY <1>4 DEF AddItemTx
    <3> QED BY <2>1, <3>1, <3>2, <3>3
  <2> HIDE DEF t
  <2> QED BY <2>1, <2>2, OwnPut
<1>5. CASE (SetItemTx(h) \/ DropOwnTx(h)) /\ doc' # doc
  <2>1. /\ t.d \in DocIds
        /\ \E own \in Nat, sys \in Int : doc' = [doc EXCEPT ![t.d].own = own, ![t.d].sys = sys]
    <3>1. CASE SetItemTx(h)
      <4>1. t.d \in DocIds /\ t.qty \in Nat
        BY <1>1, <3>1, DocumentFields DEF SetItemTx
      <4>2. doc[t.d].sys \in Int
        BY <4>1 DEF RowsTyped, DocRow
      <4>3. doc' = [doc EXCEPT ![t.d].own = t.qty, ![t.d].sys = doc[t.d].sys]
        BY <1>5, <3>1, <4>1 DEF SetItemTx, RowsTyped, DocRow
      <4> QED BY <4>1, <4>2, <4>3
    <3>2. CASE DropOwnTx(h)
      <4>1. t.d \in DocIds
        BY <1>1, <3>2, DocumentFields DEF DropOwnTx
      <4>2. doc' = [doc EXCEPT ![t.d].own = 0, ![t.d].sys = 0]
        BY <1>5, <3>2 DEF DropOwnTx
      <4>3. 0 \in Nat /\ 0 \in Int
        OBVIOUS
      <4> HIDE DEF t
      <4> QED BY <4>1, <4>2, <4>3, Zenon
    <3> QED BY <1>5, <3>1, <3>2
  <2>2. PICK own \in Nat, sys \in Int : doc' = [doc EXCEPT ![t.d].own = own, ![t.d].sys = sys]
    BY <2>1
  <2> HIDE DEF t
  <2> QED BY <2>1, <2>2, OwnPut
<1>6. CASE DropItemTx(h) /\ doc' # doc
  <2> DEFINE lines == {l \in doc[t.d].lines : ~(l.n = t.line.n /\ l.res = t.line.res)}
             row == [doc[t.d] EXCEPT !.lines = lines]
  <2>1. t.d \in DocIds /\ doc' = [doc EXCEPT ![t.d] = row]
    BY <1>1, <1>6, DocumentFields DEF DropItemTx
  <2>2. lines \in SUBSET Line /\ IsFiniteSet(lines)
    <3>1. lines \subseteq doc[t.d].lines OBVIOUS
    <3> QED BY <2>1, <3>1, LinesTyped
  <2> HIDE DEF lines, t
  <2>3. row \in DocRow /\ row.lines = lines
    BY <2>1, <2>2 DEF RowsTyped, DocRow
  <2> HIDE DEF row
  <2> QED BY <2>1, <2>2, <2>3, DocPut
<1>7. CASE UpdateTx(h) /\ doc' # doc
  <2>1. /\ t.d \in DocIds /\ t.items \in BOOLEAN /\ t.order \in BOOLEAN
        /\ t.own \in Nat /\ t.sys \in Int /\ t.o \in Orders \cup {None}
    BY <1>1, <1>7, DocumentFields DEF UpdateTx
  <2> DEFINE new == [doc[t.d] EXCEPT !.own = t.own, !.sys = t.sys, !.lines = {}]
  <2>2. PICK row \in {new, doc[t.d]} :
          \E o \in {t.o, doc[t.d].o} : doc' = [doc EXCEPT ![t.d] = [row EXCEPT !.o = o]]
    <3>1. new.o = doc[t.d].o /\ [new EXCEPT !.o = new.o] = new
          /\ [doc[t.d] EXCEPT !.o = doc[t.d].o] = doc[t.d]
      BY <2>1 DEF RowsTyped, DocRow
    <3>2. PICK row \in {new, doc[t.d]} :
             doc' = [doc EXCEPT ![t.d] = IF t.order THEN [row EXCEPT !.o = t.o] ELSE row]
      BY <1>7, Zenon DEF UpdateTx
    <3> HIDE DEF new
    <3> QED BY <3>1, <3>2
  <2>3. PICK o \in {t.o, doc[t.d].o} : doc' = [doc EXCEPT ![t.d] = [row EXCEPT !.o = o]]
    BY <2>2
  <2>4. doc[t.d] \in DocRow /\ IsFiniteSet(doc[t.d].lines)
    BY <2>1 DEF RowsTyped
  <2>5. new \in DocRow /\ new.lines = {}
    <3> HIDE DEF t
    <3> QED BY <2>1, <2>4 DEF DocRow
  <2>6. row \in DocRow /\ IsFiniteSet(row.lines)
    <3> HIDE DEF new
    <3> QED BY <2>2, <2>4, <2>5, FS_EmptySet
  <2>7. o \in Orders \cup {None}
    BY <2>1, <2>3, <2>4 DEF DocRow
  <2> DEFINE last == [row EXCEPT !.o = o]
  <2>8. last \in DocRow /\ last.lines = row.lines
    BY <2>6, <2>7 DEF DocRow
  <2> HIDE DEF last, new, t
  <2> QED BY <2>1, <2>3, <2>6, <2>8, DocPut DEF last
<1> QED BY <1>2, <1>3, <1>4, <1>5, <1>6, <1>7

LEMMA WholesaleTyped ==
    ASSUME RowsTyped, StepsTyped, NEW h \in Handlers, ZhTx(h) \/ PzTx(h)
    PROVE  DocsTyped' /\ stock' \in Int
<1> DEFINE t == at[h]
<1>1. at[h] \in AnyStep
  BY DEF StepsTyped
<1>2. PICK free \in DocRow : free = FreeDoc /\ free.lines = {}
  <2>1. FreeDoc.lines = {} BY DEF FreeDoc
  <2> QED BY <2>1, FreeDocTyped
<1>3. CASE ZhTx(h)
  <2>1. t.o \in Orders /\ t.qty \in Nat
    BY <1>1, <1>3, ReservationFields DEF ZhTx
  <2> DEFINE row == [free EXCEPT !.st = "DRAFT", !.type = "ZH", !.o = t.o, !.own = t.qty]
  <2>2. PICK d \in DocIds : doc' = [doc EXCEPT ![d] = row]
    BY <1>2, <1>3 DEF ZhTx
  <2> HIDE DEF t
  <2>3. row \in DocRow /\ IsFiniteSet(row.lines)
    BY <1>2, <2>1, FS_EmptySet DEF DocRow, DocTypes
  <2>4. stock' = stock
    BY <1>3 DEF ZhTx
  <2> HIDE DEF row
  <2> QED BY <2>2, <2>3, <2>4, DocPut DEF RowsTyped
<1>4. CASE PzTx(h) /\ ~UNCHANGED <<stock, doc>>
  <2>1. /\ t.d \in DocIds /\ t.st \in {"DRAFT", "CONFIRMED"}
        /\ t.qty \in Nat /\ t.draft \in BOOLEAN
    BY <1>1, <1>4, DocumentFields DEF PzTx
  <2>2. PICK d \in DocIds : doc' = [doc EXCEPT ![d] = NewPz(t), ![t.d] = ReceivedZh(t, d)]
    BY <1>4, Zenon DEF PzTx
  <2>3. stock' = stock + Accepted(t)
    BY <1>4, Zenon DEF PzTx
  <2> HIDE DEF t
  <2>4. PICK st \in {"DRAFT", "CONFIRMED"} :
          NewPz(t) = [free EXCEPT !.st = st, !.type = "PZ", !.own = t.qty, !.link = t.d]
    BY <1>2, <2>1 DEF NewPz
  <2> DEFINE pz == [free EXCEPT !.st = st, !.type = "PZ", !.own = t.qty, !.link = t.d]
  <2>5. NewPz(t) \in DocRow /\ IsFiniteSet(NewPz(t).lines)
    <3>1. pz \in DocRow /\ pz.lines = free.lines
      BY <2>1 DEF DocRow, DocTypes
    <3> QED BY <1>2, <2>4, <3>1, FS_EmptySet
  <2>6. ReceivedZh(t, d) \in DocRow /\ ReceivedZh(t, d).lines = doc[t.d].lines
    <3>1. PICK after \in {"FREE", "DRAFT", "CONFIRMED", "CANCELLED", "DELETED"} :
            ReceivedZh(t, d) = [doc[t.d] EXCEPT !.st = after, !.link = d]
      <4>1. doc[t.d] \in DocRow BY <2>1 DEF RowsTyped
      <4> QED BY <4>1 DEF ReceivedZh, DocRow
    <3> DEFINE zh == [doc[t.d] EXCEPT !.st = after, !.link = d]
    <3>2. doc[t.d] \in DocRow
      BY <2>1 DEF RowsTyped
    <3>3. zh \in DocRow /\ zh.lines = doc[t.d].lines
      BY <3>2 DEF DocRow
    <3> QED BY <3>1, <3>3
  <2>7. Accepted(t) \in Nat
    BY <2>1 DEF Accepted
  <2>8. IsFiniteSet(ReceivedZh(t, d).lines)
    BY <2>1, <2>6 DEF RowsTyped
  <2>9. \A x \in DocIds : doc'[x] \in {NewPz(t), ReceivedZh(t, d), doc[x]}
    BY <2>1, <2>2 DEF RowsTyped
  <2>10. DocsTyped'
    BY <2>1, <2>2, <2>5, <2>6, <2>8, <2>9 DEF RowsTyped, DocsTyped
  <2> QED BY <2>3, <2>7, <2>10 DEF RowsTyped
<1>5. CASE UNCHANGED <<stock, doc>>
  BY <1>5 DEF RowsTyped, DocsTyped
<1> QED BY <1>3, <1>4, <1>5

LEMMA CreateTyped ==
    ASSUME RowsTyped, NEW h \in Handlers, CreateDocument(h)
    PROVE  DocsTyped'
<1>1. PICK free \in DocRow : free = FreeDoc /\ free.lines = {}
  <2>1. FreeDoc.lines = {} BY DEF FreeDoc
  <2> QED BY <2>1, FreeDocTyped
<1>2. PICK d \in DocIds, type \in Types, q \in Qtys, o \in Orders \cup {None} :
        doc' = [doc EXCEPT ![d] =
                  [FreeDoc EXCEPT !.st = "DRAFT", !.type = type, !.o = o, !.own = q,
                                  !.sys = IF type = "INW" THEN SystemQuantity ELSE 0]]
  BY Zenon DEF CreateDocument
<1>3. PICK sys \in Int : sys = IF type = "INW" THEN SystemQuantity ELSE 0
  BY ReadQuantities
<1> DEFINE row == [free EXCEPT !.st = "DRAFT", !.type = type, !.o = o, !.own = q, !.sys = sys]
<1>4. type \in DocTypes /\ q \in Nat
  BY DataAssumption
<1>5. row \in DocRow /\ IsFiniteSet(row.lines)
  BY <1>1, <1>4, FS_EmptySet DEF DocRow
<1>6. doc' = [doc EXCEPT ![d] = row]
  BY <1>1, <1>2, <1>3
<1> HIDE DEF row
<1> QED BY <1>5, <1>6, DocPut

-----------------------------------------------------------------------------
(* The types are inductive, however many requests run *)

LEMMA StepTyped ==
    ASSUME RowsTyped, StepsTyped, NEW h \in Handlers, Step(h)
    PROVE  RowsTyped' /\ StepsTyped'
<1>1. Goes(h) /\ lock' \in [Orders -> Handlers \cup {None}]
  BY ReservationsGo, WzGoes, WholesaleGoes, ConfirmGoes, DocumentsGo DEF Step, StepsTyped
<1>2. StepsTyped'
  BY <1>1, GoesTyped
<1>3. UNCHANGED <<wholesale, order, budget>>
  BY DEF Step, Reserve, ReserveTx, ReleaseTx, Apply, ReserveAndWz, Wz, Collect, WzTx, Sync,
         SyncTx, Finalize, Confirm, ConfirmTx, Realloc, ReallocOrders, ReallocDrafts, CancelTx,
         DeleteTx, AddItemTx, SetItemTx, DropOwnTx, DropItemTx, RecalculateTx, Zh, ZhCollect,
         ZhTx, PzTx, UpdateTx, rows
<1>4. /\ stock' = stock \/ Apply(h) \/ ConfirmTx(h) \/ CancelTx(h) \/ PzTx(h) \/ RecalculateTx(h)
      /\ res' = res \/ Apply(h) \/ WzTx(h) \/ ConfirmTx(h) \/ CancelTx(h)
      /\ \/ doc' = doc \/ WzTx(h) \/ SyncTx(h) \/ ConfirmTx(h) \/ CancelTx(h)
         \/ ZhTx(h) \/ PzTx(h)
         \/ DeleteTx(h) \/ AddItemTx(h) \/ SetItemTx(h) \/ DropOwnTx(h) \/ DropItemTx(h) \/ UpdateTx(h)
  BY DEF Step, Reserve, ReserveTx, ReleaseTx, Apply, ReserveAndWz, Wz, Collect, WzTx, Sync,
         SyncTx, Finalize, Confirm, ConfirmTx, Realloc, ReallocOrders, ReallocDrafts, CancelTx,
         DeleteTx, AddItemTx, SetItemTx, DropOwnTx, DropItemTx, RecalculateTx, Zh, ZhCollect,
         ZhTx, PzTx, UpdateTx, rows
<1>5. stock' \in Int
  <2>1. CASE RecalculateTx(h)
    <3>1. at[h].value \in Int
      BY <2>1, DocumentFields DEF RecalculateTx, StepsTyped
    <3> QED BY <2>1, <3>1 DEF RecalculateTx
  <2> QED BY <1>4, <2>1, ApplyTyped, ConfirmTyped, CancelTyped, WholesaleTyped DEF RowsTyped
<1>6. res' \in [ResIds -> ResRow]
  BY <1>4, ApplyTyped, WzTyped, ConfirmTyped, CancelTyped DEF RowsTyped
<1>7. DocsTyped'
  <2>1. CASE doc' = doc
    BY <2>1 DEF RowsTyped, DocsTyped
  <2> QED BY <1>4, <2>1, WzTyped, SyncTyped, ConfirmTyped, CancelTyped, WholesaleTyped, ItemsTyped
<1> QED BY <1>2, <1>3, <1>5, <1>6, <1>7 DEF RowsTyped, DocsTyped

LEMMA RequestTyped ==
    ASSUME RowsTyped, StepsTyped, NEW h \in Handlers, Request(h)
    PROVE  RowsTyped' /\ StepsTyped'
<1>1. lock' = lock /\ wholesale' = wholesale /\ budget' \in 0..MaxRequests /\ Goes(h)
  BY RequestsCounted, RequestsGo
<1>2. StepsTyped'
  BY <1>1, GoesTyped DEF StepsTyped
<1>3. /\ UNCHANGED <<stock, res>>
      /\ doc' = doc \/ CreateDocument(h)
      /\ order' = order \/ ChangeStatus(h)
  BY DEF Request, ChangeStatus, RefreshReservations, ReleaseReservations, CreateWz,
         CreateDocument, ConfirmDocument, CancelDocument, DeleteDocument, AddItem, SetItem,
         DropOwn, DropItem, Recalculate, CreateZh, CreatePz, UpdateDocument, rows
<1>4. DocsTyped'
  <2>1. CASE doc' = doc
    BY <2>1 DEF RowsTyped, DocsTyped
  <2> QED BY <1>3, <2>1, CreateTyped
<1>5. order' \in [Orders -> OrderStatuses]
  BY <1>3, DataAssumption DEF RowsTyped, ChangeStatus
<1> QED BY <1>1, <1>2, <1>3, <1>4, <1>5 DEF RowsTyped, DocsTyped

LEMMA InitTyped == ASSUME Init PROVE RowsTyped /\ StepsTyped
<1>1. Idle \in AnyStep /\ FiniteStep(Idle)
  BY PendingIsAny
<1>2. FreeRes \in ResRow
  BY DEF FreeRes, ResRow, Sources
<1>3. RowsTyped
  BY <1>2, FreeDocTyped, DataAssumption DEF Init, RowsTyped, OrderStatuses
<1>4. StepsTyped
  BY <1>1 DEF Init, StepsTyped
<1> QED BY <1>3, <1>4

LEMMA NextTyped == ASSUME RowsTyped, StepsTyped, [Next]_vars PROVE RowsTyped' /\ StepsTyped'
<1>1. CASE UNCHANGED vars
  BY <1>1 DEF vars, RowsTyped, StepsTyped
<1>2. ASSUME NEW h \in Handlers, Request(h) PROVE RowsTyped' /\ StepsTyped'
  BY <1>2, RequestTyped
<1>3. ASSUME NEW h \in Handlers, Step(h) PROVE RowsTyped' /\ StepsTyped'
  BY <1>3, StepTyped
<1>4. ASSUME NEW h \in Handlers, Crash(h) PROVE RowsTyped' /\ StepsTyped'
  <2>1. Goes(h) /\ lock' \in [Orders -> Handlers \cup {None}]
    BY <1>4, ThrowGoes DEF Crash, StepsTyped
  <2>2. RowsTyped'
    BY <1>4 DEF Crash, RowsTyped, rows
  <2> QED BY <2>1, <2>2, GoesTyped
<1>5. CASE SyncOffers
  BY <1>5 DEF SyncOffers, RowsTyped, StepsTyped, rows
<1> QED BY <1>1, <1>2, <1>3, <1>4, <1>5 DEF Next, Quiescent

LEMMA Typed == Spec => [](RowsTyped /\ StepsTyped)
BY InitTyped, NextTyped, PTL DEF Spec

(* Whatever requests run at the same time, and wherever they crash, rows,  *)
(* items and plans keep natural quantities (only currentStock may become   *)
(* negative), and a step that resumes finds what the code reads there.     *)
THEOREM WarehouseTypes == Spec => []TypeOK
<1>1. RowsTyped /\ StepsTyped => TypeOK
  BY DEF RowsTyped, StepsTyped, AnyStep, TypeOK
<1> QED BY <1>1, Typed, PTL

-----------------------------------------------------------------------------
(* What an order holds and was issued *)

QtyOf == [r \in ResIds |-> res[r].qty]
SeenIds(t) == {s.r : s \in t.seen}
IssuedElsewhere(t) == Consumed(t.o) \ SeenIds(t)

(* What a handler is about to hold fits beside what the order was issued   *)
(* and is not about to be rewritten.                                       *)
WithinNeed(t) ==
    /\ \A s \in t.seen : s.r \in ResIds /\ res[s.r].o = t.o
    /\ \/ t.local + t.back = 0
       \/ t.local + t.back + SumRes(IssuedElsewhere(t)) <= Need[t.o]
PlansWithinNeed == \A h \in Handlers : at[h].k = "apply" => WithinNeed(at[h])

LEMMA SumResIs ==
    ASSUME NEW R \in SUBSET ResIds
    PROVE  SumRes(R) = SumFunctionOnSet(QtyOf, R)
<1> DEFINE f == [r \in R |-> res[r].qty]
           g == QtyOf
<1>1. SumRes(R) = SumFunctionOnSet(f, R)
  BY DEF SumRes, SumFunction
<1>2. \A r \in R : f[r] = g[r]
  BY DEF QtyOf
<1>3. IsFiniteSet(R)
  BY IdsAssumption, FS_Subset
<1> HIDE DEF f, g
<1>4. SumFunctionOnSet(f, R) = SumFunctionOnSet(g, R)
  BY <1>2, <1>3, SumEqual
<1> QED BY <1>1, <1>4 DEF g

(* The same after a step. *)
LEMMA SumResNext ==
    ASSUME NEW R \in SUBSET ResIds
    PROVE  SumRes(R)' = SumFunctionOnSet(QtyOf', R)
<1> DEFINE f == [r \in R |-> res'[r].qty]
           g == QtyOf'
<1>1. SumRes(R)' = SumFunctionOnSet(f, R)
  BY DEF SumRes, SumFunction
<1>2. \A r \in R : f[r] = g[r]
  BY DEF QtyOf
<1>3. IsFiniteSet(R)
  BY IdsAssumption, FS_Subset
<1> HIDE DEF f, g
<1>4. SumFunctionOnSet(f, R) = SumFunctionOnSet(g, R)
  BY <1>2, <1>3, SumEqual
<1> QED BY <1>1, <1>4 DEF g

LEMMA QtyOfNat ==
    ASSUME RowsTyped
    PROVE  \A r \in ResIds : QtyOf[r] \in Nat /\ QtyOf[r] = res[r].qty
BY DEF RowsTyped, ResRow, QtyOf

LEMMA QtyOfNext ==
    ASSUME RowsTyped'
    PROVE  \A r \in ResIds : QtyOf'[r] \in Nat /\ QtyOf'[r] = res'[r].qty
BY DEF RowsTyped, ResRow, QtyOf

(* Fewer reservations of the same quantities sum up to less. *)
LEMMA SumShrinks ==
    ASSUME NEW f, NEW g, NEW R \in SUBSET ResIds, NEW S \in SUBSET R,
           \A r \in ResIds : f[r] \in Nat, \A r \in S : g[r] = f[r]
    PROVE  /\ SumFunctionOnSet(f, R) \in Nat /\ SumFunctionOnSet(g, S) \in Nat
           /\ SumFunctionOnSet(g, S) <= SumFunctionOnSet(f, R)
<1>1. IsFiniteSet(R) /\ IsFiniteSet(S)
  BY IdsAssumption, FS_Subset
<1>2. SumFunctionOnSet(g, S) = SumFunctionOnSet(f, S)
  BY <1>1, SumEqual
<1>3. SumFunctionOnSet(f, S) <= SumFunctionOnSet(f, R)
  BY <1>1, SumPart
<1>4. SumFunctionOnSet(f, R) \in Nat /\ SumFunctionOnSet(f, S) \in Nat
  BY <1>1, SumNatural
<1> QED BY <1>2, <1>3, <1>4

(* One reservation beside others that keep their quantities. *)
LEMMA SumBeside ==
    ASSUME NEW f, NEW g, NEW C \in SUBSET ResIds, NEW k \in ResIds, k \notin C,
           NEW H \in SUBSET (C \cup {k}),
           \A r \in ResIds : f[r] \in Nat /\ g[r] \in Nat, \A r \in C : g[r] = f[r]
    PROVE  /\ SumFunctionOnSet(f, C) \in Nat /\ SumFunctionOnSet(g, H) \in Nat
           /\ SumFunctionOnSet(g, H) <= SumFunctionOnSet(f, C) + g[k]
<1>1. IsFiniteSet(C) /\ IsFiniteSet(C \cup {k})
  BY IdsAssumption, FS_Subset
<1>2. SumFunctionOnSet(g, C) = SumFunctionOnSet(f, C)
  BY <1>1, SumEqual
<1>3. SumFunctionOnSet(g, C \cup {k}) = g[k] + SumFunctionOnSet(g, C)
  BY <1>1, SumAdd
<1>4. SumFunctionOnSet(g, H) <= SumFunctionOnSet(g, C \cup {k})
  BY <1>1, SumPart
<1>5. SumFunctionOnSet(f, C) \in Nat /\ SumFunctionOnSet(g, H) \in Nat
  <2>1. IsFiniteSet(H) BY <1>1, FS_Subset
  <2> QED BY <1>1, <2>1, SumNatural
<1> QED BY <1>2, <1>3, <1>4, <1>5

(* Confirmations and cancellations, which do not take the lock. *)
Shrinks ==
    \A r \in ResIds :
        /\ res'[r].qty = res[r].qty /\ res'[r].o = res[r].o
        /\ res'[r].st = "ACTIVE" => res[r].st = "ACTIVE"
        /\ res'[r].st = "CONSUMED" => res[r].st \in {"ACTIVE", "CONSUMED"}

LEMMA NeedShrinks ==
    ASSUME RowsTyped, RowsTyped', ReservedWithinNeed, Shrinks
    PROVE  ReservedWithinNeed'
<1> SUFFICES ASSUME NEW o \in Orders PROVE SumRes(HeldBy(o))' <= Need[o]
  BY DEF ReservedWithinNeed
<1>1. PICK H : H = HeldBy(o)'
  OBVIOUS
<1>2. H \in SUBSET HeldBy(o) /\ HeldBy(o) \in SUBSET ResIds
  BY <1>1 DEF HeldBy, Active, Consumed, Shrinks
<1>3. SumRes(HeldBy(o))' = SumFunctionOnSet(QtyOf', H)
  BY <1>1, <1>2, SumResNext
<1>4. SumRes(HeldBy(o)) = SumFunctionOnSet(QtyOf, HeldBy(o))
  BY <1>2, SumResIs
<1>5. \A r \in H : QtyOf'[r] = QtyOf[r]
  BY <1>2, QtyOfNat, QtyOfNext DEF Shrinks
<1>6. /\ SumFunctionOnSet(QtyOf', H) <= SumFunctionOnSet(QtyOf, HeldBy(o))
      /\ SumFunctionOnSet(QtyOf', H) \in Nat /\ SumFunctionOnSet(QtyOf, HeldBy(o)) \in Nat
  BY <1>2, <1>5, QtyOfNat, SumShrinks
<1>7. SumRes(HeldBy(o)) <= Need[o] /\ Need[o] \in Nat
  BY DataAssumption DEF ReservedWithinNeed
<1> QED BY <1>3, <1>4, <1>6, <1>7

LEMMA PlanShrinks ==
    ASSUME RowsTyped, RowsTyped', NEW t, t.o \in Orders, t.local \in Nat, t.back \in Nat,
           SeesActive(t), WithinNeed(t), Shrinks
    PROVE  WithinNeed(t)'
<1>1. PICK C : C = IssuedElsewhere(t)'
  OBVIOUS
<1>2. C \in SUBSET IssuedElsewhere(t) /\ IssuedElsewhere(t) \in SUBSET ResIds
  <2>1. ASSUME NEW r \in C PROVE r \in IssuedElsewhere(t)
    <3>1. r \in ResIds /\ res'[r].st = "CONSUMED" /\ res'[r].o = t.o /\ r \notin SeenIds(t)
      BY <1>1 DEF IssuedElsewhere, Consumed, SeenIds
    <3>2. res[r].o = t.o /\ res[r].st \in {"ACTIVE", "CONSUMED"}
      BY <3>1 DEF Shrinks
    <3>3. res[r].st # "ACTIVE"
      BY <3>1, <3>2 DEF SeesActive, Active, SeenIds
    <3> QED BY <3>1, <3>2, <3>3 DEF IssuedElsewhere, Consumed
  <2> QED BY <2>1 DEF IssuedElsewhere, Consumed
<1>3. SumRes(IssuedElsewhere(t))' = SumFunctionOnSet(QtyOf', C)
  BY <1>1, <1>2, SumResNext
<1>4. SumRes(IssuedElsewhere(t)) = SumFunctionOnSet(QtyOf, IssuedElsewhere(t))
  BY <1>2, SumResIs
<1>5. \A r \in C : QtyOf'[r] = QtyOf[r]
  BY <1>2, QtyOfNat, QtyOfNext DEF Shrinks
<1>6. /\ SumFunctionOnSet(QtyOf', C) <= SumFunctionOnSet(QtyOf, IssuedElsewhere(t))
      /\ SumFunctionOnSet(QtyOf', C) \in Nat /\ SumFunctionOnSet(QtyOf, IssuedElsewhere(t)) \in Nat
  BY <1>2, <1>5, QtyOfNat, SumShrinks
<1>7. t.local + t.back = 0 \/ t.local + t.back + SumRes(IssuedElsewhere(t))' <= Need[t.o]
  <2>1. Need[t.o] \in Nat
    BY DataAssumption
  <2> QED BY <1>3, <1>4, <1>6, <2>1 DEF WithinNeed
<1>8. \A s \in t.seen : s.r \in ResIds /\ res'[s.r].o = t.o
  BY DEF WithinNeed, Shrinks
<1> QED BY <1>7, <1>8 DEF WithinNeed

(* What Apply leaves of the reservations it saw: the one of the source it  *)
(* wants, with the planned quantity, or a new one.                         *)
LEMMA OneIsKept ==
    ASSUME NEW t, t.seen \in SUBSET SeenRow,
           t.local \in Nat, t.back \in Nat, t.local = 0 \/ t.back = 0
    PROVE  /\ \A s \in t.seen : s.r \in KeptIds(t) => WantedOf(t, s.src) > 0 \/
                                  \E u \in t.seen : u.r = s.r /\ WantedOf(t, u.src) > 0
           /\ \A src \in Sources : WantedOf(t, src) > 0 => WantedOf(t, src) = t.local + t.back
           /\ t.local + t.back = 0 => KeptIds(t) = {} /\ CreatedSources(t) = {}
           /\ CreatedSources(t) # {} => KeptIds(t) = {}
           /\ \A a, b \in KeptIds(t) : a = b
<1>1. \A src \in Sources : WantedOf(t, src) \in Nat
                           /\ (WantedOf(t, src) > 0 => WantedOf(t, src) = t.local + t.back)
  BY DEF WantedOf, Sources
<1>2. \A s \in t.seen : s.src \in Sources /\ s.r \in Nat
  BY IdsAssumption DEF SeenRow
<1>3. \A a, b \in Sources : WantedOf(t, a) > 0 /\ WantedOf(t, b) > 0 => a = b
  BY DEF WantedOf, Sources
<1>4. \A a, b \in KeptIds(t) : a = b
  <2> SUFFICES ASSUME NEW a \in KeptIds(t), NEW b \in KeptIds(t) PROVE a = b
    OBVIOUS
  <2>1. PICK s \in t.seen : s.r = a /\ WantedOf(t, s.src) > 0 /\ \A u \in t.seen : u.src = s.src => s.r <= u.r
    BY DEF KeptIds
  <2>2. PICK u \in t.seen : u.r = b /\ WantedOf(t, u.src) > 0 /\ \A v \in t.seen : v.src = u.src => u.r <= v.r
    BY DEF KeptIds
  <2>3. s.src = u.src
    BY <1>2, <1>3, <2>1, <2>2
  <2> QED BY <1>2, <2>1, <2>2, <2>3
<1>5. t.local + t.back = 0 => \A src \in Sources : ~(WantedOf(t, src) > 0)
  BY DEF WantedOf
<1>6. t.local + t.back = 0 => KeptIds(t) = {} /\ CreatedSources(t) = {}
  BY <1>2, <1>5 DEF KeptIds, CreatedSources, Sources
<1>7. CreatedSources(t) # {} => KeptIds(t) = {}
  BY <1>2, <1>3 DEF KeptIds, CreatedSources, Sources
<1> QED BY <1>1, <1>4, <1>6, <1>7 DEF KeptIds

(* The rows after Apply, `new` the one it creates, if it does. *)
RowsAfter(t, new) ==
    /\ new \in ResIds => /\ res[new].st = "FREE" /\ res'[new].o = t.o
                         /\ t.local + t.back > 0 /\ KeptIds(t) = {}
                         /\ res'[new].qty = t.local + t.back
                         /\ res'[new].st = "ACTIVE"
                         /\ WantedOf(t, res'[new].src) = t.local + t.back
    /\ new \notin ResIds => CreatedSources(t) = {}
    /\ \A r \in ResIds \ {new} :
         /\ res'[r].o = res[r].o /\ res'[r].src = res[r].src
         /\ r \notin SeenIds(t) => res'[r] = res[r]
         /\ r \in SeenIds(t) \ KeptIds(t) => res'[r].st = "RELEASED"
         /\ r \in KeptIds(t) => /\ res'[r].qty = t.local + t.back /\ t.local + t.back > 0
                                /\ res'[r].st = res[r].st
                                /\ WantedOf(t, res[r].src) = t.local + t.back

LEMMA AppliedRows ==
    ASSUME RowsTyped, NEW t, SeesActive(t), WithinNeed(t), ApplyRows(t),
           t.seen \in SUBSET SeenRow,
           t.local \in Nat, t.back \in Nat, t.o \in Orders
    PROVE  \E new : RowsAfter(t, new)
<1>1. t.local = 0 \/ t.back = 0
  BY DEF SeesActive
<1>2. KeptIds(t) \subseteq SeenIds(t) /\ ClosedIds(t) = SeenIds(t) \ KeptIds(t)
  BY DEF KeptIds, SeenIds, ClosedIds
<1>3. ASSUME NEW r \in KeptIds(t) PROVE WantedOf(t, res[r].src) = t.local + t.back /\ t.local + t.back > 0
  <2>1. PICK s \in t.seen : s.r = r /\ WantedOf(t, s.src) > 0
    BY DEF KeptIds
  <2>2. s.src = res[r].src /\ s.src \in Sources
    BY <2>1 DEF SeesActive, SeenRow
  <2> QED BY <1>1, <2>1, <2>2, OneIsKept
<1>4. ASSUME NEW r \in ResIds, NEW row, row = Rewritten(t, r)
      PROVE  /\ row.o = res[r].o /\ row.src = res[r].src
             /\ r \notin SeenIds(t) => row = res[r]
             /\ r \in SeenIds(t) \ KeptIds(t) => row.st = "RELEASED"
             /\ r \in KeptIds(t) => /\ row.qty = t.local + t.back /\ t.local + t.back > 0
                                    /\ row.st = res[r].st
  <2>1. res[r] \in ResRow
    BY DEF RowsTyped
  <2>2. CASE r \in ClosedIds(t)
    BY <1>2, <1>4, <2>1, <2>2 DEF Rewritten, ResRow
  <2>3. CASE r \notin ClosedIds(t) /\ r \in KeptIds(t)
    <3>1. row = [res[r] EXCEPT !.qty = t.local + t.back]
      BY <1>3, <1>4, <2>3 DEF Rewritten
    <3> QED BY <1>2, <1>3, <2>1, <2>3, <3>1 DEF ResRow
  <2>4. CASE r \notin ClosedIds(t) /\ r \notin KeptIds(t)
    BY <1>2, <1>4, <2>4 DEF Rewritten
  <2> QED BY <2>2, <2>3, <2>4
<1>5. CASE CreatedSources(t) = {} /\ res' = [r \in ResIds |-> Rewritten(t, r)]
  <2>1. PICK new : new \notin ResIds
    BY NoSetContainsEverything
  <2>2. \A r \in ResIds : res'[r] = Rewritten(t, r)
    BY <1>5
  <2> WITNESS new
  <2> QED BY <1>3, <1>4, <1>5, <2>1, <2>2 DEF RowsAfter
<1>6. ASSUME NEW src \in CreatedSources(t), NEW new \in ResIds, IsFirstFree(new, FreeResIds),
             res' = [r \in ResIds |->
                 IF r = new
                 THEN [st |-> "ACTIVE", src |-> src, qty |-> WantedOf(t, src), o |-> t.o]
                 ELSE Rewritten(t, r)]
      PROVE  \E n : /\ n \in ResIds /\ res[n].st = "FREE" /\ res'[n].o = t.o
                    /\ t.local + t.back > 0 /\ KeptIds(t) = {}
                    /\ res'[n].qty = t.local + t.back /\ res'[n].st = "ACTIVE"
                    /\ WantedOf(t, res'[n].src) = t.local + t.back
                    /\ \A r \in ResIds \ {n} : res'[r] = Rewritten(t, r)
  <2>1. src \in Sources /\ WantedOf(t, src) > 0
    BY DEF CreatedSources, Sources
  <2>2. WantedOf(t, src) = t.local + t.back /\ KeptIds(t) = {}
    BY <1>1, <2>1, OneIsKept
  <2>3. /\ res'[new] = [st |-> "ACTIVE", src |-> src, qty |-> WantedOf(t, src), o |-> t.o]
        /\ \A r \in ResIds \ {new} : res'[r] = Rewritten(t, r)
    BY <1>6
  <2>4. res[new].st = "FREE"
    BY <1>6 DEF IsFirstFree, FreeResIds
  <2> QED BY <2>1, <2>2, <2>3, <2>4
<1>7. CASE \E src \in CreatedSources(t), new \in ResIds :
             /\ IsFirstFree(new, FreeResIds)
             /\ res' = [r \in ResIds |->
                 IF r = new
                 THEN [st |-> "ACTIVE", src |-> src, qty |-> WantedOf(t, src), o |-> t.o]
                 ELSE Rewritten(t, r)]
  <2>1. PICK n : /\ n \in ResIds /\ res[n].st = "FREE" /\ res'[n].o = t.o
                 /\ t.local + t.back > 0 /\ KeptIds(t) = {}
                 /\ res'[n].qty = t.local + t.back /\ res'[n].st = "ACTIVE"
                 /\ WantedOf(t, res'[n].src) = t.local + t.back
                 /\ \A r \in ResIds \ {n} : res'[r] = Rewritten(t, r)
    BY <1>6, <1>7
  <2> WITNESS n
  <2> QED BY <1>3, <1>4, <2>1 DEF RowsAfter
<1> QED BY <1>5, <1>7 DEF ApplyRows

LEMMA ApplyWithinNeed ==
    ASSUME RowsTyped, RowsTyped', StepsTyped, ReservationsInv, ReservedWithinNeed, PlansWithinNeed,
           NEW h \in Handlers, Apply(h)
    PROVE  /\ ReservedWithinNeed'
           /\ \A g \in Handlers \ {h} : at[g].k = "apply" => WithinNeed(at[g])'
<1>1. PICK t : t = at[h]
  OBVIOUS
<1>2. /\ t.k = "apply" /\ t.o \in Orders /\ SeesActive(t) /\ WithinNeed(t) /\ ApplyRows(t)
      /\ t.seen \in SUBSET SeenRow
      /\ t.local \in Nat /\ t.back \in Nat
  <2>1. t.k = "apply" /\ SeesActive(t) /\ WithinNeed(t)
    BY <1>1 DEF Apply, ReservationsInv, LockInv, PlansWithinNeed
  <2>2. ~Refused(t)
    BY <2>1, NothingRefused DEF ReservationsInv
  <2>3. ApplyRows(t)
    BY <1>1, <2>2 DEF Apply
  <2>4. at[h] \in AnyStep
    BY DEF StepsTyped
  <2> QED BY <1>1, <2>1, <2>3, <2>4, ReservationFields
<1>0. PICK new : RowsAfter(t, new)
  BY <1>2, AppliedRows
<1>3. /\ new \in ResIds => /\ res[new].st = "FREE" /\ res'[new].o = t.o
                           /\ t.local + t.back > 0 /\ KeptIds(t) = {}
                           /\ res'[new].qty = t.local + t.back
                           /\ res'[new].st = "ACTIVE"
      /\ \A r \in ResIds \ {new} :
           /\ res'[r].o = res[r].o
           /\ r \notin SeenIds(t) => res'[r] = res[r]
           /\ r \in SeenIds(t) \ KeptIds(t) => res'[r].st = "RELEASED"
           /\ r \in KeptIds(t) => /\ res'[r].qty = t.local + t.back /\ t.local + t.back > 0
                                  /\ res'[r].st = res[r].st
  BY <1>0 DEF RowsAfter
<1>4. \A r \in SeenIds(t) : r \in ResIds /\ res[r].o = t.o /\ res[r].st # "FREE" /\ r # new
  BY <1>2, <1>3 DEF SeenIds, WithinNeed, SeesActive
(* The rows of other orders stay as they are. *)
<1>5. ASSUME NEW r \in ResIds, (res[r].o # t.o /\ res[r].st # "FREE") \/ res'[r].o # t.o
      PROVE  res'[r] = res[r]
  BY <1>3, <1>4, <1>5
<1>6. \A r \in ResIds : QtyOf[r] \in Nat /\ QtyOf'[r] \in Nat
                        /\ QtyOf[r] = res[r].qty /\ QtyOf'[r] = res'[r].qty
  BY QtyOfNat, QtyOfNext
<1>7. ASSUME NEW o \in Orders, o # t.o
      PROVE  SumRes(HeldBy(o))' <= Need[o]
  <2>1. PICK H : H = HeldBy(o)'
    OBVIOUS
  <2>2. H \in SUBSET HeldBy(o) /\ HeldBy(o) \in SUBSET ResIds
    BY <1>5, <1>7, <2>1 DEF HeldBy, Active, Consumed
  <2>3. SumRes(HeldBy(o))' = SumFunctionOnSet(QtyOf', H)
    BY <2>1, <2>2, SumResNext
  <2>4. SumRes(HeldBy(o)) = SumFunctionOnSet(QtyOf, HeldBy(o))
    BY <2>2, SumResIs
  <2>5. \A r \in H : QtyOf'[r] = QtyOf[r]
    BY <1>5, <1>6, <1>7, <2>1 DEF HeldBy, Active, Consumed
  <2>6. /\ SumFunctionOnSet(QtyOf', H) <= SumFunctionOnSet(QtyOf, HeldBy(o))
        /\ SumFunctionOnSet(QtyOf', H) \in Nat /\ SumFunctionOnSet(QtyOf, HeldBy(o)) \in Nat
    BY <1>6, <2>2, <2>5, SumShrinks
  <2>7. SumRes(HeldBy(o)) <= Need[o] /\ Need[o] \in Nat
    BY DataAssumption DEF ReservedWithinNeed
  <2> QED BY <2>3, <2>4, <2>6, <2>7
<1>8. SumRes(HeldBy(t.o))' <= Need[t.o]
  <2>1. PICK H : H = HeldBy(t.o)'
    OBVIOUS
  <2> DEFINE C == IssuedElsewhere(t)
  <2>2. C \in SUBSET ResIds /\ H \in SUBSET ResIds /\ C \subseteq HeldBy(t.o)
        /\ HeldBy(t.o) \in SUBSET ResIds
    BY <2>1 DEF IssuedElsewhere, HeldBy, Active, Consumed
  <2>3. \A r \in H : r \in C \/ r = new \/ r \in KeptIds(t)
    <3>1. ASSUME NEW r \in H, r # new, r \notin KeptIds(t) PROVE r \in C
      <4>1. r \in ResIds /\ res'[r].o = t.o /\ res'[r].st \in {"ACTIVE", "CONSUMED"}
        BY <2>1 DEF HeldBy, Active, Consumed
      <4>2. r \notin SeenIds(t) /\ res'[r] = res[r]
        BY <1>3, <3>1, <4>1
      <4>3. res[r].st # "ACTIVE"
        BY <1>2, <4>1, <4>2 DEF SeesActive, Active, SeenIds
      <4> QED BY <4>1, <4>2, <4>3 DEF IssuedElsewhere, Consumed
    <3> QED BY <3>1
  <2>4. \A r \in C : QtyOf'[r] = QtyOf[r]
    <3>1. ASSUME NEW r \in C PROVE res'[r] = res[r]
      BY <1>3 DEF IssuedElsewhere, Consumed
    <3> QED BY <1>6, <2>2, <3>1
  <2>5. SumRes(HeldBy(t.o))' = SumFunctionOnSet(QtyOf', H)
    BY <2>1, <2>2, SumResNext
  <2>6. SumRes(C) = SumFunctionOnSet(QtyOf, C) /\ SumRes(HeldBy(t.o)) = SumFunctionOnSet(QtyOf, HeldBy(t.o))
    BY <2>2, SumResIs
  <2>7. Need[t.o] \in Nat /\ SumRes(HeldBy(t.o)) <= Need[t.o]
    BY <1>2, DataAssumption DEF ReservedWithinNeed
  <2>8. KeptIds(t) \subseteq SeenIds(t) /\ (t.local + t.back = 0 => KeptIds(t) = {})
        /\ \A a, b \in KeptIds(t) : a = b
    <3>1. KeptIds(t) \subseteq SeenIds(t) BY DEF KeptIds, SeenIds
    <3>2. t.local = 0 \/ t.back = 0 BY <1>2 DEF SeesActive
    <3> QED BY <1>2, <3>1, <3>2, OneIsKept
  <2>9. CASE new \notin ResIds /\ KeptIds(t) = {}
    <3>1. H \in SUBSET C
      BY <2>2, <2>3, <2>9
    <3>2. SumFunctionOnSet(QtyOf', H) \in Nat /\ SumFunctionOnSet(QtyOf', H) <= SumFunctionOnSet(QtyOf, HeldBy(t.o))
          /\ SumFunctionOnSet(QtyOf, HeldBy(t.o)) \in Nat
      <4>1. H \in SUBSET HeldBy(t.o) /\ \A r \in H : QtyOf'[r] = QtyOf[r]
        BY <2>2, <2>4, <3>1
      <4> HIDE DEF C
      <4> QED BY <1>6, <2>2, <4>1, SumShrinks
    <3> QED BY <2>5, <2>6, <2>7, <3>2
  <2>10. ASSUME NEW k \in ResIds, k \notin C, H \subseteq C \cup {k},
                res'[k].qty = t.local + t.back, t.local + t.back > 0
         PROVE  SumRes(HeldBy(t.o))' <= Need[t.o]
    <3>1. t.local + t.back + SumRes(C) <= Need[t.o]
      BY <1>2, <2>10 DEF WithinNeed
    <3>2. /\ SumFunctionOnSet(QtyOf, C) \in Nat /\ SumFunctionOnSet(QtyOf', H) \in Nat
          /\ SumFunctionOnSet(QtyOf', H) <= SumFunctionOnSet(QtyOf, C) + QtyOf'[k]
      <4> HIDE DEF C
      <4> QED BY <1>6, <2>2, <2>4, <2>10, SumBeside
    <3>3. QtyOf'[k] = t.local + t.back
      BY <1>6, <2>10
    <3> HIDE DEF C
    <3> QED BY <1>2, <2>5, <2>6, <2>7, <3>1, <3>2, <3>3
  <2>11. CASE new \in ResIds
    <3>1. KeptIds(t) = {} /\ new \notin C
      BY <1>3, <2>11 DEF IssuedElsewhere, Consumed
    <3> QED BY <1>3, <2>3, <2>10, <2>11, <3>1
  <2>12. CASE new \notin ResIds /\ KeptIds(t) # {}
    <3>1. PICK k \in KeptIds(t) : TRUE
      BY <2>12
    <3>2. k \in ResIds /\ k \notin C /\ KeptIds(t) = {k} /\ new # k
      BY <1>4, <2>8, <2>12, <3>1 DEF IssuedElsewhere
    <3>3. H \subseteq C \cup {k}
      BY <2>2, <2>3, <2>12, <3>2
    <3> QED BY <1>3, <2>10, <3>2, <3>3
  <2> QED BY <2>9, <2>11, <2>12
<1>9. ReservedWithinNeed'
  BY <1>7, <1>8 DEF ReservedWithinNeed
<1>10. ASSUME NEW g \in Handlers \ {h}, at[g].k = "apply"
       PROVE  WithinNeed(at[g])'
  <2>1. PICK u : u = at[g]
    OBVIOUS
  <2>2. /\ u.o \in Orders /\ u.local \in Nat /\ u.back \in Nat /\ WithinNeed(u) /\ SeesActive(u)
        /\ u.o # t.o
    <3>1. u.o # t.o
      BY <1>1, <1>2, <1>10, <2>1, OwnOrder DEF ReservationsInv
    <3> QED BY <1>10, <2>1, <3>1, ReservationFields
            DEF ReservationsInv, LockInv, PlansWithinNeed, StepsTyped
  <2>3. \A s \in u.seen : s.r \in ResIds /\ res'[s.r].o = u.o
    <3>1. ASSUME NEW s \in u.seen PROVE s.r \in ResIds /\ res'[s.r] = res[s.r] /\ res[s.r].o = u.o
      BY <1>5, <2>2 DEF WithinNeed, SeesActive
    <3> QED BY <3>1
  <2>4. PICK C : C = IssuedElsewhere(u)'
    OBVIOUS
  <2>5. C \in SUBSET IssuedElsewhere(u) /\ IssuedElsewhere(u) \in SUBSET ResIds
    BY <1>5, <2>2, <2>4 DEF IssuedElsewhere, Consumed, SeenIds
  <2>6. \A r \in C : QtyOf'[r] = QtyOf[r]
    BY <1>5, <1>6, <2>2, <2>4 DEF IssuedElsewhere, Consumed
  <2>7. SumRes(IssuedElsewhere(u))' = SumFunctionOnSet(QtyOf', C)
    BY <2>4, <2>5, SumResNext
  <2>8. SumRes(IssuedElsewhere(u)) = SumFunctionOnSet(QtyOf, IssuedElsewhere(u))
    BY <2>5, SumResIs
  <2>9. /\ SumFunctionOnSet(QtyOf', C) <= SumFunctionOnSet(QtyOf, IssuedElsewhere(u))
        /\ SumFunctionOnSet(QtyOf', C) \in Nat /\ SumFunctionOnSet(QtyOf, IssuedElsewhere(u)) \in Nat
    BY <1>6, <2>5, <2>6, SumShrinks
  <2>10. Need[u.o] \in Nat
    BY <2>2, DataAssumption
  <2>11. u.local + u.back = 0 \/ u.local + u.back + SumRes(IssuedElsewhere(u))' <= Need[u.o]
    BY <2>2, <2>7, <2>8, <2>9, <2>10 DEF WithinNeed
  <2>12. WithinNeed(u)'
    BY <2>3, <2>11 DEF WithinNeed
  <2>13. at'[g] = u
    BY <2>1, ReservationsGo DEF Goes
  <2> QED BY <2>12, <2>13
<1> QED BY <1>9, <1>10

NeedInv == RowsTyped /\ StepsTyped /\ ReservationsInv /\ ReservedWithinNeed /\ PlansWithinNeed

(* A step of another handler, or one that is not the read of a reservation *)
(* transaction, leaves the plans of the handlers that hold a lock.         *)
LEMMA PlansKept ==
    ASSUME NeedInv, RowsTyped', NEW h \in Handlers, at'[h].k # "apply",
           \A g \in Handlers \ {h} : at'[g] = at[g], Shrinks
    PROVE  PlansWithinNeed'
<1> SUFFICES ASSUME NEW g \in Handlers, at'[g].k = "apply" PROVE WithinNeed(at[g])'
  BY DEF PlansWithinNeed
<1>1. PICK t : t = at[g]
  OBVIOUS
<1>2. g # h /\ at'[g] = t /\ t.k = "apply"
  BY <1>1
<1>3. t.o \in Orders /\ t.local \in Nat /\ t.back \in Nat /\ SeesActive(t) /\ WithinNeed(t)
  BY <1>1, <1>2, ReservationFields
     DEF NeedInv, ReservationsInv, LockInv, PlansWithinNeed, StepsTyped
<1>4. WithinNeed(t)'
  BY <1>3, PlanShrinks DEF NeedInv
<1> QED BY <1>2, <1>4

LEMMA SameRowsShrink ==
    ASSUME res' = res
    PROVE  Shrinks
BY DEF Shrinks

LEMMA ConsumeShrinks ==
    ASSUME RowsTyped, NEW R, NEW cancelled, ConsumeRows(R, cancelled),
           \A r \in R \cap ResIds : res[r].st = "ACTIVE"
    PROVE  Shrinks
<1> SUFFICES ASSUME NEW r \in ResIds
             PROVE  /\ res'[r].qty = res[r].qty /\ res'[r].o = res[r].o
                    /\ res'[r].st = "ACTIVE" => res[r].st = "ACTIVE"
                    /\ res'[r].st = "CONSUMED" => res[r].st \in {"ACTIVE", "CONSUMED"}
  BY DEF Shrinks
<1>1. res[r] \in ResRow
  BY DEF RowsTyped
<1> QED BY <1>1 DEF ConsumeRows, ResRow

LEMMA CancelShrinks ==
    ASSUME RowsTyped, NEW h, CancelTx(h)
    PROVE  Shrinks
<1> DEFINE holding == {s.r : s \in at[h].seen}
<1>1. \/ res' = res
      \/ res' = [r \in ResIds |-> IF r \in holding THEN [res[r] EXCEPT !.st = "RELEASED"] ELSE res[r]]
  BY Zenon DEF CancelTx
<1> HIDE DEF holding
<1> SUFFICES ASSUME NEW r \in ResIds
             PROVE  /\ res'[r].qty = res[r].qty /\ res'[r].o = res[r].o
                    /\ res'[r].st = "ACTIVE" => res[r].st = "ACTIVE"
                    /\ res'[r].st = "CONSUMED" => res[r].st \in {"ACTIVE", "CONSUMED"}
  BY DEF Shrinks
<1>2. res[r] \in ResRow
  BY DEF RowsTyped
<1> QED BY <1>1, <1>2 DEF ResRow

LEMMA ReadWithinNeed ==
    ASSUME NeedInv, RowsTyped', NEW h \in Handlers, ReserveTx(h) \/ ReleaseTx(h)
    PROVE  ReservedWithinNeed' /\ PlansWithinNeed'
<1> USE DEF NeedInv
<1>1. res' = res
  BY DEF ReserveTx, ReleaseTx, rows
<1>2. ReservedWithinNeed'
  BY <1>1, SameRowsShrink, NeedShrinks
<1>3. PICK plan : Planned(at[h].o, plan) /\ Goto(h, ApplyStep(at[h].o, SeenActive(at[h].o), plan))
  BY ReservationPlanned
<1> DEFINE o == at[h].o
           t == ApplyStep(o, SeenActive(o), plan)
<1>4. o \in Orders
  BY ReservationPlanned
<1>5. at' = [at EXCEPT ![h] = t]
  BY <1>3 DEF Goto
<1>6. WithinNeed(t)
  <2>1. t.seen = SeenActive(o) /\ t.local = plan.local /\ t.back = plan.back /\ t.o = o
    BY DEF ApplyStep
  <2>2. \A s \in SeenActive(o) : s.r \in ResIds /\ res[s.r].o = o /\ res[s.r].st = "ACTIVE"
    BY DEF SeenActive, Active
  <2> HIDE DEF t, o
  <2>3. IssuedElsewhere(t) = Consumed(o)
    BY <2>1, <2>2 DEF IssuedElsewhere, SeenIds, Consumed
  <2> QED BY <1>3, <2>1, <2>2, <2>3 DEF WithinNeed, Planned, o
<1> HIDE DEF t
<1>7. ASSUME NEW g \in Handlers, at'[g].k = "apply"
      PROVE  WithinNeed(at[g])'
  <2>1. PICK u : u = at'[g]
    OBVIOUS
  <2>2. WithinNeed(u)
    <3>1. CASE g = h
      BY <1>5, <1>6, <2>1, <3>1 DEF StepsTyped
    <3>2. CASE g # h
      BY <1>5, <1>7, <2>1, <3>2 DEF StepsTyped, PlansWithinNeed
    <3> QED BY <3>1, <3>2
  <2>3. WithinNeed(u)'
    BY <1>1, <2>2 DEF WithinNeed, IssuedElsewhere, Consumed, SeenIds, SumRes
  <2> QED BY <2>1, <2>3
<1> QED BY <1>2, <1>7 DEF PlansWithinNeed

(* What a document is about to consume is still active.                    *)
ReadsStand ==
    \A h \in Handlers : at[h].k \in {"wzTx", "confirmTx"} =>
        \A r \in at[h].consumed : res[r].st = "ACTIVE"

LEMMA NeedNext == NeedInv /\ ReadsStand /\ [Next]_vars => NeedInv'
<1> SUFFICES ASSUME NeedInv, ReadsStand, [Next]_vars PROVE NeedInv'
  OBVIOUS
<1>1. /\ RowsTyped /\ StepsTyped /\ ReservationsInv /\ ReservedWithinNeed /\ PlansWithinNeed
      /\ RowsTyped' /\ StepsTyped' /\ ReservationsInv'
  BY NextTyped, ReservationsNext DEF NeedInv
<1>2. CASE SyncOffers \/ Quiescent \/ UNCHANGED vars
  <2>1. UNCHANGED <<res, at>>
    BY <1>2 DEF SyncOffers, Quiescent, rows, vars
  <2>2. PlansWithinNeed' /\ ReservedWithinNeed'
    BY <1>1, <2>1 DEF PlansWithinNeed, WithinNeed, IssuedElsewhere, SeenIds, SumRes,
                      ReservedWithinNeed, HeldBy, Active, Consumed
  <2> QED BY <1>1, <2>2 DEF NeedInv
<1>3. ASSUME NEW h \in Handlers, at'[h].k # "apply",
             \A g \in Handlers \ {h} : at'[g] = at[g], Shrinks
      PROVE  NeedInv'
  BY <1>1, <1>3, NeedShrinks, PlansKept DEF NeedInv
<1>4. ASSUME NEW h \in Handlers, Request(h) \/ Crash(h)
      PROVE  NeedInv'
  <2>1. res' = res
    BY <1>4 DEF Request, Begin, rows, ChangeStatus, RefreshReservations, ReleaseReservations,
                CreateWz, CreateDocument, ConfirmDocument, CancelDocument, DeleteDocument,
                AddItem, SetItem, DropOwn, DropItem, Recalculate, CreateZh, CreatePz,
                UpdateDocument, Crash
  <2>2. Moves(h)
    BY <1>1, <1>4, ShapeRequests DEF ReservationsInv
  <2> QED BY <1>3, <2>1, <2>2, SameRowsShrink DEF Moves
<1>5. ASSUME NEW h \in Handlers, ReserveTx(h) \/ ReleaseTx(h)
      PROVE  NeedInv'
  BY <1>1, <1>5, ReadWithinNeed DEF NeedInv
<1>6. ASSUME NEW h \in Handlers, Apply(h)
      PROVE  NeedInv'
  <2>1. /\ ReservedWithinNeed'
        /\ \A g \in Handlers \ {h} : at[g].k = "apply" => WithinNeed(at[g])'
    BY <1>1, <1>6, ApplyWithinNeed
  <2>2. Moves(h)
    BY <1>1, <1>6, ShapeReservations DEF ReservationsInv, Departs
  <2>3. PlansWithinNeed'
    BY <2>1, <2>2 DEF PlansWithinNeed, Moves
  <2> QED BY <1>1, <2>1, <2>3 DEF NeedInv
<1>7. ASSUME NEW h \in Handlers, WzTx(h) \/ ConfirmTx(h) \/ CancelTx(h)
      PROVE  NeedInv'
  <2>1. Moves(h)
    BY <1>1, <1>7, ShapeWz, ShapeDocuments DEF ReservationsInv, Departs
  <2>2. \/ res' = res
        \/ CancelTx(h)
        \/ at[h].k \in {"wzTx", "confirmTx"} /\ \E cancelled : ConsumeRows(at[h].consumed, cancelled)
    BY <1>7 DEF WzTx, ConfirmTx
  <2>3. Shrinks
    BY <1>1, <2>2, SameRowsShrink, ConsumeShrinks, CancelShrinks, Zenon DEF ReadsStand
  <2> QED BY <1>3, <2>1, <2>3 DEF Moves
<1>8. ASSUME NEW h \in Handlers,
             \/ Reserve(h) \/ ReserveAndWz(h) \/ Wz(h) \/ Collect(h) \/ Sync(h) \/ SyncTx(h)
             \/ Finalize(h) \/ Confirm(h) \/ Realloc(h) \/ ReallocOrders(h) \/ ReallocDrafts(h)
             \/ DeleteTx(h) \/ AddItemTx(h) \/ SetItemTx(h) \/ DropOwnTx(h) \/ DropItemTx(h)
             \/ RecalculateTx(h) \/ Zh(h) \/ ZhCollect(h) \/ ZhTx(h) \/ PzTx(h) \/ UpdateTx(h)
      PROVE  NeedInv'
  <2>1. Moves(h)
    BY <1>1, <1>8, ShapeReservations, ShapeWz, ShapeWholesale, ShapeDocuments
       DEF ReservationsInv, Departs
  <2>2. res' = res
    BY <1>8 DEF rows, Reserve, ReserveAndWz, Wz, Collect, Sync, SyncTx, Finalize, Confirm,
                Realloc, ReallocOrders, ReallocDrafts, DeleteTx, AddItemTx, SetItemTx,
                DropOwnTx, DropItemTx, RecalculateTx, Zh, ZhCollect, ZhTx, PzTx, UpdateTx
  <2> QED BY <1>3, <2>1, <2>2, SameRowsShrink DEF Moves
<1> QED BY <1>2, <1>4, <1>5, <1>6, <1>7, <1>8 DEF Next, Step

LEMMA NeedInit == Init => NeedInv
<1> SUFFICES ASSUME Init PROVE NeedInv
  OBVIOUS
<1>1. /\ res = [r \in ResIds |-> FreeRes] /\ \A h \in Handlers : at[h] = Idle
  BY DEF Init
<1>2. PlansWithinNeed
  BY <1>1 DEF PlansWithinNeed, Idle
<1>3. ASSUME NEW o \in Orders PROVE SumRes(HeldBy(o)) <= Need[o]
  <2>1. HeldBy(o) = {}
    BY <1>1 DEF HeldBy, Active, Consumed, FreeRes
  <2>2. SumRes({}) = 0
    BY SumEmpty DEF SumRes, SumFunction
  <2>3. Need[o] \in Nat
    BY DataAssumption
  <2> QED BY <2>1, <2>2, <2>3
<1> QED BY <1>2, <1>3, InitTyped, ReservationsInit DEF NeedInv, ReservedWithinNeed
=============================================================================
