--------------------------- MODULE ExchangeProofs ---------------------------
(***************************************************************************)
(* Proofs about what the panel and the world outside exchange: the stock   *)
(* that the shops show, the feed of a wholesaler, the orders that a shop   *)
(* announces more than once, or not at all.                                *)
(***************************************************************************)
EXTENDS MCExchange, OrderIntake, FiniteSetTheorems, WellFoundedInduction, TLAPS

-----------------------------------------------------------------------------
(***************************************************************************)
(* Whatever is queued, queued again, repeated, torn or lost, a write       *)
(* brings a shop parts of one state that the warehouse and the wholesaler  *)
(* made: the publication implements the safety half of InventoryMirror.    *)
(***************************************************************************)

(* States made of a stock and an offer that were there to be read. *)
Shown == {Decision(o, f) : o \in ownSeen, f \in offerSeen}

(* The rows that carry members of a set of decisions. *)
BusyOf(D) ==
    [at : {"waiting", "reading", "active", "half", "written"},
     sends : D \cup {WithoutInStock(d) : d \in D}, attempts : Nat, stalled : BOOLEAN]
JobsOf(D) == {NoJob} \cup {Unqueued(s) : s \in Reasons} \cup BusyOf(D)
RowsOf(D) ==
    [age : Nat, st : {"PENDING", "PROCESSING", "SUCCESS", "FAILED"}, item : D,
     named : BOOLEAN, jobs : [1..2 -> JobsOf(D)]]

(* What makes it inductive: every value on its way to the shop, in a       *)
(* publication that runs, in a log or in a job, was read.                  *)
ReadOnly ==
    /\ own \in StockLevels /\ own \in ownSeen
    /\ offer \in SupplierOffers /\ offer \in offerSeen
    /\ logs \subseteq RowsOf(Shown) /\ IsFiniteSet(logs)
    /\ DOMAIN sending = Reasons
    /\ \A s \in Reasons : sending[s].at = "read" => sending[s].own \in ownSeen
    /\ \A s \in Reasons : sending[s].at \in {"decided", "compared"} => sending[s].item \in Shown

LEMMA DecisionIsRecord ==
    ASSUME NEW o, NEW f
    PROVE  \E q, i, b, p :
              Decision(o, f) = [qty |-> q, inStock |-> i, outOfStock |-> b, policy |-> p]
BY DEF Decision

(* More decisions, more rows. *)
LEMMA RowsGrow ==
    ASSUME NEW D, NEW E, D \subseteq E
    PROVE  RowsOf(D) \subseteq RowsOf(E)
<1>1. D \cup {WithoutInStock(d) : d \in D} \subseteq E \cup {WithoutInStock(d) : d \in E}
  OBVIOUS
<1>2. BusyOf(D) \subseteq BusyOf(E)
  BY <1>1 DEF BusyOf
<1>3. JobsOf(D) \subseteq JobsOf(E)
  BY <1>2 DEF JobsOf
<1>4. [1..2 -> JobsOf(D)] \subseteq [1..2 -> JobsOf(E)]
  BY <1>3
<1> QED BY <1>4 DEF RowsOf

LEMMA PairOfJobs ==
    ASSUME NEW D, NEW i \in JobsOf(D), NEW j \in JobsOf(D)
    PROVE  <<i, j>> \in [1..2 -> JobsOf(D)]
OBVIOUS

(* A job is replaced, or the status of its log. *)
LEMMA WithFits ==
    ASSUME NEW D, NEW l \in RowsOf(D), NEW n \in 1..2, NEW j \in JobsOf(D)
    PROVE  With(l, n, j) \in RowsOf(D)
<1>1. PICK js : js = [l.jobs EXCEPT ![n] = j]
  OBVIOUS
<1>2. js \in [1..2 -> JobsOf(D)]
  BY <1>1 DEF RowsOf
<1>3. With(l, n, j) = [l EXCEPT !.jobs = js]
  BY <1>1 DEF With, RowsOf
<1> QED BY <1>2, <1>3 DEF RowsOf

LEMMA StatusFits ==
    ASSUME NEW D, NEW l \in RowsOf(D),
           NEW st \in {"PENDING", "PROCESSING", "SUCCESS", "FAILED"}
    PROVE  [l EXCEPT !.st = st] \in RowsOf(D) /\ [l EXCEPT !.st = st].jobs = l.jobs
BY DEF RowsOf

LEMMA BusyFits ==
    ASSUME NEW D, NEW l \in RowsOf(D), NEW n \in 1..2,
           l.jobs[n].at \in {"waiting", "reading", "active", "half", "written"}
    PROVE  l.jobs[n] \in BusyOf(D)
<1>1. l.jobs[n] \in JobsOf(D)
  BY DEF RowsOf
<1>2. NoJob.at = "none" /\ \A s : Unqueued(s).at = "unqueued"
  BY DEF NoJob, Unqueued
<1> QED BY <1>1, <1>2 DEF JobsOf

(* The steps of a job write rows of the same set. *)
LEMMA StepsFit ==
    ASSUME NEW D, NEW l \in RowsOf(D), NEW n \in 1..2,
           l.jobs[n].at \in {"waiting", "reading", "active", "half", "written"},
           NEW st \in {"PENDING", "PROCESSING", "SUCCESS", "FAILED"},
           NEW at \in {"waiting", "reading", "active", "half", "written"}
    PROVE  /\ At(l, n, at) \in RowsOf(D)
           /\ At([l EXCEPT !.st = st], n, at) \in RowsOf(D)
           /\ With([l EXCEPT !.st = st], n, NoJob) \in RowsOf(D)
           /\ With([l EXCEPT !.st = st], n,
                   [l.jobs[n] EXCEPT !.at = at, !.attempts = @ + 1]) \in RowsOf(D)
           /\ With(l, n, [l.jobs[n] EXCEPT !.at = at, !.stalled = TRUE]) \in RowsOf(D)
<1>1. l.jobs[n] \in BusyOf(D)
  BY BusyFits
<1>2. PICK m \in RowsOf(D) : m = [l EXCEPT !.st = st] /\ m.jobs = l.jobs
  BY StatusFits
<1>3. [l.jobs[n] EXCEPT !.at = at] \in BusyOf(D)
  BY <1>1 DEF BusyOf
<1>4. [l.jobs[n] EXCEPT !.at = at, !.stalled = TRUE] \in BusyOf(D)
  BY <1>1 DEF BusyOf
<1>5. [l.jobs[n] EXCEPT !.at = at, !.attempts = @ + 1] \in BusyOf(D)
  <2>1. PICK j \in BusyOf(D) : j = l.jobs[n]
    BY <1>1
  <2>2. PICK tries \in Nat : tries = j.attempts + 1
    BY DEF BusyOf
  <2>3. [j EXCEPT !.at = at, !.attempts = tries] \in BusyOf(D)
    BY DEF BusyOf
  <2> QED BY <2>1, <2>2, <2>3
<1>6. BusyOf(D) \subseteq JobsOf(D) /\ NoJob \in JobsOf(D)
  BY DEF JobsOf
<1>7. At(l, n, at) \in RowsOf(D)
  BY <1>3, <1>6, WithFits DEF At
<1>8. At(m, n, at) \in RowsOf(D)
  <2>1. At(m, n, at) = With(m, n, [l.jobs[n] EXCEPT !.at = at])
    BY <1>2 DEF At
  <2> QED BY <1>3, <1>6, <2>1, WithFits
<1>9. /\ With(m, n, NoJob) \in RowsOf(D)
      /\ With(m, n, [l.jobs[n] EXCEPT !.at = at, !.attempts = @ + 1]) \in RowsOf(D)
      /\ With(l, n, [l.jobs[n] EXCEPT !.at = at, !.stalled = TRUE]) \in RowsOf(D)
  BY <1>4, <1>5, <1>6, WithFits
<1> QED BY <1>2, <1>7, <1>8, <1>9

(* One row is replaced: there are not more of them. *)
LEMMA RowReplaced ==
    ASSUME NEW ls, IsFiniteSet(ls), NEW l \in ls, NEW m
    PROVE  /\ IsFiniteSet((ls \ {l}) \cup {m})
           /\ Cardinality((ls \ {l}) \cup {m}) <= Cardinality(ls)
           /\ Cardinality((ls \ {l}) \cup {m}) \in Nat
<1>1. IsFiniteSet(ls \ {l}) /\ Cardinality(ls \ {l}) = Cardinality(ls) - 1
  BY FS_RemoveElement
<1>2. Cardinality(ls) \in Nat /\ Cardinality(ls \ {l}) \in Nat
  BY <1>1, FS_CardinalityType
<1>3. /\ IsFiniteSet((ls \ {l}) \cup {m})
      /\ Cardinality((ls \ {l}) \cup {m}) \in
            {Cardinality(ls \ {l}), Cardinality(ls \ {l}) + 1}
  BY <1>1, FS_AddElement
<1> QED BY <1>1, <1>2, <1>3

(* Forgetting leaves no more rows than there were. *)
LEMMA ForgettingFits ==
    ASSUME NEW ls, NEW D, ls \subseteq RowsOf(D), IsFiniteSet(ls)
    PROVE  /\ Forget(ls) \subseteq RowsOf(D) /\ IsFiniteSet(Forget(ls))
           /\ Cardinality(Forget(ls)) <= Cardinality(ls)
           /\ Cardinality(Forget(ls)) \in Nat
<1>1. PICK kept : kept = {l \in ls : Needed(l, ls)}
  OBVIOUS
<1>2. IsFiniteSet(kept) /\ Cardinality(kept) <= Cardinality(ls)
  BY <1>1, FS_Subset
<1>3. PICK older : older = [l \in kept |-> Cardinality({k \in kept : k.age <= l.age})]
  OBVIOUS
<1>4. \A l \in kept : older[l] \in Nat
  <2> SUFFICES ASSUME NEW l \in kept PROVE older[l] \in Nat OBVIOUS
  <2>1. {k \in kept : k.age <= l.age} \subseteq kept
    OBVIOUS
  <2>2. IsFiniteSet({k \in kept : k.age <= l.age})
    BY <1>2, <2>1, FS_Subset
  <2>3. older[l] = Cardinality({k \in kept : k.age <= l.age})
    BY <1>3
  <2> QED BY <2>2, <2>3, FS_CardinalityType
<1>5. PICK aged : aged = [l \in kept |-> [l EXCEPT !.age = older[l]]]
  OBVIOUS
<1>6. Forget(ls) = {aged[l] : l \in kept}
  <2>1. Forget(ls) = {[l EXCEPT !.age = Cardinality({k \in kept : k.age <= l.age})] : l \in kept}
    BY <1>1 DEF Forget
  <2>2. \A l \in kept : aged[l] = [l EXCEPT !.age = Cardinality({k \in kept : k.age <= l.age})]
    BY <1>3, <1>5
  <2>3. ASSUME NEW m \in Forget(ls) PROVE m \in {aged[l] : l \in kept}
    <3>1. PICK l \in kept : m = [l EXCEPT !.age = Cardinality({k \in kept : k.age <= l.age})]
      BY <2>1
    <3>2. m = aged[l]
      BY <2>2, <3>1
    <3> QED BY <3>2
  <2>4. ASSUME NEW l \in kept PROVE aged[l] \in Forget(ls)
    BY <2>1, <2>2
  <2> QED BY <2>3, <2>4
<1>7. Forget(ls) \subseteq RowsOf(D)
  <2> SUFFICES ASSUME NEW l \in kept PROVE aged[l] \in RowsOf(D)
    BY <1>6
  <2>1. l \in RowsOf(D) /\ older[l] \in Nat
    BY <1>1, <1>4
  <2>2. aged[l] = [l EXCEPT !.age = older[l]]
    BY <1>5
  <2> QED BY <2>1, <2>2 DEF RowsOf
<1>8. IsFiniteSet(Forget(ls)) /\ Cardinality(Forget(ls)) <= Cardinality(kept)
  <2>1. aged \in [kept -> Forget(ls)]
    BY <1>5, <1>6
  <2>2. \A m \in Forget(ls) : \E l \in kept : aged[l] = m
    BY <1>6
  <2>3. aged \in Surjection(kept, Forget(ls))
    BY <2>1, <2>2 DEF Surjection
  <2> QED BY <1>2, <2>3, FS_Surjection
<1>9. Cardinality(Forget(ls)) \in Nat /\ Cardinality(kept) \in Nat /\ Cardinality(ls) \in Nat
  BY <1>2, <1>8, FS_CardinalityType
<1> QED BY <1>2, <1>7, <1>8, <1>9

(* What a step may do to the logs: nothing, replace one by a row that      *)
(* carries what was read, or add one.                                      *)
Rewrites ==
    \/ logs' = logs
    \/ \E l \in logs, m \in RowsOf(Shown) : Update(l, m) \/ UpdateAndForget(l, m)
Adds(m) == m \in RowsOf(Shown) /\ logs' = logs \cup {m}

LEMMA ReadAtFirst == PublicationInit => ReadOnly
<1> SUFFICES ASSUME PublicationInit PROVE ReadOnly OBVIOUS
<1>1. own \in StockLevels /\ own \in ownSeen /\ offer \in SupplierOffers /\ offer \in offerSeen
  BY DEF PublicationInit
<1>2. PICK d \in Shown : d = Decision(own, offer)
  BY <1>1 DEF Shown
<1>3. PICK js : js = <<NoJob, NoJob>>
  OBVIOUS
<1>4. js \in [1..2 -> JobsOf(Shown)]
  BY <1>3, PairOfJobs DEF JobsOf
<1>5. PICK l : l = [age |-> 1, st |-> "SUCCESS", item |-> d, named |-> TRUE, jobs |-> js]
  OBVIOUS
<1>6. l \in RowsOf(Shown)
  BY <1>4, <1>5 DEF RowsOf
<1>7. logs = {l}
  BY <1>2, <1>3, <1>5 DEF PublicationInit
<1>8. logs \subseteq RowsOf(Shown) /\ IsFiniteSet(logs)
  BY <1>6, <1>7, FS_Singleton
<1>9. DOMAIN sending = Reasons /\ \A s \in Reasons : sending[s].at = "idle"
  BY DEF PublicationInit, Idle
<1> QED BY <1>1, <1>8, <1>9 DEF ReadOnly

(* The stock and the offers change: what was read stays read. *)
LEMMA MovesKeepRead ==
    ASSUME ReadOnly, StockMoves \/ OfferChanges
    PROVE  ReadOnly' /\ Mirror!WarehouseChanges
<1>1. /\ own' \in StockLevels /\ ownSeen' = ownSeen \cup {own'}
      /\ offer' \in SupplierOffers /\ offerSeen' = offerSeen \cup {offer'}
  BY DEF StockMoves, OfferChanges, ReadOnly
<1>2. UNCHANGED <<bulk, shop, logs, sending>>
  BY DEF StockMoves, OfferChanges
<1>3. PICK later : later = Shown'
  OBVIOUS
<1>4. Shown \subseteq later
  BY <1>1, <1>3 DEF Shown, Decision, OnOffer, Expected
<1>5. RowsOf(Shown) \subseteq RowsOf(later)
  BY <1>4, RowsGrow
<1>6. RowsOf(Shown)' = RowsOf(later)
  BY <1>3 DEF RowsOf, JobsOf, BusyOf, NoJob, Unqueued, Reasons, WithoutInStock
<1>7. ReadOnly'
  BY <1>1, <1>2, <1>3, <1>4, <1>5, <1>6 DEF ReadOnly
<1> QED BY <1>1, <1>2, <1>7 DEF Mirror!WarehouseChanges

LEMMA ShownStays ==
    ASSUME UNCHANGED warehouse
    PROVE  Shown' = Shown /\ RowsOf(Shown)' = RowsOf(Shown)
<1>1. Shown' = Shown
  BY DEF warehouse, Shown, Decision, OnOffer, Expected
<1> QED BY <1>1 DEF RowsOf, JobsOf, BusyOf, NoJob, Unqueued, Reasons, WithoutInStock

(* A step that reads nothing new keeps the invariant if its logs and its   *)
(* publication carry what was read.                                        *)
LEMMA LogsStay ==
    ASSUME ReadOnly, UNCHANGED warehouse, Rewrites \/ \E m : Adds(m)
    PROVE  logs' \subseteq RowsOf(Shown)' /\ IsFiniteSet(logs')
<1>1. RowsOf(Shown)' = RowsOf(Shown) /\ logs \subseteq RowsOf(Shown) /\ IsFiniteSet(logs)
  BY ShownStays DEF ReadOnly
<1>2. CASE logs' = logs
  BY <1>1, <1>2
<1>3. CASE \E m : Adds(m)
  BY <1>1, <1>3, FS_AddElement DEF Adds
<1>4. ASSUME NEW l \in logs, NEW m \in RowsOf(Shown), Update(l, m) \/ UpdateAndForget(l, m)
      PROVE  logs' \subseteq RowsOf(Shown) /\ IsFiniteSet(logs')
  <2>1. PICK ls : ls = (logs \ {l}) \cup {m}
    OBVIOUS
  <2>2. ls \subseteq RowsOf(Shown) /\ IsFiniteSet(ls)
    BY <1>1, <2>1, RowReplaced
  <2>3. Forget(ls) \subseteq RowsOf(Shown) /\ IsFiniteSet(Forget(ls))
    BY <2>2, ForgettingFits
  <2> QED BY <1>4, <2>1, <2>2, <2>3 DEF Update, UpdateAndForget
<1> QED BY <1>1, <1>2, <1>3, <1>4 DEF Rewrites

LEMMA ReadStays ==
    ASSUME ReadOnly, UNCHANGED warehouse, Rewrites \/ \E m : Adds(m),
           DOMAIN sending' = Reasons,
           \A s \in Reasons :
              \/ sending'[s] = sending[s]
              \/ sending'[s].at = "read" /\ sending'[s].own \in ownSeen
              \/ sending'[s].at \in {"decided", "compared"} /\ sending'[s].item \in Shown
              \/ sending'[s].at \in {"idle", "logged"}
    PROVE  ReadOnly'
<1>1. Shown' = Shown /\ logs' \subseteq RowsOf(Shown)' /\ IsFiniteSet(logs')
  BY LogsStay, ShownStays
<1>2. \A s \in Reasons : sending'[s].at = "read" => sending'[s].own \in ownSeen
  BY DEF ReadOnly
<1>3. \A s \in Reasons : sending'[s].at \in {"decided", "compared"} => sending'[s].item \in Shown
  BY DEF ReadOnly
<1> QED BY <1>1, <1>2, <1>3 DEF ReadOnly, warehouse

(* One publication moves on. *)
LEMMA SendingMoves ==
    ASSUME ReadOnly, UNCHANGED warehouse, NEW s \in Reasons, NEW task,
           sending' = [sending EXCEPT ![s] = task],
           Rewrites \/ \E m : Adds(m),
           \/ task.at = "read" /\ task.own \in ownSeen
           \/ task.at \in {"decided", "compared"} /\ task.item \in Shown
           \/ task.at \in {"idle", "logged"}
    PROVE  ReadOnly'
<1>1. DOMAIN sending' = Reasons /\ sending'[s] = task
  BY DEF ReadOnly
<1>2. \A r \in Reasons \ {s} : sending'[r] = sending[r]
  BY DEF ReadOnly
<1> QED BY <1>1, <1>2, ReadStays

(* The log of a decision that was read, with or without its job. *)
LEMMA NewLogFits ==
    ASSUME ReadOnly, NEW d \in Shown
    PROVE  /\ \A s \in Reasons : NewLog(d, Unqueued(s)) \in RowsOf(Shown)
           /\ RetriedLog(d, Job(d)) \in RowsOf(Shown)
           /\ RetriedLog(d, NoJob) \in RowsOf(Shown)
<1>1. PICK age \in Nat : age = Cardinality(logs) + 1
  <2>1. Cardinality(logs) \in Nat
    BY FS_CardinalityType DEF ReadOnly
  <2> QED BY <2>1
<1>2. NoJob \in JobsOf(Shown) /\ Job(d) \in JobsOf(Shown)
      /\ \A s \in Reasons : Unqueued(s) \in JobsOf(Shown)
  BY DEF JobsOf, BusyOf, Job
<1>3. ASSUME NEW j \in JobsOf(Shown)
      PROVE  NewLog(d, j) \in RowsOf(Shown) /\ RetriedLog(d, j) \in RowsOf(Shown)
  <2>1. PICK js \in [1..2 -> JobsOf(Shown)] : js = <<j, NoJob>>
    BY <1>2, PairOfJobs
  <2>2. PICK l : l = [age |-> age, st |-> "PENDING", item |-> d, named |-> TRUE, jobs |-> js]
    OBVIOUS
  <2>3. l = NewLog(d, j)
    BY <1>1, <2>1, <2>2 DEF NewLog
  <2>4. l \in RowsOf(Shown)
    BY <2>2 DEF RowsOf
  <2>5. [l EXCEPT !.named = FALSE] \in RowsOf(Shown)
    BY <2>4 DEF RowsOf
  <2> QED BY <2>3, <2>4, <2>5 DEF RetriedLog
<1> QED BY <1>2, <1>3

LEMMA PublicationsKeepRead ==
    ASSUME ReadOnly, NEW s \in Reasons,
           BeginPublication(s) \/ PublicationStep(s) \/ PublicationDies(s)
    PROVE  /\ ReadOnly' /\ UNCHANGED Mirror!mirrorVars
           /\ CreateLog(s) \/ Rewrites
<1>1. UNCHANGED warehouse /\ shop' = shop
  BY DEF BeginPublication, PublicationStep, PublicationDies, Decide, Compare, CreateLog, AddJob
<1>2. UNCHANGED Mirror!mirrorVars
  BY <1>1 DEF warehouse, Mirror!mirrorVars
<1>3. CASE BeginPublication(s)
  <2>1. Rewrites
    BY <1>3 DEF BeginPublication, Rewrites
  <2>2. sending' = [sending EXCEPT ![s] = [at |-> "read", own |-> own]] /\ own \in ownSeen
    BY <1>3 DEF BeginPublication, ReadOnly
  <2> QED BY <1>1, <1>2, <2>1, <2>2, SendingMoves
<1>4. CASE Decide(s)
  <2>1. Decision(sending[s].own, offer) \in Shown
    BY <1>4 DEF Decide, ReadOnly, Shown
  <2>2. Rewrites
    BY <1>4 DEF Decide, Rewrites
  <2> QED BY <1>1, <1>2, <1>4, <2>1, <2>2, SendingMoves DEF Decide
<1>5. CASE Compare(s)
  <2>1. sending[s].item \in Shown
    BY <1>5 DEF Compare, ReadOnly
  <2> DEFINE task == IF IsLastPublished(sending[s].item) THEN Idle
                     ELSE [at |-> "compared", item |-> sending[s].item]
  <2>2. sending' = [sending EXCEPT ![s] = task] /\ Rewrites
    BY <1>5 DEF Compare, Rewrites
  <2>3. task.at = "idle" \/ (task.at = "compared" /\ task.item \in Shown)
    BY <2>1 DEF Idle
  <2> HIDE DEF task
  <2> QED BY <1>1, <1>2, <2>2, <2>3, SendingMoves
<1>6. CASE CreateLog(s)
  <2>1. sending[s].item \in Shown
    BY <1>6 DEF CreateLog, ReadOnly
  <2>2. Adds(NewLog(sending[s].item, Unqueued(s)))
    BY <1>6, <2>1, NewLogFits DEF CreateLog, Adds
  <2> QED BY <1>1, <1>2, <1>6, <2>2, SendingMoves DEF CreateLog
<1>7. CASE AddJob(s)
  <2>1. PICK l \in logs : \/ Update(l, With(l, 1, Job(l.item)))
                          \/ UpdateAndForget(l, With(l, 1, NoJob))
    BY <1>7 DEF AddJob
  <2>2. l \in RowsOf(Shown) /\ l.item \in Shown
    BY DEF ReadOnly, RowsOf
  <2>3. Job(l.item) \in JobsOf(Shown) /\ NoJob \in JobsOf(Shown)
    BY <2>2 DEF JobsOf, BusyOf, Job
  <2>4. Rewrites
    BY <2>1, <2>2, <2>3, WithFits DEF Rewrites
  <2> QED BY <1>1, <1>2, <1>7, <2>4, SendingMoves DEF AddJob, Idle
<1>8. CASE PublicationDies(s)
  <2>1. Rewrites
    <3>1. CASE logs' = logs
      BY <3>1 DEF Rewrites
    <3>2. CASE logs' # logs
      <4>1. PICK l \in logs : UpdateAndForget(l, With(l, 1, NoJob))
        BY <1>8, <3>2 DEF PublicationDies
      <4>2. With(l, 1, NoJob) \in RowsOf(Shown)
        BY WithFits DEF ReadOnly, JobsOf
      <4> QED BY <4>1, <4>2 DEF Rewrites
    <3> QED BY <3>1, <3>2
  <2> QED BY <1>1, <1>2, <1>8, <2>1, SendingMoves DEF PublicationDies, Idle
<1> QED BY <1>3, <1>4, <1>5, <1>6, <1>7, <1>8 DEF PublicationStep

(* A log is queued again, or one of its jobs moves on, whatever it does to *)
(* the shop.                                                               *)
LEMMA JobsRewrite ==
    ASSUME ReadOnly, NEW l \in logs, Requeue(l) \/ JobStep(l) \/ JobFault(l)
    PROVE  Rewrites
<1>1. l \in RowsOf(Shown) /\ l.item \in Shown /\ Decision(own, offer) \in Shown
  BY DEF ReadOnly, RowsOf, Shown
<1>2. CASE Requeue(l)
  <2>1. PICK j \in {l.jobs[1], NoJob} :
            Update(l, [l EXCEPT !.jobs = <<j, Job(WithoutInStock(l.item))>>])
    BY <1>2 DEF Requeue
  <2>2. j \in JobsOf(Shown) /\ Job(WithoutInStock(l.item)) \in JobsOf(Shown)
    BY <1>1 DEF RowsOf, JobsOf, BusyOf, Job
  <2>3. PICK js \in [1..2 -> JobsOf(Shown)] : js = <<j, Job(WithoutInStock(l.item))>>
    BY <2>2, PairOfJobs
  <2>4. [l EXCEPT !.jobs = js] \in RowsOf(Shown)
    BY <1>1 DEF RowsOf
  <2> QED BY <2>1, <2>3, <2>4 DEF Rewrites
<1>3. CASE TakeRetry(l)
  <2>1. PICK d \in Shown : d = Decision(own, offer)
    BY <1>1
  <2>2. PICK m : m = [l EXCEPT !.item = d]
    OBVIOUS
  <2>3. m \in RowsOf(Shown)
    BY <1>1, <2>2 DEF RowsOf
  <2>4. l.jobs[1] \in BusyOf(Shown)
    BY <1>1, <1>3, BusyFits DEF TakeRetry
  <2>5. [l.jobs[1] EXCEPT !.at = "reading", !.sends = d] \in JobsOf(Shown)
    BY <2>4 DEF BusyOf, JobsOf
  <2>6. With(m, 1, [l.jobs[1] EXCEPT !.at = "reading", !.sends = d]) \in RowsOf(Shown)
    BY <2>3, <2>5, WithFits
  <2> QED BY <1>3, <2>1, <2>2, <2>6 DEF TakeRetry, Rewrites
<1>4. ASSUME NEW n \in 1..2,
             \/ Process(l, n) \/ WriteBulk(l, n) \/ WriteStock(l, n) \/ WriteAvailability(l, n)
             \/ Answer(l, n) \/ WriteFails(l, n) \/ ItemRefused(l, n) \/ WorkerDies(l, n)
      PROVE  Rewrites
  <2>1. l.jobs[n].at \in {"waiting", "reading", "active", "half", "written"}
    BY <1>4 DEF Process, WriteBulk, WriteStock, WriteAvailability, Answer, WriteFails,
                ItemRefused, WorkerDies
  <2>2. \/ Update(l, With([l EXCEPT !.st = "PROCESSING"], n,
                          [l.jobs[n] EXCEPT !.at = "active", !.attempts = @ + 1]))
        \/ Update(l, At(l, n, "half")) \/ Update(l, At(l, n, "written"))
        \/ Update(l, At([l EXCEPT !.st = "FAILED"], n, "waiting"))
        \/ Update(l, With(l, n, [l.jobs[n] EXCEPT !.at = "waiting", !.stalled = TRUE]))
        \/ \E st \in {"SUCCESS", "FAILED"} :
              UpdateAndForget(l, With([l EXCEPT !.st = st], n, NoJob))
    BY <1>4 DEF Process, WriteBulk, WriteStock, WriteAvailability, Answer, WriteFails,
                ItemRefused, WorkerDies, End, Again
  <2>3. /\ With([l EXCEPT !.st = "PROCESSING"], n,
                [l.jobs[n] EXCEPT !.at = "active", !.attempts = @ + 1]) \in RowsOf(Shown)
        /\ At(l, n, "half") \in RowsOf(Shown) /\ At(l, n, "written") \in RowsOf(Shown)
        /\ At([l EXCEPT !.st = "FAILED"], n, "waiting") \in RowsOf(Shown)
        /\ With(l, n, [l.jobs[n] EXCEPT !.at = "waiting", !.stalled = TRUE]) \in RowsOf(Shown)
        /\ \A st \in {"SUCCESS", "FAILED"} :
              With([l EXCEPT !.st = st], n, NoJob) \in RowsOf(Shown)
    BY <1>1, <2>1, StepsFit
  <2> QED BY <2>2, <2>3 DEF Rewrites
<1> QED BY <1>2, <1>3, <1>4 DEF JobStep, JobFault

(* What a job brings the shop. *)
LEMMA WritesBring ==
    ASSUME ReadOnly, NEW l \in logs, NEW n \in 1..2,
           WriteBulk(l, n) \/ WriteStock(l, n) \/ WriteAvailability(l, n)
    PROVE  Mirror!ShopShows
<1>1. l.jobs[n] \in BusyOf(Shown)
  BY BusyFits DEF ReadOnly, WriteBulk, WriteStock, WriteAvailability
<1>2. PICK d : d = l.jobs[n].sends
  OBVIOUS
<1>3. PICK o \in ownSeen, f \in offerSeen :
          d = Decision(o, f) \/ d = WithoutInStock(Decision(o, f))
  BY <1>1, <1>2 DEF BusyOf, Shown
<1>4. PICK c : c = Decision(o, f)
  OBVIOUS
<1>5. PICK q, i, b, p : c = [qty |-> q, inStock |-> i, outOfStock |-> b, policy |-> p]
  BY <1>4, DecisionIsRecord
<1>6. /\ d.qty = c.qty /\ d.outOfStock = c.outOfStock /\ d.policy = c.policy
      /\ d = c \/ d.inStock = 0
      /\ \A s : [d EXCEPT !.inStock = s] = [c EXCEPT !.inStock = s]
  BY <1>3, <1>4, <1>5 DEF WithoutInStock
<1>7. UNCHANGED <<own, offer, ownSeen, offerSeen, bulk>>
  BY DEF WriteBulk, WriteStock, WriteAvailability, warehouse
<1>8. Mirror!Brings(c)
  <2>1. CASE WriteBulk(l, n)
    <3>1. bulk /\ shop' = IF d.inStock > 0 THEN d ELSE [d EXCEPT !.inStock = shop.inStock]
      BY <1>2, <2>1 DEF WriteBulk
    <3>2. d.inStock > 0 => d = c
      BY <1>6
    <3> QED BY <1>6, <3>1, <3>2 DEF Mirror!Brings
  <2>2. CASE WriteStock(l, n)
    BY <1>2, <1>6, <2>2 DEF WriteStock, WithStock, Mirror!Brings
  <2>3. CASE WriteAvailability(l, n)
    BY <1>2, <1>6, <2>3 DEF WriteAvailability, Mirror!Brings
  <2> QED BY <2>1, <2>2, <2>3
<1> QED BY <1>4, <1>7, <1>8 DEF Mirror!ShopShows

LEMMA JobsKeepRead ==
    ASSUME ReadOnly, RetryLog \/ \E l \in logs : Requeue(l) \/ JobStep(l) \/ JobFault(l)
    PROVE  ReadOnly' /\ (Mirror!ShopShows \/ UNCHANGED Mirror!mirrorVars)
<1>1. UNCHANGED <<warehouse, sending>>
  BY DEF RetryLog, Requeue, JobStep, JobFault, TakeRetry, Process, WriteBulk, WriteStock,
         WriteAvailability, Answer, WriteFails, ItemRefused, WorkerDies
<1>2. Rewrites \/ \E m : Adds(m)
  <2>1. CASE RetryLog
    <3>1. Decision(own, offer) \in Shown
      BY DEF ReadOnly, Shown
    <3> QED BY <2>1, <3>1, NewLogFits DEF RetryLog, Adds
  <2> QED BY <2>1, JobsRewrite
<1>3. ReadOnly'
  BY <1>1, <1>2, ReadStays DEF ReadOnly
<1>4. CASE \E l \in logs, n \in 1..2 :
              WriteBulk(l, n) \/ WriteStock(l, n) \/ WriteAvailability(l, n)
  BY <1>3, <1>4, WritesBring
<1>5. CASE ~\E l \in logs, n \in 1..2 :
              WriteBulk(l, n) \/ WriteStock(l, n) \/ WriteAvailability(l, n)
  <2>1. shop' = shop
    BY <1>5 DEF RetryLog, Requeue, JobStep, JobFault, TakeRetry, Process, Answer, WriteFails,
                ItemRefused, WorkerDies
  <2> QED BY <1>1, <1>3, <2>1 DEF warehouse, Mirror!mirrorVars
<1> QED BY <1>4, <1>5

LEMMA PublicationRefines ==
    ReadOnly /\ [PublicationNext]_publishVars
        => ReadOnly' /\ [Mirror!MirrorNext]_Mirror!mirrorVars
<1> SUFFICES ASSUME ReadOnly, [PublicationNext]_publishVars
             PROVE  ReadOnly' /\ [Mirror!MirrorNext]_Mirror!mirrorVars
  OBVIOUS
<1>1. CASE StockMoves \/ OfferChanges
  BY <1>1, MovesKeepRead DEF Mirror!MirrorNext
<1>2. CASE \E s \in Reasons : BeginPublication(s) \/ PublicationStep(s) \/ PublicationDies(s)
  BY <1>2, PublicationsKeepRead
<1>3. CASE RetryLog \/ \E l \in logs : Requeue(l) \/ JobStep(l) \/ JobFault(l)
  BY <1>3, JobsKeepRead DEF Mirror!MirrorNext
<1>4. CASE UNCHANGED publishVars
  <2>1. UNCHANGED warehouse /\ UNCHANGED <<shop, logs, sending>>
    BY <1>4 DEF publishVars
  <2>2. ReadOnly'
    BY <2>1, ReadStays DEF ReadOnly, Rewrites
  <2> QED BY <2>1, <2>2 DEF warehouse, Mirror!mirrorVars
<1> QED BY <1>1, <1>2, <1>3, <1>4 DEF PublicationNext

(* publishInventoryToShops, retryStockSyncLog, requeuePendingStockSyncLogs *)
(* and the stock-sync worker: for any stock, any offers, a shop with the   *)
(* module or without it, any number of logs, failures and repetitions,     *)
(* every write to the shop takes its parts from one state made of a stock  *)
(* and an offer that were once there, however late and in whatever order   *)
(* the jobs are done and wherever they break off.                          *)
THEOREM PublicationShowsTheRead == PublicationSpec => Mirror!MirrorSafety
<1>1. PublicationInit => Mirror!MirrorInit
  BY DEF PublicationInit, Mirror!MirrorInit, WithoutInStock
<1> QED BY <1>1, ReadAtFirst, PublicationRefines, PTL DEF PublicationSpec, Mirror!MirrorSafety
-----------------------------------------------------------------------------
(***************************************************************************)
(* The feed of a wholesaler.  One worker applies it, in steps between      *)
(* which requests, links and crashes come: what it read of the mappings    *)
(* stays true of all but their links, the only part it writes from what    *)
(* it read.                                                                *)
(***************************************************************************)
Mapping == [known : BOOLEAN, linked : BOOLEAN, active : BOOLEAN, stock : Int]
SyncRow == [st : {"none", "PENDING", "PROCESSING", "SUCCESS", "FAILED"},
            limited : BOOLEAN, job : {"none", "waiting", "active", "over"},
            items : Nat, stalled : BOOLEAN, finished : 0..MaxSyncs]
Request == [at : {"idle", "checked", "created"}, limited : BOOLEAN, n : 0..MaxSyncs]

(* The stock of some of the SKUs. *)
Lists(f) == DOMAIN f \subseteq Skus /\ f \in [DOMAIN f -> Int]

(* Two rows of a mapping that may differ in the link only. *)
SameOffer(m, k) == m.known = k.known /\ m.active = k.active /\ m.stock = k.stock

(* What the worker holds at every point of a sync. *)
RunHolds ==
    \/ run = [at |-> "started", n |-> run.n]
    \/ /\ run.at \in {"fetched", "staged"}
       /\ run = [at |-> run.at, n |-> run.n, items |-> run.items]
       /\ Lists(run.items)
    \/ /\ run = [at |-> "read", n |-> run.n, items |-> run.items, rows |-> run.rows]
       /\ Lists(run.items)
       /\ run.rows \in [Skus -> Mapping]
       /\ \A s \in Skus : SameOffer(run.rows[s], mappings[s])
    \/ /\ run = [at |-> "applied", n |-> run.n, products |-> run.products]
       /\ run.products \subseteq Skus

(* The sync that runs is the one whose job is active. *)
RunFits ==
    run = NoRun \/ /\ run.n \in Syncs /\ RunHolds
                   /\ syncs[run.n].st = "PROCESSING" /\ syncs[run.n].job = "active"

(* A log between its creation and its job is of one request. *)
AskingFits ==
    /\ \A c \in FeedRequests : asking[c].at = "created" =>
            /\ asking[c].n \in Syncs
            /\ syncs[asking[c].n].st = "PENDING" /\ syncs[asking[c].n].job = "none"
    /\ \A c, d \in FeedRequests :
            asking[c].at = "created" /\ asking[d].at = "created" /\ asking[c].n = asking[d].n
                => c = d

(* What the feeds said, and that nothing is left of what is listed no more. *)
OfferKept(s) ==
    /\ mappings[s].known => mappings[s].stock = reported[s]
    /\ ~mappings[s].active => mappings[s].stock = 0
OffersKept == \A s \in Skus : OfferKept(s)

FeedTyped == Lists(feed.items) /\ feed \in Feeds
SyncsTyped == syncs \in [Syncs -> SyncRow]
MappingsTyped == mappings \in [Skus -> Mapping] /\ reported \in [Skus -> Int]

WholesaleInv ==
    /\ FeedTyped /\ SyncsTyped /\ MappingsTyped
    /\ asking \in [FeedRequests -> Request]
    /\ staged \subseteq Syncs
    /\ shown \in [Skus -> Int]
    /\ RunFits /\ AskingFits /\ OffersKept

LEMMA FeedsList ==
    ASSUME NEW f \in Feeds
    PROVE  Lists(f.items)
BY WholesaleAssumption DEF Lists

LEMMA SyncsAreNat == Syncs \subseteq 0..MaxSyncs /\ IsFiniteSet(Syncs) /\ Cardinality(Syncs) = MaxSyncs
<1>1. MaxSyncs \in Nat
  BY WholesaleAssumption
<1>2. IsFiniteSet(1..MaxSyncs) /\ Cardinality(1..MaxSyncs) = MaxSyncs
  BY <1>1, FS_Interval
<1> QED BY <1>1, <1>2 DEF Syncs

LEMMA ZeroIsLog == 0 \in 0..MaxSyncs /\ 0 \in Nat
BY WholesaleAssumption

LEMMA NoneIsTyped == NoSync \in SyncRow /\ Unasked \in Request /\ Unasked.at = "idle"
<1>1. NoSync \in SyncRow
  BY ZeroIsLog, Zenon DEF NoSync, SyncRow
<1>2. Unasked \in Request
  BY ZeroIsLog, Zenon DEF Unasked, Request
<1> QED BY <1>1, <1>2 DEF Unasked

LEMMA ListIsFinite ==
    ASSUME NEW f, Lists(f)
    PROVE  Cardinality(DOMAIN f) \in Nat
BY WholesaleAssumption, FS_Subset, FS_CardinalityType DEF Lists

LEMMA WholesaleAtFirst == WholesaleInit => WholesaleInv
<1> SUFFICES ASSUME WholesaleInit PROVE WholesaleInv OBVIOUS
<1>1. FeedTyped
  BY FeedsList DEF WholesaleInit, FeedTyped
<1>2. SyncsTyped
  BY WholesaleAssumption DEF WholesaleInit, SyncsTyped, NoSync, SyncRow
<1>3. MappingsTyped /\ OffersKept
  BY DEF WholesaleInit, MappingsTyped, Mapping, OffersKept, OfferKept
<1>4. asking \in [FeedRequests -> Request] /\ AskingFits
  BY WholesaleAssumption DEF WholesaleInit, Unasked, Request, AskingFits
<1>5. staged \subseteq Syncs /\ shown \in [Skus -> Int] /\ RunFits
  BY DEF WholesaleInit, RunFits
<1> QED BY <1>1, <1>2, <1>3, <1>4, <1>5 DEF WholesaleInv

(* The worker's step is not this one. *)
LEMMA RunStays ==
    ASSUME RunFits, run' = run,
           \A s \in Skus : SameOffer(mappings[s], mappings'[s]),
           run # NoRun => syncs'[run.n].st = "PROCESSING" /\ syncs'[run.n].job = "active"
    PROVE  RunFits'
<1>1. CASE run = NoRun
  BY <1>1 DEF RunFits, NoRun
<1>2. CASE run # NoRun
  <2>1. run.n \in Syncs /\ RunHolds
    BY <1>2 DEF RunFits
  <2>2. RunHolds'
    <3>1. ASSUME run.rows \in [Skus -> Mapping], \A s \in Skus : SameOffer(run.rows[s], mappings[s])
          PROVE  \A s \in Skus : SameOffer(run.rows[s], mappings'[s])
      BY <3>1 DEF SameOffer
    <3>2. \A f : Lists(f)' = Lists(f)
      BY DEF Lists
    <3>3. \A m, k : SameOffer(m, k)' = SameOffer(m', k')
      BY DEF SameOffer
    <3> QED BY <2>1, <3>1, <3>2 DEF RunHolds, SameOffer
  <2> QED BY <1>2, <2>1, <2>2 DEF RunFits, Syncs
<1> QED BY <1>1, <1>2

(* The requests wait for the same logs, which are as they left them. *)
LEMMA AskingStays ==
    ASSUME AskingFits, asking' = asking,
           \A c \in FeedRequests : asking[c].at = "created" =>
                syncs'[asking[c].n].st = "PENDING" /\ syncs'[asking[c].n].job = "none"
    PROVE  AskingFits'
BY DEF AskingFits, Syncs

(* The file changes, a link changes, the day's publication. *)
LEMMA OutsideKeeps ==
    ASSUME WholesaleInv, SupplierWrites \/ (\E s \in Skus : MapProduct(s)) \/ DailyPublication
    PROVE  WholesaleInv'
<1>1. UNCHANGED <<syncs, asking, run, staged, reported>>
  BY DEF SupplierWrites, MapProduct, DailyPublication
<1>2. FeedTyped'
  <2>1. feed' \in Feeds
    BY DEF SupplierWrites, MapProduct, DailyPublication, WholesaleInv, FeedTyped
  <2>2. Lists(feed'.items)
    BY <2>1, FeedsList
  <2> QED BY <2>1, <2>2 DEF FeedTyped, Lists
<1>3. /\ mappings' \in [Skus -> Mapping]
      /\ \A s \in Skus : SameOffer(mappings[s], mappings'[s])
  <2>1. CASE mappings' = mappings
    BY <2>1 DEF WholesaleInv, MappingsTyped, SameOffer
  <2>2. CASE mappings' # mappings
    <3>1. PICK s \in Skus : mappings' = [mappings EXCEPT ![s].linked = ~@]
      BY <2>2 DEF SupplierWrites, MapProduct, DailyPublication
    <3>2. mappings \in [Skus -> Mapping]
      BY DEF WholesaleInv, MappingsTyped
    <3>3. mappings'[s] = [mappings[s] EXCEPT !.linked = ~@] /\ DOMAIN mappings' = Skus
          /\ \A k \in Skus \ {s} : mappings'[k] = mappings[k]
      BY <3>1, <3>2
    <3>4. mappings' \in [Skus -> Mapping]
      BY <3>1, <3>2 DEF Mapping
    <3>5. SameOffer(mappings[s], mappings'[s])
      BY <3>2, <3>3 DEF SameOffer, Mapping
    <3> QED BY <3>3, <3>4, <3>5 DEF SameOffer
  <2> QED BY <2>1, <2>2
<1>4. MappingsTyped' /\ OffersKept'
  BY <1>1, <1>3 DEF WholesaleInv, MappingsTyped, OffersKept, OfferKept, SameOffer
<1>5. shown' \in [Skus -> Int]
  BY DEF SupplierWrites, MapProduct, DailyPublication, WholesaleInv, MappingsTyped, Offered, Mapping
<1>6. RunFits' /\ AskingFits'
  BY <1>1, <1>3, RunStays, AskingStays DEF WholesaleInv, RunFits, AskingFits
<1> QED BY <1>1, <1>2, <1>4, <1>5, <1>6 DEF WholesaleInv, SyncsTyped

(* What a step leaves when it touches only requests, logs and the worker. *)
LEMMA SyncingKeeps ==
    ASSUME WholesaleInv, UNCHANGED <<feed, mappings, shown, reported>>,
           SyncsTyped', asking' \in [FeedRequests -> Request], staged' \subseteq Syncs,
           RunFits', AskingFits'
    PROVE  WholesaleInv'
BY DEF WholesaleInv, FeedTyped, MappingsTyped, OffersKept, OfferKept, Lists

(* A log's row changes, which the worker and the requests do not hold. *)
LEMMA RunElsewhere ==
    ASSUME WholesaleInv, NEW n \in Syncs, NEW row \in SyncRow,
           run = NoRun \/ run.n # n,
           syncs' = [syncs EXCEPT ![n] = row], UNCHANGED <<mappings, run>>
    PROVE  RunFits' /\ SyncsTyped'
<1>1. SyncsTyped'
  BY DEF WholesaleInv, SyncsTyped
<1>2. \A m \in Syncs \ {n} : syncs'[m] = syncs[m]
  BY DEF WholesaleInv, SyncsTyped
<1>3. RunFits
  BY DEF WholesaleInv
<1>4. run # NoRun => syncs'[run.n].st = "PROCESSING" /\ syncs'[run.n].job = "active"
  BY <1>2, <1>3 DEF RunFits
<1> QED BY <1>1, <1>3, <1>4, RunStays DEF SameOffer

LEMMA RequestsKeep ==
    ASSUME WholesaleInv, NEW c \in FeedRequests,
           (\E limited \in BOOLEAN : RequestSync(c, limited)) \/ CreateSync(c) \/ AddSyncJob(c)
                \/ QueueFails(c) \/ RequestDies(c)
    PROVE  WholesaleInv'
<1>1. asking \in [FeedRequests -> Request] /\ syncs \in [Syncs -> SyncRow] /\ RunFits /\ AskingFits
  BY DEF WholesaleInv, SyncsTyped
<1>2. UNCHANGED <<feed, mappings, run, staged, shown, reported>> /\ staged' \subseteq Syncs
  BY DEF WholesaleInv, RequestSync, CreateSync, AddSyncJob, QueueFails, RequestDies
<1>3. CASE (\E limited \in BOOLEAN : RequestSync(c, limited)) \/ RequestDies(c)
  <2>1. PICK a \in Request : asking' = [asking EXCEPT ![c] = a] /\ a.at # "created"
    <3>1. CASE RequestDies(c)
      BY <3>1, NoneIsTyped DEF RequestDies, Unasked
    <3>2. CASE \E limited \in BOOLEAN : RequestSync(c, limited)
      <4>1. PICK limited \in BOOLEAN : RequestSync(c, limited)
        BY <3>2
      <4>2. PICK a : a = [at |-> "checked", limited |-> limited, n |-> 0]
        OBVIOUS
      <4>3. a \in Request /\ a.at = "checked"
        BY <4>2, ZeroIsLog, Zenon DEF Request
      <4>4. asking' = [asking EXCEPT ![c] = a]
        BY <4>1, <4>2 DEF RequestSync
      <4> QED BY <4>3, <4>4
    <3> QED BY <1>3, <3>1, <3>2
  <2>2. syncs' = syncs
    BY <1>3 DEF RequestSync, RequestDies
  <2>3. AskingFits' /\ asking' \in [FeedRequests -> Request]
    BY <1>1, <2>1, <2>2 DEF AskingFits
  <2>4. RunFits'
    BY <1>1, <1>2, <2>2, RunStays DEF RunFits, SameOffer
  <2> QED BY <1>1, <1>2, <2>2, <2>3, <2>4, SyncingKeeps DEF SyncsTyped
<1>4. CASE CreateSync(c)
  <2>1. PICK n \in Syncs :
            /\ syncs[n] = NoSync
            /\ syncs' = [syncs EXCEPT ![n] =
                            [NoSync EXCEPT !.st = "PENDING", !.limited = asking[c].limited]]
            /\ asking' = [asking EXCEPT ![c].at = "created", ![c].n = n]
    BY <1>4 DEF CreateSync
  <2>2. PICK row : row = [NoSync EXCEPT !.st = "PENDING", !.limited = asking[c].limited]
    OBVIOUS
  <2>3. row \in SyncRow /\ row.st = "PENDING" /\ row.job = "none"
    <3>1. PICK l \in BOOLEAN : l = asking[c].limited
      BY <1>1 DEF Request
    <3>2. row = [NoSync EXCEPT !.st = "PENDING", !.limited = l]
      BY <2>2, <3>1
    <3>3. NoSync \in SyncRow
      BY NoneIsTyped
    <3>4. row \in SyncRow
      BY <3>2, <3>3 DEF SyncRow
    <3> QED BY <3>2, <3>4 DEF NoSync
  <2>4. syncs' = [syncs EXCEPT ![n] = row]
    BY <2>1, <2>2
  <2>5. run = NoRun \/ run.n # n
    BY <1>1, <2>1 DEF RunFits, NoSync
  <2>6. RunFits' /\ SyncsTyped'
    BY <1>2, <2>3, <2>4, <2>5, RunElsewhere
  <2>7. PICK a : a = [asking[c] EXCEPT !.at = "created", !.n = n]
    OBVIOUS
  <2>8. a \in Request /\ a.at = "created" /\ a.n = n
    BY <1>1, <2>7, SyncsAreNat DEF Request
  <2>9. asking' = [asking EXCEPT ![c] = a]
    BY <1>1, <2>1, <2>7
  <2>10. \A d \in FeedRequests : asking[d].at = "created" => asking[d].n # n
    BY <1>1, <2>1 DEF AskingFits, NoSync
  <2>11. \A d \in FeedRequests \ {c} : asking'[d] = asking[d]
    BY <1>1, <2>9
  <2>12. asking'[c] = a /\ syncs'[n] = row /\ \A m \in Syncs \ {n} : syncs'[m] = syncs[m]
    BY <1>1, <2>4, <2>9
  <2>13. AskingFits'
    BY <1>1, <2>3, <2>8, <2>10, <2>11, <2>12 DEF AskingFits, Syncs
  <2>14. asking' \in [FeedRequests -> Request]
    BY <1>1, <2>8, <2>9
  <2> QED BY <1>2, <2>6, <2>13, <2>14, SyncingKeeps
<1>5. CASE AddSyncJob(c) \/ QueueFails(c)
  <2>1. asking[c].at = "created" /\ asking' = [asking EXCEPT ![c] = Unasked]
    BY <1>5 DEF AddSyncJob, QueueFails
  <2>2. PICK n \in Syncs : n = asking[c].n
    BY <1>1, <2>1 DEF AskingFits
  <2>3. syncs[n].st = "PENDING" /\ syncs[n].job = "none" /\ syncs[n] \in SyncRow
    BY <1>1, <2>1, <2>2 DEF AskingFits
  <2>4. PICK row \in SyncRow : syncs' = [syncs EXCEPT ![n] = row]
    <3>1. CASE AddSyncJob(c)
      <4>1. syncs' = [syncs EXCEPT ![n] = [syncs[n] EXCEPT !.job = "waiting"]]
        BY <1>1, <2>2, <3>1 DEF AddSyncJob
      <4>2. [syncs[n] EXCEPT !.job = "waiting"] \in SyncRow
        BY <2>3 DEF SyncRow
      <4> QED BY <4>1, <4>2
    <3>2. CASE QueueFails(c)
      <4>1. syncs' = [syncs EXCEPT ![n] = [syncs[n] EXCEPT !.st = "FAILED", !.job = "over"]]
        BY <1>1, <2>2, <3>2 DEF QueueFails
      <4>2. [syncs[n] EXCEPT !.st = "FAILED", !.job = "over"] \in SyncRow
        BY <2>3 DEF SyncRow
      <4> QED BY <4>1, <4>2
    <3> QED BY <1>5, <3>1, <3>2
  <2>5. run = NoRun \/ run.n # n
    BY <1>1, <2>3 DEF RunFits
  <2>6. RunFits' /\ SyncsTyped'
    BY <1>2, <2>4, <2>5, RunElsewhere
  <2>7. Unasked \in Request /\ Unasked.at # "created"
    BY WholesaleAssumption DEF Unasked, Request
  <2>8. asking' \in [FeedRequests -> Request] /\ asking'[c] = Unasked
        /\ \A d \in FeedRequests \ {c} : asking'[d] = asking[d]
    BY <1>1, <2>1, <2>7
  <2>9. \A d \in FeedRequests \ {c} : asking[d].at = "created" =>
            asking[d].n \in Syncs \ {n}
    BY <1>1, <2>1, <2>2 DEF AskingFits
  <2>10. \A m \in Syncs \ {n} : syncs'[m] = syncs[m]
    BY <1>1, <2>4
  <2>11. AskingFits'
    BY <1>1, <2>7, <2>8, <2>9, <2>10 DEF AskingFits, Syncs
  <2> QED BY <1>2, <2>6, <2>8, <2>11, SyncingKeeps
<1> QED BY <1>3, <1>4, <1>5

(* The requests hold no log that is being processed. *)
LEMMA ProcessedIsNotAsked ==
    ASSUME WholesaleInv, NEW n \in Syncs, syncs[n].st # "PENDING" \/ syncs[n].job # "none",
           NEW row \in SyncRow, syncs' = [syncs EXCEPT ![n] = row], asking' = asking
    PROVE  AskingFits' /\ SyncsTyped' /\ syncs'[n] = row
<1>1. syncs \in [Syncs -> SyncRow] /\ AskingFits
  BY DEF WholesaleInv, SyncsTyped
<1>2. syncs' \in [Syncs -> SyncRow] /\ syncs'[n] = row
  BY <1>1
<1>3. \A c \in FeedRequests : asking[c].at = "created" => asking[c].n \in Syncs \ {n}
  BY <1>1 DEF AskingFits
<1>4. \A m \in Syncs \ {n} : syncs'[m] = syncs[m]
  BY <1>1
<1>5. \A c \in FeedRequests : asking[c].at = "created" =>
                syncs'[asking[c].n].st = "PENDING" /\ syncs'[asking[c].n].job = "none"
  BY <1>1, <1>3, <1>4 DEF AskingFits
<1> QED BY <1>1, <1>2, <1>5, AskingStays DEF SyncsTyped

LEMMA StartKeeps ==
    ASSUME WholesaleInv, NEW n \in Syncs, StartSync(n)
    PROVE  WholesaleInv'
<1>1. syncs \in [Syncs -> SyncRow] /\ syncs[n].job = "waiting"
  BY DEF WholesaleInv, SyncsTyped, StartSync
<1>2. PICK row : row = [syncs[n] EXCEPT !.st = "PROCESSING", !.job = "active"]
  OBVIOUS
<1>3. row \in SyncRow /\ row.st = "PROCESSING" /\ row.job = "active"
  BY <1>1, <1>2 DEF SyncRow
<1>4. syncs' = [syncs EXCEPT ![n] = row]
  BY <1>1, <1>2 DEF StartSync
<1>5. UNCHANGED <<feed, mappings, asking, staged, shown, reported>>
      /\ run' = [at |-> "started", n |-> n]
  BY DEF StartSync
<1>6. AskingFits' /\ SyncsTyped' /\ syncs'[n] = row
  BY <1>1, <1>3, <1>4, <1>5, ProcessedIsNotAsked
<1>7. RunFits'
  BY <1>3, <1>5, <1>6 DEF RunFits, RunHolds, Syncs
<1>8. asking' \in [FeedRequests -> Request] /\ staged' \subseteq Syncs
  BY <1>5 DEF WholesaleInv, Syncs
<1> QED BY <1>5, <1>6, <1>7, <1>8, SyncingKeeps

(* The place of a sync among those that succeeded is one of its log's. *)
LEMMA PlaceOfFinished ==
    ASSUME NEW n \in Syncs, syncs[n].st # "SUCCESS"
    PROVE  Cardinality(Succeeded) + 1 \in 0..MaxSyncs
<1>1. Succeeded \subseteq Syncs \ {n}
  BY DEF Succeeded
<1>2. /\ IsFiniteSet(Syncs) /\ Cardinality(Syncs) = MaxSyncs /\ MaxSyncs \in Nat
  BY SyncsAreNat, WholesaleAssumption
<1>3. IsFiniteSet(Syncs \ {n}) /\ Cardinality(Syncs \ {n}) = MaxSyncs - 1
  BY <1>2, FS_RemoveElement
<1>4. IsFiniteSet(Succeeded) /\ Cardinality(Succeeded) <= MaxSyncs - 1
  BY <1>1, <1>3, FS_Subset
<1>5. Cardinality(Succeeded) \in Nat
  BY <1>4, FS_CardinalityType
<1> QED BY <1>2, <1>4, <1>5

LEMMA EndKeeps ==
    ASSUME WholesaleInv, run # NoRun, NEW st \in {"SUCCESS", "FAILED"}, SyncEnds(st),
           asking' = asking
    PROVE  SyncsTyped' /\ RunFits' /\ AskingFits' /\ staged' \subseteq Syncs
<1>1. syncs \in [Syncs -> SyncRow] /\ staged \subseteq Syncs
  BY DEF WholesaleInv, SyncsTyped
<1>2. PICK n \in Syncs : n = run.n
  BY DEF WholesaleInv, RunFits
<1>3. syncs[n] \in SyncRow /\ syncs[n].st = "PROCESSING" /\ syncs[n].job = "active"
  BY <1>1, <1>2 DEF WholesaleInv, RunFits
<1>4. PICK place : place = IF st = "SUCCESS" THEN Cardinality(Succeeded) + 1 ELSE syncs[n].finished
  OBVIOUS
<1>5. place \in 0..MaxSyncs
  BY <1>3, <1>4, PlaceOfFinished DEF SyncRow
<1>6. PICK row : row = [syncs[n] EXCEPT !.st = st, !.job = "over", !.finished = place]
  OBVIOUS
<1>7. row \in SyncRow
  BY <1>3, <1>5, <1>6 DEF SyncRow
<1>8. syncs' = [syncs EXCEPT ![n] = row]
  <2>1. syncs' = [syncs EXCEPT ![n].st = st, ![n].job = "over",
            ![n].finished = IF st = "SUCCESS" THEN Cardinality(Succeeded) + 1 ELSE @]
    BY <1>2 DEF SyncEnds
  <2>2. syncs' = [syncs EXCEPT ![n] = [syncs[n] EXCEPT !.st = st, !.job = "over",
            !.finished = IF st = "SUCCESS" THEN Cardinality(Succeeded) + 1 ELSE @]]
    BY <1>1, <2>1
  <2>3. row = [syncs[n] EXCEPT !.st = st, !.job = "over",
            !.finished = IF st = "SUCCESS" THEN Cardinality(Succeeded) + 1 ELSE @]
    BY <1>3, <1>4, <1>6 DEF SyncRow
  <2> QED BY <2>2, <2>3
<1>9. AskingFits' /\ SyncsTyped'
  BY <1>3, <1>7, <1>8, ProcessedIsNotAsked
<1>10. RunFits'
  BY DEF SyncEnds, RunFits, NoRun
<1>11. staged' \subseteq Syncs
  BY <1>1 DEF SyncEnds
<1> QED BY <1>9, <1>10, <1>11

(* A sync that fails, at any point, or that ends well. *)
LEMMA EndingSyncKeeps ==
    ASSUME WholesaleInv, run # NoRun, NEW st \in {"SUCCESS", "FAILED"}, SyncEnds(st),
           UNCHANGED <<feed, mappings, asking, shown, reported>>
    PROVE  WholesaleInv'
<1>1. SyncsTyped' /\ RunFits' /\ AskingFits' /\ staged' \subseteq Syncs
  BY EndKeeps
<1>2. asking' \in [FeedRequests -> Request]
  BY DEF WholesaleInv
<1> QED BY <1>1, <1>2, SyncingKeeps

LEMMA FetchKeeps ==
    ASSUME WholesaleInv, FetchFeed
    PROVE  WholesaleInv'
<1>1. UNCHANGED <<feed, mappings, asking, shown, reported>> /\ run.at = "started" /\ run # NoRun
  BY DEF FetchFeed, NoRun
<1>2. PICK n \in Syncs : n = run.n
  BY <1>1 DEF WholesaleInv, RunFits
<1>3. syncs \in [Syncs -> SyncRow] /\ syncs[n].st = "PROCESSING" /\ syncs[n].job = "active"
  BY <1>1, <1>2 DEF WholesaleInv, RunFits, SyncsTyped
<1>4. PICK items : items = Read(n)
  OBVIOUS
<1>5. Lists(items)
  <2>1. Lists(feed.items)
    BY DEF WholesaleInv, FeedTyped
  <2> QED BY <1>4, <2>1 DEF Read, Lists
<1>6. CASE Valid(n, items)
  <2>1. /\ run' = [at |-> "fetched", n |-> n, items |-> items]
        /\ syncs' = [syncs EXCEPT ![n].items = Cardinality(DOMAIN items)]
        /\ staged' = staged
    BY <1>2, <1>4, <1>6 DEF FetchFeed
  <2>2. PICK row : row = [syncs[n] EXCEPT !.items = Cardinality(DOMAIN items)]
    OBVIOUS
  <2>3. Cardinality(DOMAIN items) \in Nat
    BY <1>5, ListIsFinite
  <2>4. row \in SyncRow /\ row.st = "PROCESSING" /\ row.job = "active"
    BY <1>3, <2>2, <2>3 DEF SyncRow
  <2>5. syncs' = [syncs EXCEPT ![n] = row]
    BY <1>3, <2>1, <2>2
  <2>6. AskingFits' /\ SyncsTyped' /\ syncs'[n] = row
    BY <1>1, <1>3, <2>4, <2>5, ProcessedIsNotAsked
  <2>7. RunHolds'
    BY <1>5, <2>1 DEF RunHolds, Lists
  <2>8. RunFits'
    BY <1>2, <2>1, <2>4, <2>6, <2>7 DEF RunFits, Syncs
  <2>9. asking' \in [FeedRequests -> Request] /\ staged' \subseteq Syncs
    BY <1>1, <2>1 DEF WholesaleInv, Syncs
  <2> QED BY <1>1, <2>6, <2>8, <2>9, SyncingKeeps
<1>7. CASE ~Valid(n, items)
  <2>1. SyncEnds("FAILED")
    BY <1>2, <1>4, <1>7 DEF FetchFeed
  <2> QED BY <1>1, <2>1, EndingSyncKeeps
<1> QED BY <1>6, <1>7

LEMMA StageKeeps ==
    ASSUME WholesaleInv, StageFeed
    PROVE  WholesaleInv'
<1>1. UNCHANGED <<feed, mappings, asking, shown, reported>> /\ run.at = "fetched" /\ run # NoRun
  BY DEF StageFeed, NoRun
<1>2. CASE run.n \in staged
  <2>1. SyncEnds("FAILED")
    BY <1>2 DEF StageFeed
  <2> QED BY <1>1, <2>1, EndingSyncKeeps
<1>3. CASE run.n \notin staged
  <2>1. run.n \in Syncs /\ RunHolds /\ syncs[run.n].st = "PROCESSING" /\ syncs[run.n].job = "active"
    BY <1>1 DEF WholesaleInv, RunFits
  <2>2. run = [at |-> "fetched", n |-> run.n, items |-> run.items] /\ Lists(run.items)
    BY <1>1, <2>1 DEF RunHolds
  <2>3. run' = [run EXCEPT !.at = "staged"] /\ staged' = staged \cup {run.n} /\ syncs' = syncs
    BY <1>3 DEF StageFeed
  <2>4. run' = [at |-> "staged", n |-> run.n, items |-> run.items]
    BY <2>2, <2>3
  <2>5. RunHolds'
    BY <2>2, <2>4 DEF RunHolds, Lists
  <2>6. RunFits'
    BY <2>1, <2>3, <2>4, <2>5 DEF RunFits, Syncs
  <2>7. AskingFits' /\ SyncsTyped' /\ asking' \in [FeedRequests -> Request]
    BY <1>1, <2>3 DEF WholesaleInv, AskingFits, SyncsTyped, Syncs
  <2>8. staged' \subseteq Syncs
    BY <2>1, <2>3 DEF WholesaleInv
  <2> QED BY <1>1, <2>6, <2>7, <2>8, SyncingKeeps
<1> QED BY <1>2, <1>3

LEMMA ReadMappingsKeeps ==
    ASSUME WholesaleInv, ReadMappings
    PROVE  WholesaleInv'
<1>1. UNCHANGED <<feed, mappings, syncs, asking, staged, shown, reported>>
      /\ run.at = "staged" /\ run # NoRun
      /\ run' = [at |-> "read", n |-> run.n, items |-> run.items, rows |-> mappings]
  BY DEF ReadMappings, NoRun
<1>2. run.n \in Syncs /\ RunHolds /\ syncs[run.n].st = "PROCESSING" /\ syncs[run.n].job = "active"
  BY <1>1 DEF WholesaleInv, RunFits
<1>3. Lists(run.items)
  BY <1>1, <1>2 DEF RunHolds
<1>4. mappings \in [Skus -> Mapping]
  BY DEF WholesaleInv, MappingsTyped
<1>5. RunHolds'
  BY <1>1, <1>3, <1>4 DEF RunHolds, Lists, SameOffer
<1>6. RunFits'
  BY <1>1, <1>2, <1>5 DEF RunFits, Syncs
<1>7. AskingFits' /\ SyncsTyped' /\ asking' \in [FeedRequests -> Request] /\ staged' \subseteq Syncs
  BY <1>1 DEF WholesaleInv, AskingFits, SyncsTyped, Syncs
<1> QED BY <1>1, <1>6, <1>7, SyncingKeeps

LEMMA MappingChanged ==
    ASSUME NEW m \in Mapping, NEW on \in BOOLEAN, NEW n \in Int
    PROVE  /\ [m EXCEPT !.active = on, !.stock = n] \in Mapping
           /\ [m EXCEPT !.active = on, !.stock = n].stock = n
BY DEF Mapping

LEMMA ApplyingRun ==
    ASSUME ApplyFeed
    PROVE  UNCHANGED <<feed, syncs, asking, staged, shown>> /\ run.at = "read" /\ run # NoRun
<1>1. run.at = "read"
  BY Zenon DEF ApplyFeed
<1>2. UNCHANGED <<feed, syncs, asking, staged, shown, feedChanges, syncFaults>>
  BY Zenon DEF ApplyFeed
<1>3. run # NoRun
  BY <1>1 DEF NoRun
<1> QED BY <1>1, <1>2, <1>3

(* What is written of one mapping: what the feed says of it now, or what   *)
(* was kept of it before.                                                  *)
LEMMA AppliedOffer ==
    ASSUME WholesaleInv, ApplyFeed, NEW s \in Skus
    PROVE  OfferKept(s)' /\ mappings'[s] \in Mapping /\ reported'[s] \in Int
<1>1. run.at = "read" /\ run # NoRun
  BY ApplyingRun
<1>2. Lists(run.items) /\ run.rows \in [Skus -> Mapping] /\ SameOffer(run.rows[s], mappings[s])
  BY <1>1 DEF WholesaleInv, RunFits, RunHolds
<1>3. mappings[s] \in Mapping /\ reported[s] \in Int /\ OfferKept(s)
  BY DEF WholesaleInv, MappingsTyped, OffersKept
<1>4. /\ mappings[s].known = run.rows[s].known
      /\ mappings[s].active = run.rows[s].active
      /\ mappings[s].stock = run.rows[s].stock
  BY <1>2 DEF SameOffer
<1>5. mappings'[s] =
            CASE s \in ChangedRows \cup Created ->
                    [mappings[s] EXCEPT !.known = TRUE, !.active = TRUE, !.stock = run.items[s]]
              [] s \in Missing -> [mappings[s] EXCEPT !.active = @ /\ run.rows[s].linked,
                                                      !.stock = 0]
              [] OTHER -> mappings[s]
  BY Zenon DEF ApplyFeed
<1>6. reported'[s] =
            CASE s \in DOMAIN run.items -> run.items[s]
              [] s \notin DOMAIN run.items /\ ~syncs[run.n].limited -> 0
              [] OTHER -> reported[s]
  BY Zenon DEF ApplyFeed
<1>7. ASSUME mappings'[s].known => mappings'[s].stock = reported'[s],
             ~mappings'[s].active => mappings'[s].stock = 0
      PROVE  OfferKept(s)'
  BY <1>7 DEF OfferKept
<1>8. CASE s \in DOMAIN run.items
  <2>1. reported'[s] = run.items[s] /\ run.items[s] \in Int
    BY <1>2, <1>6, <1>8 DEF Lists
  <2>2. CASE s \in ChangedRows \cup Created
    <3>1. mappings'[s] = [mappings[s] EXCEPT !.known = TRUE, !.active = TRUE, !.stock = run.items[s]]
      <4>1. s \notin Missing
        BY <1>8 DEF Missing
      <4> QED BY <1>5, <2>2, <4>1
    <3>2. mappings'[s] \in Mapping /\ mappings'[s].active /\ mappings'[s].stock = run.items[s]
      BY <1>3, <2>1, <3>1 DEF Mapping
    <3> QED BY <1>7, <2>1, <3>2
  <2>3. CASE s \notin ChangedRows \cup Created
    <3>1. s \notin Missing
      BY <1>8 DEF Missing
    <3>2. mappings'[s] = mappings[s]
      BY <1>5, <2>3, <3>1
    <3>3. run.rows[s].known
      BY <1>8, <2>3 DEF Created
    <3>4. run.rows[s].active /\ run.rows[s].stock = run.items[s]
      BY <1>8, <2>3, <3>3 DEF ChangedRows
    <3> QED BY <1>3, <1>4, <1>7, <2>1, <3>2, <3>4
  <2> QED BY <2>2, <2>3
<1>9. CASE s \notin DOMAIN run.items
  <2>1. s \notin ChangedRows \cup Created
    BY <1>9 DEF ChangedRows, Created
  <2>2. CASE syncs[run.n].limited
    <3>1. s \notin Missing
      BY <2>2 DEF Missing
    <3>2. mappings'[s] = mappings[s] /\ reported'[s] = reported[s]
      BY <1>5, <1>6, <1>9, <2>1, <2>2, <3>1
    <3> QED BY <1>3, <1>7, <3>2 DEF OfferKept
  <2>3. CASE ~syncs[run.n].limited
    <3>1. reported'[s] = 0
      BY <1>6, <1>9, <2>3
    <3>2. CASE s \in Missing
      <4>1. mappings'[s] = [mappings[s] EXCEPT !.active = @ /\ run.rows[s].linked, !.stock = 0]
        BY <1>5, <2>1, <3>2
      <4>2. PICK on \in BOOLEAN : on = (mappings[s].active /\ run.rows[s].linked)
        OBVIOUS
      <4>3. mappings'[s] = [mappings[s] EXCEPT !.active = on, !.stock = 0]
        BY <1>3, <4>1, <4>2 DEF Mapping
      <4>4. PICK row : row = [mappings[s] EXCEPT !.active = on, !.stock = 0]
        OBVIOUS
      <4>5. row \in Mapping /\ row.stock = 0
        <5>1. PICK n \in Int : n = 0
          OBVIOUS
        <5>2. row = [mappings[s] EXCEPT !.active = on, !.stock = n]
          BY <4>4, <5>1
        <5>3. row \in Mapping /\ row.stock = n
          BY <1>3, <5>2, MappingChanged
        <5> QED BY <5>1, <5>3
      <4>6. mappings'[s] = row
        BY <4>3, <4>4
      <4> QED BY <1>7, <3>1, <4>5, <4>6
    <3>3. CASE s \notin Missing
      <4>1. mappings'[s] = mappings[s]
        BY <1>5, <2>1, <3>3
      <4>2. mappings[s].known => ~mappings[s].active
        BY <1>4, <1>9, <2>3, <3>3 DEF Missing
      <4>3. mappings[s].known => mappings[s].stock = 0
        BY <1>3, <4>2 DEF OfferKept
      <4>4. ~mappings[s].active => mappings[s].stock = 0
        BY <1>3 DEF OfferKept
      <4> QED BY <1>3, <1>7, <3>1, <4>1, <4>3, <4>4
    <3> QED BY <3>2, <3>3
  <2> QED BY <2>2, <2>3
<1> QED BY <1>8, <1>9

LEMMA ApplyKeeps ==
    ASSUME WholesaleInv, ApplyFeed
    PROVE  WholesaleInv'
<1>1. UNCHANGED <<feed, syncs, asking, staged, shown>> /\ run.at = "read" /\ run # NoRun
  BY ApplyingRun
<1>2. run.n \in Syncs /\ syncs[run.n].st = "PROCESSING" /\ syncs[run.n].job = "active"
  BY <1>1 DEF WholesaleInv, RunFits
<1>3. Lists(run.items)
  BY <1>1 DEF WholesaleInv, RunFits, RunHolds
<1>4. PICK products : products = {s \in ChangedRows \cup Missing : run.rows[s].linked}
  OBVIOUS
<1>5. run' = [at |-> "applied", n |-> run.n, products |-> products] /\ products \subseteq Skus
  BY <1>3, <1>4 DEF ApplyFeed, ChangedRows, Missing, Lists
<1>6. RunFits'
  BY <1>1, <1>2, <1>5 DEF RunFits, RunHolds, Syncs
<1>7. OffersKept'
  BY AppliedOffer DEF OffersKept
<1>8. MappingsTyped'
  <2>1. /\ mappings' = [s \in Skus |-> mappings'[s]]
        /\ reported' = [s \in Skus |-> reported'[s]]
    <3> DEFINE row(s) ==
            CASE s \in ChangedRows \cup Created ->
                    [mappings[s] EXCEPT !.known = TRUE, !.active = TRUE, !.stock = run.items[s]]
              [] s \in Missing -> [mappings[s] EXCEPT !.active = @ /\ run.rows[s].linked,
                                                      !.stock = 0]
              [] OTHER -> mappings[s]
    <3> DEFINE said(s) ==
            CASE s \in DOMAIN run.items -> run.items[s]
              [] s \notin DOMAIN run.items /\ ~syncs[run.n].limited -> 0
              [] OTHER -> reported[s]
    <3>1. mappings' = [s \in Skus |-> row(s)] /\ reported' = [s \in Skus |-> said(s)]
      BY Zenon DEF ApplyFeed
    <3> HIDE DEF row, said
    <3> QED BY <3>1
  <2>2. \A s \in Skus : mappings'[s] \in Mapping /\ reported'[s] \in Int
    BY AppliedOffer
  <2> QED BY <2>1, <2>2 DEF MappingsTyped, Mapping
<1>9. AskingFits' /\ SyncsTyped' /\ asking' \in [FeedRequests -> Request] /\ staged' \subseteq Syncs
      /\ FeedTyped' /\ shown' \in [Skus -> Int]
  BY <1>1 DEF WholesaleInv, AskingFits, SyncsTyped, Syncs, FeedTyped, Lists
<1> QED BY <1>6, <1>7, <1>8, <1>9 DEF WholesaleInv

LEMMA PublishKeeps ==
    ASSUME WholesaleInv, PublishOffers
    PROVE  WholesaleInv'
<1>1. UNCHANGED <<feed, mappings, asking, reported>> /\ run # NoRun /\ SyncEnds("SUCCESS")
      /\ shown' = [s \in Skus |-> IF s \in run.products THEN Offered(s) ELSE shown[s]]
  BY DEF PublishOffers, NoRun
<1>2. SyncsTyped' /\ RunFits' /\ AskingFits' /\ staged' \subseteq Syncs
  BY <1>1, EndKeeps
<1>3. \A s \in Skus : Offered(s) \in Int
  BY DEF WholesaleInv, MappingsTyped, Mapping, Offered
<1>4. shown' \in [Skus -> Int]
  BY <1>1, <1>3 DEF WholesaleInv
<1>5. asking' \in [FeedRequests -> Request] /\ FeedTyped' /\ MappingsTyped' /\ OffersKept'
  BY <1>1 DEF WholesaleInv, FeedTyped, Lists, MappingsTyped, OffersKept, OfferKept
<1> QED BY <1>2, <1>4, <1>5 DEF WholesaleInv

LEMMA SyncFaultKeeps ==
    ASSUME WholesaleInv, SyncFails \/ SyncDies
    PROVE  WholesaleInv'
<1>1. UNCHANGED <<feed, mappings, asking, shown, reported>> /\ run # NoRun
  BY DEF SyncFails, SyncDies
<1>2. CASE SyncFails
  <2>1. SyncEnds("FAILED")
    BY <1>2 DEF SyncFails
  <2> QED BY <1>1, <2>1, EndingSyncKeeps
<1>3. CASE SyncDies
  <2>1. PICK n \in Syncs : n = run.n
    BY <1>1 DEF WholesaleInv, RunFits
  <2>2. syncs \in [Syncs -> SyncRow] /\ syncs[n].st = "PROCESSING"
    BY <1>1, <2>1 DEF WholesaleInv, RunFits, SyncsTyped
  <2>3. PICK row \in SyncRow : syncs' = [syncs EXCEPT ![n] = row]
    <3>1. CASE syncs[n].stalled
      <4>1. syncs' = [syncs EXCEPT ![n] = [syncs[n] EXCEPT !.st = "FAILED", !.job = "over"]]
        BY <1>3, <2>1, <2>2, <3>1 DEF SyncDies
      <4>2. [syncs[n] EXCEPT !.st = "FAILED", !.job = "over"] \in SyncRow
        BY <2>2 DEF SyncRow
      <4> QED BY <4>1, <4>2
    <3>2. CASE ~syncs[n].stalled
      <4>1. syncs' = [syncs EXCEPT ![n] = [syncs[n] EXCEPT !.job = "waiting", !.stalled = TRUE]]
        BY <1>3, <2>1, <2>2, <3>2 DEF SyncDies
      <4>2. [syncs[n] EXCEPT !.job = "waiting", !.stalled = TRUE] \in SyncRow
        BY <2>2 DEF SyncRow
      <4> QED BY <4>1, <4>2
    <3> QED BY <3>1, <3>2
  <2>4. AskingFits' /\ SyncsTyped'
    BY <1>1, <2>2, <2>3, ProcessedIsNotAsked
  <2>5. run' = NoRun /\ staged' = staged
    BY <1>3 DEF SyncDies
  <2>6. RunFits' /\ staged' \subseteq Syncs /\ asking' \in [FeedRequests -> Request]
    BY <1>1, <2>5 DEF RunFits, NoRun, WholesaleInv, Syncs
  <2> QED BY <1>1, <2>4, <2>6, SyncingKeeps
<1> QED BY <1>2, <1>3

LEMMA WholesaleSteps == WholesaleInv /\ [WholesaleNext]_wholesaleVars => WholesaleInv'
<1> SUFFICES ASSUME WholesaleInv, [WholesaleNext]_wholesaleVars PROVE WholesaleInv' OBVIOUS
<1>1. CASE SupplierWrites \/ (\E s \in Skus : MapProduct(s)) \/ DailyPublication
  BY <1>1, OutsideKeeps
<1>2. CASE \E c \in FeedRequests, limited \in BOOLEAN : RequestSync(c, limited)
  BY <1>2, RequestsKeep
<1>3. CASE \E c \in FeedRequests :
                CreateSync(c) \/ AddSyncJob(c) \/ QueueFails(c) \/ RequestDies(c)
  BY <1>3, RequestsKeep
<1>4. CASE SyncStep
  BY <1>4, StartKeeps, FetchKeeps, StageKeeps, ReadMappingsKeeps, ApplyKeeps, PublishKeeps
     DEF SyncStep
<1>5. CASE SyncFails \/ SyncDies
  BY <1>5, SyncFaultKeeps
<1>6. CASE UNCHANGED wholesaleVars
  <2>1. UNCHANGED <<feed, mappings, syncs, asking, run, staged, shown, reported>>
    BY <1>6 DEF wholesaleVars
  <2>2. RunFits'
    BY <2>1, RunStays DEF WholesaleInv, RunFits, SameOffer
  <2>3. AskingFits' /\ SyncsTyped' /\ asking' \in [FeedRequests -> Request] /\ staged' \subseteq Syncs
    BY <2>1 DEF WholesaleInv, AskingFits, SyncsTyped, Syncs
  <2> QED BY <2>1, <2>2, <2>3, SyncingKeeps
<1> QED BY <1>1, <1>2, <1>3, <1>4, <1>5, <1>6 DEF WholesaleNext

LEMMA WholesaleInvTypes == WholesaleInv => WholesaleTypeOK
<1> SUFFICES ASSUME WholesaleInv PROVE WholesaleTypeOK OBVIOUS
<1>1. run.at \in {"idle", "started", "fetched", "staged", "read", "applied"}
  BY DEF WholesaleInv, RunFits, RunHolds, NoRun
<1>2. feed \in Feeds /\ staged \subseteq Syncs /\ shown \in [Skus -> Int] /\ reported \in [Skus -> Int]
  BY DEF WholesaleInv, FeedTyped, MappingsTyped
<1>3. mappings \in [Skus -> [known : BOOLEAN, linked : BOOLEAN, active : BOOLEAN, stock : Int]]
  BY DEF WholesaleInv, MappingsTyped, Mapping
<1>4. syncs \in [Syncs -> [st : {"none", "PENDING", "PROCESSING", "SUCCESS", "FAILED"},
                            limited : BOOLEAN, job : {"none", "waiting", "active", "over"},
                            items : Nat, stalled : BOOLEAN, finished : 0..MaxSyncs]]
  BY DEF WholesaleInv, SyncsTyped, SyncRow
<1>5. asking \in [FeedRequests -> [at : {"idle", "checked", "created"}, limited : BOOLEAN,
                                    n : 0..MaxSyncs]]
  BY DEF WholesaleInv, Request
<1> QED BY <1>1, <1>2, <1>3, <1>4, <1>5 DEF WholesaleTypeOK

LEMMA WholesaleAlways == WholesaleSpec => []WholesaleInv
BY WholesaleAtFirst, WholesaleSteps, PTL DEF WholesaleSpec

(* Every row of the wholesale sync stays in its domain, the place of a     *)
(* finished sync among them; a mapping's stock is a number, whatever its   *)
(* sign, since the feed's column is parsed as one.                         *)
THEOREM WholesaleTypes == WholesaleSpec => []WholesaleTypeOK
BY WholesaleAlways, WholesaleInvTypes, PTL

(* applyWholesaleFeed: for any feeds, SKUs, requests, failures and links   *)
(* changed between the reading of the mappings and the transaction, a      *)
(* mapping holds what the applied feeds last said of it and is active if   *)
(* that is a stock.                                                        *)
THEOREM OffersReported == WholesaleSpec => []OffersAreReported
<1>1. WholesaleInv => OffersAreReported
  BY DEF WholesaleInv, OffersKept, OfferKept, OffersAreReported, MappingsTyped, Mapping
<1> QED BY <1>1, WholesaleAlways, PTL
-----------------------------------------------------------------------------
(***************************************************************************)
(* Types of the publication.  The bound of the logs holds because a        *)
(* publication takes its room when it begins: the logs and the             *)
(* publications that will write one are counted together.                  *)
(***************************************************************************)
LogsFit == Cardinality(logs) + Cardinality(Unlogged) <= MaxLogs

PublicationInv ==
    /\ ReadOnly
    /\ ownSeen \subseteq StockLevels /\ offerSeen \subseteq SupplierOffers
    /\ bulk \in BOOLEAN /\ ShopView(shop)
    /\ LogsFit
    /\ moves \in 0..MaxMoves /\ requeues \in 0..MaxRequeues
    /\ publishFaults \in 0..MaxPublishFaults

LEMMA ReadIsDecision ==
    ASSUME ownSeen \subseteq StockLevels, offerSeen \subseteq SupplierOffers
    PROVE  Shown \subseteq Decisions
BY DEF Shown, Decisions

LEMMA RowsAreRows == RowsOf(Decisions) = LogRows
<1>1. BusyOf(Decisions) = [at : {"waiting", "reading", "active", "half", "written"},
                           sends : Carried, attempts : Nat, stalled : BOOLEAN]
  BY DEF BusyOf, Carried
<1>2. JobsOf(Decisions) = JobRows
  BY <1>1 DEF JobsOf, JobRows
<1> QED BY <1>2 DEF RowsOf, LogRows

LEMMA ReasonsAreThree == IsFiniteSet(Reasons) /\ Cardinality(Reasons) \in Nat
<1>1. IsFiniteSet({}) /\ IsFiniteSet({"DOCUMENT_CONFIRM"})
  BY FS_EmptySet, FS_Singleton
<1>2. IsFiniteSet({"DOCUMENT_CONFIRM"} \cup {"WHOLESALE_SYNC"})
  BY <1>1, FS_AddElement
<1>3. IsFiniteSet(({"DOCUMENT_CONFIRM"} \cup {"WHOLESALE_SYNC"}) \cup {"SCHEDULED"})
  BY <1>2, FS_AddElement
<1>4. Reasons = ({"DOCUMENT_CONFIRM"} \cup {"WHOLESALE_SYNC"}) \cup {"SCHEDULED"}
  BY DEF Reasons
<1> QED BY <1>3, <1>4, FS_CardinalityType

LEMMA UnloggedIsFinite == IsFiniteSet(Unlogged) /\ Cardinality(Unlogged) \in Nat
<1>1. Unlogged \subseteq Reasons
  BY DEF Unlogged
<1> QED BY <1>1, ReasonsAreThree, FS_Subset, FS_CardinalityType

(* Rewriting leaves no more logs than there were, *)
LEMMA RewritesFit ==
    ASSUME ReadOnly, LogsFit, Rewrites, Unlogged' \subseteq Unlogged
    PROVE  LogsFit'
<1>1. IsFiniteSet(Unlogged) /\ Cardinality(Unlogged) \in Nat
  BY UnloggedIsFinite
<1>2. IsFiniteSet(Unlogged') /\ Cardinality(Unlogged') <= Cardinality(Unlogged)
  BY <1>1, FS_Subset
<1>3. logs \subseteq RowsOf(Shown) /\ IsFiniteSet(logs) /\ Cardinality(logs) \in Nat
  BY FS_CardinalityType DEF ReadOnly
<1>4. Cardinality(logs') \in Nat /\ Cardinality(logs') <= Cardinality(logs)
  <2>1. CASE logs' = logs
    BY <1>3, <2>1
  <2>2. ASSUME NEW l \in logs, NEW m \in RowsOf(Shown), Update(l, m) \/ UpdateAndForget(l, m)
        PROVE  Cardinality(logs') \in Nat /\ Cardinality(logs') <= Cardinality(logs)
    <3>1. PICK ls : ls = (logs \ {l}) \cup {m}
      OBVIOUS
    <3>2. /\ ls \subseteq RowsOf(Shown) /\ IsFiniteSet(ls)
          /\ Cardinality(ls) <= Cardinality(logs) /\ Cardinality(ls) \in Nat
      BY <1>3, <3>1, RowReplaced
    <3>3. Cardinality(Forget(ls)) <= Cardinality(ls) /\ Cardinality(Forget(ls)) \in Nat
      BY <3>2, ForgettingFits
    <3>4. logs' = ls \/ logs' = Forget(ls)
      BY <2>2, <3>1 DEF Update, UpdateAndForget
    <3> QED BY <1>3, <3>2, <3>3, <3>4
  <2> QED BY <2>1, <2>2 DEF Rewrites
<1>5. Cardinality(Unlogged') \in Nat
  BY <1>2, FS_CardinalityType
<1>6. Cardinality(logs) + Cardinality(Unlogged) <= MaxLogs /\ MaxLogs \in Nat
  BY PublicationAssumption DEF LogsFit
<1>7. Cardinality(logs') + Cardinality(Unlogged') <= MaxLogs
  BY <1>1, <1>2, <1>3, <1>4, <1>5, <1>6
<1> QED BY <1>7 DEF LogsFit

(* and a log is added in the room that was there for it. *)
LEMMA AddedFits ==
    ASSUME ReadOnly, NEW m, Adds(m), IsFiniteSet(Unlogged'),
           Cardinality(logs) + Cardinality(Unlogged') + 1 <= MaxLogs
    PROVE  LogsFit'
<1>1. IsFiniteSet(logs) /\ Cardinality(logs) \in Nat /\ logs' = logs \cup {m}
  BY FS_CardinalityType DEF ReadOnly, Adds
<1>2. Cardinality(logs') \in {Cardinality(logs), Cardinality(logs) + 1}
  BY <1>1, FS_AddElement
<1>3. Cardinality(Unlogged') \in Nat /\ MaxLogs \in Nat
  BY FS_CardinalityType, PublicationAssumption
<1>4. Cardinality(logs') + Cardinality(Unlogged') <= MaxLogs
  BY <1>1, <1>2, <1>3
<1> QED BY <1>4 DEF LogsFit

(* Only one publication is further, or is not there any more. *)
LEMMA OneLogsLess ==
    ASSUME NEW s \in Reasons, NEW task, sending' = [sending EXCEPT ![s] = task],
           DOMAIN sending = Reasons
    PROVE  /\ Unlogged' \subseteq Unlogged \cup {s}
           /\ s \in Unlogged => Unlogged' \subseteq Unlogged
           /\ task.at \notin {"read", "decided", "compared"} => Unlogged' \subseteq Unlogged \ {s}
BY DEF Unlogged, Reasons

LEMMA PublicationAtFirst == PublicationInit => PublicationInv
<1> SUFFICES ASSUME PublicationInit PROVE PublicationInv OBVIOUS
<1>1. ReadOnly
  BY ReadAtFirst
<1>2. own \in StockLevels /\ ownSeen = {own} /\ offer \in SupplierOffers /\ offerSeen = {offer}
      /\ bulk \in BOOLEAN
  BY DEF PublicationInit
<1>3. ShopView(shop)
  <2>1. PICK d \in Decisions : d = Decision(own, offer)
    BY <1>2 DEF Decisions
  <2>2. PICK q, i, b, p : d = [qty |-> q, inStock |-> i, outOfStock |-> b, policy |-> p]
    BY <2>1, DecisionIsRecord
  <2>3. PICK c \in {d, WithoutInStock(d)} : shop = c
    BY <2>1 DEF PublicationInit
  <2>4. c = [qty |-> d.qty, inStock |-> c.inStock, outOfStock |-> d.outOfStock,
             policy |-> c.policy]
    BY <2>2, <2>3 DEF WithoutInStock
  <2>5. c \in Carried
    BY <2>3 DEF Carried
  <2> QED BY <2>3, <2>4, <2>5 DEF ShopView
<1>4. \E l : logs = {l}
  BY DEF PublicationInit
<1>5. Cardinality(logs) = 1
  BY <1>4, FS_Singleton
<1>6. Unlogged = {}
  BY DEF PublicationInit, Unlogged, Idle
<1>7. Cardinality(Unlogged) = 0
  BY <1>6, FS_EmptySet
<1>8. LogsFit
  BY <1>5, <1>7, PublicationAssumption DEF LogsFit
<1>9. moves = 0 /\ requeues = 0 /\ publishFaults = 0
  BY DEF PublicationInit
<1> QED BY <1>1, <1>2, <1>3, <1>8, <1>9, PublicationAssumption DEF PublicationInv

LEMMA PublicationsFit ==
    ASSUME PublicationInv, NEW s \in Reasons,
           BeginPublication(s) \/ PublicationStep(s) \/ PublicationDies(s)
    PROVE  LogsFit'
<1>1. ReadOnly /\ LogsFit /\ DOMAIN sending = Reasons /\ IsFiniteSet(logs)
      /\ Cardinality(logs) \in Nat /\ Cardinality(Unlogged) \in Nat /\ IsFiniteSet(Unlogged)
      /\ MaxLogs \in Nat
  BY UnloggedIsFinite, FS_CardinalityType, PublicationAssumption DEF PublicationInv, ReadOnly
<1>2. CASE BeginPublication(s)
  <2>1. PICK task : sending' = [sending EXCEPT ![s] = task] /\ logs' = logs /\ Room(s)
    BY <1>2 DEF BeginPublication
  <2>2. Unlogged' \subseteq Unlogged \cup {s}
    BY <1>1, <2>1, OneLogsLess
  <2>3. IsFiniteSet(Unlogged \cup {s})
        /\ Cardinality(Unlogged \cup {s}) \in {Cardinality(Unlogged), Cardinality(Unlogged) + 1}
    BY <1>1, FS_AddElement
  <2>4. IsFiniteSet(Unlogged') /\ Cardinality(Unlogged') <= Cardinality(Unlogged \cup {s})
    BY <2>2, <2>3, FS_Subset
  <2>5. Cardinality(Unlogged') \in Nat
    BY <2>4, FS_CardinalityType
  <2>6. Cardinality(logs) + Cardinality(Unlogged) < MaxLogs
    <3>1. CASE s = "SCHEDULED"
      BY <1>1, <2>1, <3>1 DEF Room
    <3>2. CASE s # "SCHEDULED"
      BY <1>1, <2>1, <3>2 DEF Room
    <3> QED BY <3>1, <3>2
  <2>7. Cardinality(logs) + Cardinality(Unlogged') <= MaxLogs
    BY <1>1, <2>3, <2>4, <2>5, <2>6
  <2> QED BY <2>1, <2>7 DEF LogsFit
<1>3. CASE CreateLog(s)
  <2>1. sending[s].at \in {"compared", "decided"}
        /\ sending' = [sending EXCEPT ![s] = [at |-> "logged"]]
    BY <1>3 DEF CreateLog
  <2>2. sending[s].item \in Shown
    BY <1>1, <2>1 DEF ReadOnly
  <2>3. Adds(NewLog(sending[s].item, Unqueued(s)))
    BY <1>1, <1>3, <2>2, NewLogFits DEF CreateLog, Adds
  <2>4. s \in Unlogged /\ Unlogged' \subseteq Unlogged \ {s}
    BY <1>1, <2>1, OneLogsLess DEF Unlogged
  <2>5. IsFiniteSet(Unlogged \ {s}) /\ Cardinality(Unlogged \ {s}) = Cardinality(Unlogged) - 1
    BY <1>1, <2>4, FS_RemoveElement
  <2>6. IsFiniteSet(Unlogged') /\ Cardinality(Unlogged') <= Cardinality(Unlogged) - 1
    BY <2>4, <2>5, FS_Subset
  <2>7. Cardinality(Unlogged') \in Nat
    BY <2>6, FS_CardinalityType
  <2>8. Cardinality(logs) + Cardinality(Unlogged) <= MaxLogs
    BY <1>1 DEF LogsFit
  <2>9. Cardinality(logs) + Cardinality(Unlogged') + 1 <= MaxLogs
    BY <1>1, <2>6, <2>7, <2>8
  <2> QED BY <1>1, <2>3, <2>6, <2>9, AddedFits
<1>4. CASE Rewrites /\ ~BeginPublication(s)
  <2>1. PICK task : sending' = [sending EXCEPT ![s] = task]
                    /\ (s \in Unlogged \/ task.at = "idle")
    BY <1>4 DEF PublicationStep, Decide, Compare, CreateLog, AddJob, PublicationDies, Idle,
                Unlogged
  <2>2. Unlogged' \subseteq Unlogged
    BY <1>1, <2>1, OneLogsLess
  <2> QED BY <1>1, <1>4, <2>2, RewritesFit
<1> QED BY <1>1, <1>2, <1>3, <1>4, PublicationsKeepRead

LEMMA JobsFit ==
    ASSUME PublicationInv, RetryLog \/ \E l \in logs : Requeue(l) \/ JobStep(l) \/ JobFault(l)
    PROVE  LogsFit'
<1>1. sending' = sending
  BY DEF RetryLog, Requeue, JobStep, JobFault, TakeRetry, Process, WriteBulk, WriteStock,
         WriteAvailability, Answer, WriteFails, ItemRefused, WorkerDies
<1>2. Unlogged' = Unlogged
  BY <1>1 DEF Unlogged, Reasons
<1>3. ReadOnly /\ LogsFit /\ IsFiniteSet(logs)
      /\ Cardinality(logs) \in Nat /\ Cardinality(Unlogged) \in Nat /\ IsFiniteSet(Unlogged)
      /\ MaxLogs \in Nat
  BY UnloggedIsFinite, FS_CardinalityType, PublicationAssumption DEF PublicationInv, ReadOnly
<1>4. CASE RetryLog
  <2>1. Decision(own, offer) \in Shown
    BY <1>3 DEF ReadOnly, Shown
  <2>2. PICK m : Adds(m)
    BY <1>3, <1>4, <2>1, NewLogFits DEF RetryLog, Adds
  <2>3. Cardinality(logs) + Cardinality(Unlogged) + 1 < MaxLogs
    BY <1>4 DEF RetryLog, Room
  <2>4. Cardinality(logs) + Cardinality(Unlogged') + 1 <= MaxLogs
    BY <1>2, <1>3, <2>3
  <2> QED BY <1>2, <1>3, <2>2, <2>4, AddedFits
<1>5. CASE \E l \in logs : Requeue(l) \/ JobStep(l) \/ JobFault(l)
  BY <1>2, <1>3, <1>5, JobsRewrite, RewritesFit
<1> QED BY <1>4, <1>5

(* What a job leaves in the shop is made of parts of decisions. *)
LEMMA ShopIsMade ==
    ASSUME PublicationInv, NEW l \in logs, JobStep(l)
    PROVE  ShopView(shop')
<1>1. CASE shop' = shop
  BY <1>1 DEF PublicationInv
<1>2. ASSUME NEW n \in 1..2, WriteBulk(l, n) \/ WriteStock(l, n) \/ WriteAvailability(l, n)
      PROVE  ShopView(shop')
  <2>1. Shown \subseteq Decisions /\ ShopView(shop) /\ l \in RowsOf(Shown)
    BY ReadIsDecision DEF PublicationInv, ReadOnly
  <2>2. l.jobs[n] \in BusyOf(Decisions)
    <3>1. l \in RowsOf(Decisions)
      BY <2>1, RowsGrow
    <3> QED BY <1>2, <3>1, BusyFits DEF WriteBulk, WriteStock, WriteAvailability
  <2>3. PICK d \in Carried : d = l.jobs[n].sends
    BY <2>2 DEF BusyOf, Carried
  <2>4. PICK c \in Decisions : d = c \/ d = WithoutInStock(c)
    BY DEF Carried
  <2>5. PICK q, i, b, p : c = [qty |-> q, inStock |-> i, outOfStock |-> b, policy |-> p]
    BY DecisionIsRecord DEF Decisions
  <2>6. PICK k : d = [qty |-> c.qty, inStock |-> k, outOfStock |-> c.outOfStock,
                      policy |-> c.policy]
    BY <2>4, <2>5 DEF WithoutInStock
  <2>7a. PICK e \in Decisions : \E j, r : shop = [qty |-> e.qty, inStock |-> j,
                                                outOfStock |-> e.outOfStock, policy |-> r]
    BY <2>1 DEF ShopView
  <2>7. PICK j, r : shop = [qty |-> e.qty, inStock |-> j, outOfStock |-> e.outOfStock,
                            policy |-> r]
    BY <2>7a
  <2>8. shop.inStock = j /\ shop.policy = r
    BY <2>7
  <2>9. (\E x \in Carried : j = x.inStock) /\ (\E x \in Carried : r = x.policy)
    BY <2>1, <2>8 DEF ShopView
  <2>10. PICK view : shop' = view
    OBVIOUS
  <2>11. CASE WriteBulk(l, n)
    <3>1. view = d \/ view = [d EXCEPT !.inStock = shop.inStock]
      BY <2>3, <2>10, <2>11 DEF WriteBulk
    <3>2. PICK m \in {k, j} : view = [qty |-> c.qty, inStock |-> m, outOfStock |-> c.outOfStock,
                                     policy |-> c.policy]
      BY <2>6, <2>8, <3>1
    <3>3. view.inStock = m /\ view.policy = c.policy
      BY <3>2
    <3>4. (\E x \in Carried : m = x.inStock) /\ (\E x \in Carried : c.policy = x.policy)
      BY <2>6, <2>9
    <3> QED BY <2>10, <3>2, <3>3, <3>4 DEF ShopView
  <2>12. CASE WriteStock(l, n)
    <3>1. view = [shop EXCEPT !.qty = d.qty, !.outOfStock = d.outOfStock]
      BY <2>3, <2>10, <2>12 DEF WriteStock, WithStock
    <3>2. view = [qty |-> c.qty, inStock |-> j, outOfStock |-> c.outOfStock, policy |-> r]
      BY <2>6, <2>7, <3>1
    <3> QED BY <2>9, <2>10, <3>2 DEF ShopView
  <2>13. CASE WriteAvailability(l, n)
    <3>1. view = [shop EXCEPT !.policy = d.policy]
      BY <2>3, <2>10, <2>13 DEF WriteAvailability
    <3>2. view = [qty |-> e.qty, inStock |-> j, outOfStock |-> e.outOfStock, policy |-> d.policy]
      BY <2>7, <3>1
    <3> QED BY <2>9, <2>10, <3>2 DEF ShopView
  <2> QED BY <1>2, <2>11, <2>12, <2>13
<1>3. \/ shop' = shop
      \/ \E n \in 1..2 : WriteBulk(l, n) \/ WriteStock(l, n) \/ WriteAvailability(l, n)
  BY DEF JobStep, TakeRetry, Process, Answer
<1> QED BY <1>1, <1>2, <1>3

(* The rest of the state: the counters, what was seen, what the shop shows. *)
LEMMA PublicationRest ==
    ASSUME PublicationInv, PublicationNext
    PROVE  /\ ownSeen' \subseteq StockLevels /\ offerSeen' \subseteq SupplierOffers
           /\ bulk' \in BOOLEAN /\ ShopView(shop')
           /\ moves' \in 0..MaxMoves /\ requeues' \in 0..MaxRequeues
           /\ publishFaults' \in 0..MaxPublishFaults
<1>1. /\ moves \in 0..MaxMoves /\ publishFaults \in 0..MaxPublishFaults
      /\ requeues \in 0..MaxRequeues
      /\ MaxMoves \in Nat /\ MaxPublishFaults \in Nat /\ MaxRequeues \in Nat
      /\ ownSeen \subseteq StockLevels /\ offerSeen \subseteq SupplierOffers
      /\ bulk \in BOOLEAN /\ ShopView(shop)
  BY PublicationAssumption DEF PublicationInv
<1>2. CASE StockMoves \/ OfferChanges
  BY <1>1, <1>2 DEF StockMoves, OfferChanges
<1>3. CASE RetryLog \/ \E s \in Reasons : BeginPublication(s) \/ PublicationStep(s)
  <2>1. UNCHANGED <<ownSeen, offerSeen, bulk, shop, moves, requeues>>
        /\ (UNCHANGED publishFaults \/ Failing)
    BY <1>3 DEF RetryLog, BeginPublication, PublicationStep, Decide, Compare, CreateLog, AddJob,
                warehouse
  <2> QED BY <1>1, <2>1 DEF Failing
<1>4. CASE (\E s \in Reasons : PublicationDies(s)) \/ \E l \in logs : JobFault(l)
  <2>1. UNCHANGED <<ownSeen, offerSeen, bulk, shop, moves, requeues>> /\ Failing
    BY <1>4 DEF PublicationDies, JobFault, WriteFails, ItemRefused, WorkerDies, warehouse
  <2> QED BY <1>1, <2>1 DEF Failing
<1>5. CASE \E l \in logs : Requeue(l)
  BY <1>1, <1>5 DEF Requeue, warehouse
<1>6. CASE \E l \in logs : JobStep(l)
  <2>1. UNCHANGED <<ownSeen, offerSeen, bulk, moves, requeues, publishFaults>>
    BY <1>6 DEF JobStep, TakeRetry, Process, WriteBulk, WriteStock, WriteAvailability, Answer,
                warehouse
  <2> QED BY <1>1, <1>6, <2>1, ShopIsMade
<1> QED BY <1>2, <1>3, <1>4, <1>5, <1>6 DEF PublicationNext

LEMMA PublicationSteps == PublicationInv /\ [PublicationNext]_publishVars => PublicationInv'
<1> SUFFICES ASSUME PublicationInv, [PublicationNext]_publishVars PROVE PublicationInv' OBVIOUS
<1>1. ReadOnly'
  BY PublicationRefines DEF PublicationInv
<1>2. ASSUME ShopView(shop') PROVE ShopView(shop)'
  BY <1>2 DEF ShopView, Carried, Decisions, Decision, OnOffer, Expected, WithoutInStock
<1>3. CASE PublicationNext
  <2>1. LogsFit'
    <3>1. CASE StockMoves \/ OfferChanges
      <4>1. UNCHANGED <<logs, sending>>
        BY <3>1 DEF StockMoves, OfferChanges
      <4>2. Unlogged' = Unlogged
        BY <4>1 DEF Unlogged, Reasons
      <4> QED BY <4>1, <4>2 DEF LogsFit, PublicationInv
    <3>2. CASE \E s \in Reasons : BeginPublication(s) \/ PublicationStep(s) \/ PublicationDies(s)
      BY <3>2, PublicationsFit
    <3>3. CASE RetryLog \/ \E l \in logs : Requeue(l) \/ JobStep(l) \/ JobFault(l)
      BY <3>3, JobsFit
    <3> QED BY <1>3, <3>1, <3>2, <3>3 DEF PublicationNext
  <2> QED BY <1>1, <1>2, <1>3, <2>1, PublicationRest DEF PublicationInv
<1>4. CASE UNCHANGED publishVars
  <2>1. UNCHANGED <<own, offer, ownSeen, offerSeen, bulk, shop, logs, sending, moves, requeues,
                    publishFaults>>
    BY <1>4 DEF publishVars, warehouse
  <2>2. Unlogged' = Unlogged
    BY <2>1 DEF Unlogged, Reasons
  <2> QED BY <1>1, <1>2, <2>1, <2>2 DEF PublicationInv, LogsFit
<1> QED BY <1>3, <1>4

LEMMA PublicationInvTypes == PublicationInv => PublicationTypeOK
<1> SUFFICES ASSUME PublicationInv PROVE PublicationTypeOK OBVIOUS
<1>1. Cardinality(logs) <= MaxLogs
  BY UnloggedIsFinite, FS_CardinalityType, PublicationAssumption DEF PublicationInv, LogsFit, ReadOnly
<1>2. logs \subseteq LogRows
  BY ReadIsDecision, RowsGrow, RowsAreRows DEF PublicationInv, ReadOnly
<1> QED BY <1>1, <1>2 DEF PublicationInv, PublicationTypeOK, ReadOnly

(* The logs that still matter stay within their bound, whoever asks for    *)
(* publications and retries, and every row within its domain.              *)
THEOREM PublicationTypes == PublicationSpec => []PublicationTypeOK
<1>1. PublicationSpec => []PublicationInv
  BY PublicationAtFirst, PublicationSteps, PTL DEF PublicationSpec
<1> QED BY <1>1, PublicationInvTypes, PTL
-----------------------------------------------------------------------------
(* The two services of one behaviour: each keeps its part, the other rests. *)
THEOREM ExchangeTypes == Spec => []ExchangeTypeOK
<1>1. Init => PublicationInv /\ WholesaleInv
  BY PublicationAtFirst, WholesaleAtFirst
     DEF Init, PublicationStarts, PublicationRests, WholesaleStarts
<1>2. PublicationInv /\ WholesaleInv /\ [Next]_vars => (PublicationInv /\ WholesaleInv)'
  <2> SUFFICES ASSUME PublicationInv, WholesaleInv, [Next]_vars
               PROVE  (PublicationInv /\ WholesaleInv)'
    OBVIOUS
  <2>1. [PublicationNext]_publishVars /\ [WholesaleNext]_wholesaleVars
    BY DEF Next, Publishes, Synchronises, vars
  <2> QED BY <2>1, PublicationSteps, WholesaleSteps
<1>3. PublicationInv /\ WholesaleInv => ExchangeTypeOK
  BY PublicationInvTypes, WholesaleInvTypes DEF ExchangeTypeOK
<1> QED BY <1>1, <1>2, <1>3, PTL DEF Spec
-----------------------------------------------------------------------------
(***************************************************************************)
(* InvitedOnce, for any orders, requests, synchronisations and failures.   *)
(***************************************************************************)

Fields(p) ==
    {"pc", "o", "st", "for", "failed", "new"} \cup (IF p \in Syncers THEN {"list"} ELSE {})
Busy(step) == step.pc \notin {"free", "finish"}

(* Statements that come before an order is created, or without creating    *)
(* one; those that only the creator of an order runs; those that know a    *)
(* state of the shop.                                                      *)
Early == {"register", "lookup", "find", "read", "refresh", "details", "push", "unpushed"}
Creating == {"create", "items", "mail"}
Knowing == {"register", "lookup", "find", "refresh", "create", "push"}
Listing(list) == \A e \in list : e.o \in ShopOrders /\ e.st \in ShopStates

(* What a process carries from statement to statement.                     *)
Shape(p, step) == Busy(step) =>
    /\ Fields(p) \subseteq DOMAIN step
    /\ step.o \in ShopOrders /\ step.new \in BOOLEAN
    /\ step.pc \in Early => ~step.new
    /\ step.pc \in Creating => step.new
    /\ step.pc \in Knowing => step.st \in ShopStates
    /\ p \in IntakeHandlers => step.for \in ShopStates \cup {"panel"}
    /\ step.pc = "register" => p \in IntakeHandlers /\ step.for \in ShopStates
    /\ p \in Syncers => Listing(step.list)

Shaped == \A p \in Processes : Shape(p, doing[p])

(* A process that created an order and has not invited its customer yet.   *)
Invites(step, o) ==
    step.pc \in {"items", "effects", "hold", "mail"} /\ step.new /\ step.o = o

(* One process at most is about to invite, and only the customer of an     *)
(* order that is there and was not invited.                                *)
InvitedByOne ==
    \A o \in ShopOrders :
       /\ invited[o] # 0 => invited[o] = 1 /\ Known(o)
       /\ \A p \in Processes : Invites(doing[p], o) =>
             /\ invited[o] = 0 /\ Known(o)
             /\ \A q \in Processes : Invites(doing[q], o) => q = p

IntakeInv == IntakeTypeOK /\ Shaped /\ InvitedByOne

(* IntakeTypeOK in two parts: the rows of orders, and the rest.            *)
RowsOK ==
    /\ orders \in [ShopOrders -> [st : ShopStates \cup {"none"}, items : BOOLEAN,
                                  stock : {"none", "held", "issued"}]]
    /\ \A o \in ShopOrders : orders[o].stock # "none" => orders[o].items
RestOK ==
    /\ theirs \in [ShopOrders -> [st : ShopStates, day : 0..LastDay]]
    /\ event \in [ShopOrders -> [ShopStates -> {"unsent", "sent", "open", "PROCESSED"}]]
    /\ lastSync \in 0..day /\ day \in 0..LastDay
    /\ invited \in [ShopOrders -> Nat]

LEMMA TypeParts ==
    /\ IntakeTypeOK <=> RowsOK /\ RestOK /\ DOMAIN doing = Processes
    /\ IntakeTypeOK' <=> RowsOK' /\ RestOK' /\ DOMAIN doing' = Processes
BY DEF IntakeTypeOK, RowsOK, RestOK

-----------------------------------------------------------------------------
(* The list of a synchronisation has a first order.                        *)
LEMMA LeastIsThere ==
    ASSUME NEW S, S # {}, \A x \in S : x.o \in Nat
    PROVE  Least(S) \in S
<1> DEFINE T == {x.o : x \in S}
           R == OpToRel(<, Nat)
<1>1. IsWellFoundedOn(R, Nat)
  BY NatLessThanWellFounded
<1>2. T \subseteq Nat /\ T # {}
  OBVIOUS
<1>3. PICK n \in T : \A m \in T : ~ (<<m, n>> \in R)
  <2> HIDE DEF T, R
  <2> QED BY <1>1, <1>2, WFMin
<1>4. \A m \in T : ~ (m < n)
  BY <1>2, <1>3 DEF OpToRel
<1>5. PICK x \in S : x.o = n
  OBVIOUS
<1>6. \A y \in S : x.o <= y.o
  <2>1. \A y \in S : y.o \in T /\ y.o \in Nat
    OBVIOUS
  <2>2. n \in Nat
    BY <1>2
  <2> HIDE DEF T
  <2> QED BY <1>4, <1>5, <2>1, <2>2
<1>7. \E z \in S : \A y \in S : z.o <= y.o
  BY <1>6, Zenon
<1> QED BY <1>7, Zenon DEF Least

(* A synchronisation goes on with an order of its list.                    *)
LEMMA ImportIsShaped ==
    ASSUME NEW p \in Syncers, NEW list, Listing(list)
    PROVE  Shape(p, Import(list)) /\ \A o : ~Invites(Import(list), o)
<1>1. CASE list = {}
  BY <1>1 DEF Import, Shape, Busy, Invites
<1>2. CASE list # {}
  <2> DEFINE e == Least(list)
  <2>1. e \in list
    <3>1. \A x \in list : x.o \in Nat
      BY IntakeAssumption DEF Listing
    <3> QED BY <1>2, <3>1, LeastIsThere
  <2>2. Import(list) = [pc |-> "find", o |-> e.o, st |-> e.st, for |-> "sync",
                        failed |-> FALSE, new |-> FALSE, list |-> list \ {e}]
    BY <1>2 DEF Import
  <2>3. e.o \in ShopOrders /\ e.st \in ShopStates /\ Listing(list \ {e})
    BY <2>1 DEF Listing
  <2> HIDE DEF e
  <2>4. p \notin IntakeHandlers
    BY IntakeAssumption
  <2> QED BY <2>2, <2>3, <2>4 DEF Shape, Busy, Fields, Invites, Early, Creating, Knowing
<1> QED BY <1>1, <1>2

(* A step that knows every order that was known and invites nobody, of a   *)
(* process that does not become the one to invite.                         *)
LEMMA QuietKeeps ==
    ASSUME IntakeInv, RowsOK', RestOK', NEW p \in Processes, NEW step, GoOn(p, step),
           Shape(p, step), UNCHANGED invited,
           \A o \in ShopOrders : Known(o) => Known(o)',
           \A o \in ShopOrders : Invites(step, o) => Invites(doing[p], o)
    PROVE  IntakeInv'
<1>1. doing'[p] = step /\ \A q \in Processes : q # p => doing'[q] = doing[q]
  BY DEF GoOn, IntakeInv, IntakeTypeOK
<1>2. \A q \in Processes : Shape(q, doing'[q])
  BY <1>1 DEF IntakeInv, Shaped
<1>3. Shaped' /\ DOMAIN doing' = Processes
  BY <1>2 DEF Shaped, Shape, Fields, Busy, Listing, GoOn, IntakeInv, IntakeTypeOK
<1>4. \A q \in Processes, o \in ShopOrders : Invites(doing'[q], o) => Invites(doing[q], o)
  BY <1>1
<1>5. InvitedByOne'
  BY <1>4 DEF InvitedByOne, IntakeInv
<1> QED BY <1>3, <1>5, TypeParts DEF IntakeInv

(* The status of an order that is there is replaced by another.            *)
LEMMA StatusIsSet ==
    ASSUME RowsOK, NEW o \in ShopOrders, NEW s \in ShopStates, SetStatus(o, s)
    PROVE  RowsOK' /\ \A q \in ShopOrders : Known(q) => Known(q)'
<1>1. "none" \notin ShopStates
  BY IntakeAssumption
<1>2. PICK t \in ShopStates \cup {"none"} :
         /\ orders' = [orders EXCEPT ![o].st = t]
         /\ orders[o].st # "none" => t # "none"
  BY <1>1 DEF SetStatus, RowsOK
<1>3. RowsOK'
  BY <1>2 DEF RowsOK
<1>4. \A q \in ShopOrders : Known(q) => Known(q)'
  BY <1>2 DEF RowsOK, Known
<1> QED BY <1>3, <1>4

(* The stock of an order whose items are there changes.                    *)
LEMMA StockIsSet ==
    ASSUME RowsOK, NEW o \in ShopOrders, NEW v \in {"none", "held", "issued"},
           v # "none" => orders[o].items, Stock(o, v)
    PROVE  RowsOK' /\ \A q \in ShopOrders : Known(q) => Known(q)'
<1>1. orders' = [orders EXCEPT ![o].stock = v]
  BY DEF Stock
<1>2. RowsOK'
  BY <1>1 DEF RowsOK
<1>3. \A q \in ShopOrders : Known(q) => Known(q)'
  BY <1>1 DEF RowsOK, Known
<1> QED BY <1>2, <1>3

LEMMA RestIsKept == ASSUME RestOK, Keep, UNCHANGED invited PROVE RestOK'
BY DEF RestOK, Keep

LEMMA RowsAreKept ==
    ASSUME RowsOK, UNCHANGED orders
    PROVE  RowsOK' /\ \A q \in ShopOrders : Known(q) => Known(q)'
BY DEF RowsOK, Known

(* What a process knows when it runs a statement.                          *)
LEMMA AtWork ==
    ASSUME IntakeInv, NEW p \in Processes, doing[p].pc \notin {"free", "finish"}
    PROVE  /\ RowsOK /\ RestOK /\ Shape(p, doing[p]) /\ Busy(doing[p])
           /\ doing[p].o \in ShopOrders /\ doing[p].new \in BOOLEAN
           /\ Fields(p) \subseteq DOMAIN doing[p]
BY TypeParts DEF IntakeInv, Shaped, Shape, Busy

(* The next statement of the same request, after what it has read.         *)
LEMMA NextIsShaped ==
    ASSUME NEW p \in Processes, NEW a, Shape(p, a), Busy(a),
           NEW b, DOMAIN b = DOMAIN a, b.o = a.o, b.for = a.for, b.new \in BOOLEAN,
           p \in Syncers => b.list = a.list,
           b.pc # "register",
           b.pc \in Early => ~b.new, b.pc \in Creating => b.new,
           b.pc \in Knowing => b.st \in ShopStates
    PROVE  Shape(p, b)
BY DEF Shape, Busy, Fields

LEMMA ToIsShaped ==
    ASSUME NEW p \in Processes, NEW a, Shape(p, a), Busy(a), NEW pc, pc # "register",
           pc \in Early => ~a.new, pc \in Creating => a.new,
           pc \in Knowing => a.st \in ShopStates
    PROVE  /\ Shape(p, [a EXCEPT !.pc = pc])
           /\ [a EXCEPT !.pc = pc].pc = pc /\ ([a EXCEPT !.pc = pc].new <=> a.new)
           /\ [a EXCEPT !.pc = pc].o = a.o
<1> DEFINE b == [a EXCEPT !.pc = pc]
<1>1. Fields(p) \subseteq DOMAIN a /\ a.new \in BOOLEAN
  BY DEF Shape
<1>2. /\ DOMAIN b = DOMAIN a /\ b.pc = pc /\ b.o = a.o /\ b.for = a.for /\ b.new = a.new
      /\ b.st = a.st
      /\ p \in Syncers => b.list = a.list
  BY <1>1 DEF Fields
<1> HIDE DEF b
<1>3. b.pc \in Early => ~b.new
  BY <1>2, Zenon
<1>4. b.pc \in Creating => b.new
  BY <1>2, Zenon
<1>5. Shape(p, b)
  BY <1>1, <1>2, <1>3, <1>4, NextIsShaped
<1>6. b.new <=> a.new
  BY <1>2, Zenon
<1> QED BY <1>2, <1>5, <1>6 DEF b

LEMMA FailedIsShaped ==
    ASSUME NEW p \in Processes, NEW a, Shape(p, a), Busy(a), NEW pc, NEW f,
           pc \notin Early \cup Knowing, pc \in Creating => a.new
    PROVE  LET b == [a EXCEPT !.pc = pc, !.failed = f] IN
           Shape(p, b) /\ b.pc = pc /\ (b.new <=> a.new) /\ b.o = a.o
<1> DEFINE b == [a EXCEPT !.pc = pc, !.failed = f]
<1>1. Fields(p) \subseteq DOMAIN a /\ a.new \in BOOLEAN
  BY DEF Shape
<1>2. /\ DOMAIN b = DOMAIN a /\ b.pc = pc /\ b.o = a.o /\ b.for = a.for /\ b.new = a.new
      /\ p \in Syncers => b.list = a.list
  BY <1>1 DEF Fields
<1> HIDE DEF b
<1>3. Shape(p, b)
  BY <1>1, <1>2, NextIsShaped DEF Early
<1>4. b.new <=> a.new
  BY <1>2, Zenon
<1> QED BY <1>2, <1>3, <1>4 DEF b

LEMMA FailedEnd ==
    ASSUME NEW p \in Processes, NEW a, Shape(p, a), Busy(a), Failed(p, "end"), doing[p] = a
    PROVE  \E step : GoOn(p, step) /\ Shape(p, step) /\ step.pc = "end"
<1> DEFINE b == [a EXCEPT !.pc = "end", !.failed = p \in IntakeHandlers]
<1>1. Fields(p) \subseteq DOMAIN a /\ a.new \in BOOLEAN
  BY DEF Shape
<1>2. /\ DOMAIN b = DOMAIN a /\ b.pc = "end" /\ b.o = a.o /\ b.for = a.for /\ b.new = a.new
      /\ p \in Syncers => b.list = a.list
  BY <1>1 DEF Fields
<1>3. GoOn(p, b)
  BY DEF Failed
<1> HIDE DEF b
<1>4. Shape(p, b)
  BY <1>1, <1>2, NextIsShaped DEF Early, Creating, Knowing
<1> QED BY <1>2, <1>3, <1>4

LEMMA StateIsShaped ==
    ASSUME NEW p \in Processes, NEW a, Shape(p, a), Busy(a), NEW pc, NEW s, pc # "register",
           pc \in Early => ~a.new, pc \in Creating => a.new,
           pc \in Knowing => s \in ShopStates
    PROVE  LET b == [a EXCEPT !.pc = pc, !.st = s] IN
           Shape(p, b) /\ b.pc = pc /\ (b.new <=> a.new) /\ b.o = a.o
<1> DEFINE b == [a EXCEPT !.pc = pc, !.st = s]
<1>1. Fields(p) \subseteq DOMAIN a /\ a.new \in BOOLEAN
  BY DEF Shape
<1>2. /\ DOMAIN b = DOMAIN a /\ b.pc = pc /\ b.o = a.o /\ b.for = a.for /\ b.new = a.new
      /\ b.st = s
      /\ p \in Syncers => b.list = a.list
  BY <1>1 DEF Fields
<1> HIDE DEF b
<1>3. b.pc \in Early => ~b.new
  BY <1>2, Zenon
<1>4. b.pc \in Creating => b.new
  BY <1>2, Zenon
<1>5. Shape(p, b)
  BY <1>1, <1>2, <1>3, <1>4, NextIsShaped
<1>6. b.new <=> a.new
  BY <1>2, Zenon
<1> QED BY <1>2, <1>5, <1>6 DEF b
-----------------------------------------------------------------------------
(* The steps of requests and synchronisations                              *)

LEMMA ShopKeeps ==
    ASSUME IntakeInv,
           Midnight \/ \E o \in ShopOrders, s \in ShopStates : ChangeState(o, s)
    PROVE  IntakeInv'
<1>1. UNCHANGED <<orders, invited, doing>>
  BY DEF Midnight, ChangeState
<1>2. RestOK'
  <2>1. RestOK
    BY TypeParts DEF IntakeInv
  <2>2. CASE Midnight
    BY <2>1, <2>2, IntakeAssumption DEF Midnight, RestOK
  <2>3. ASSUME NEW o \in ShopOrders, NEW s \in ShopStates, ChangeState(o, s) PROVE RestOK'
    <3>1. theirs' \in [ShopOrders -> [st : ShopStates, day : 0..LastDay]]
      BY <2>1, <2>3 DEF ChangeState, RestOK
    <3>2. event' \in [ShopOrders -> [ShopStates -> {"unsent", "sent", "open", "PROCESSED"}]]
      BY <2>1, <2>3 DEF ChangeState, Tells, RestOK
    <3> QED BY <2>1, <2>3, <3>1, <3>2 DEF ChangeState, RestOK
  <2> QED BY <2>2, <2>3
<1>3. RowsOK' /\ DOMAIN doing' = Processes
  BY <1>1, RowsAreKept, TypeParts DEF IntakeInv
<1>4. Shaped' /\ InvitedByOne'
  BY <1>1 DEF IntakeInv, Shaped, Shape, Fields, Busy, Listing, InvitedByOne, Invites, Known
<1> QED BY <1>2, <1>3, <1>4, TypeParts DEF IntakeInv

(* Requests begin with nothing to create.                                  *)
LEMMA BeginningKeeps ==
    ASSUME IntakeInv, NEW h \in IntakeHandlers, NEW o \in ShopOrders, NEW s \in ShopStates,
           Receive(h, o, s) \/ Reprocess(h, o, s) \/ PanelSetsStatus(h, o, s)
    PROVE  IntakeInv'
<1>1. h \in Processes /\ h \notin Syncers
  BY IntakeAssumption DEF Processes
<1>2. RowsOK /\ RestOK
  BY TypeParts DEF IntakeInv
<1>3. RowsOK' /\ \A q \in ShopOrders : Known(q) => Known(q)'
  <2>1. CASE Receive(h, o, s) \/ Reprocess(h, o, s)
    BY <1>2, <2>1, RowsAreKept DEF Receive, Reprocess
  <2>2. CASE PanelSetsStatus(h, o, s)
    BY <1>2, <2>2, StatusIsSet DEF PanelSetsStatus
  <2> QED BY <2>1, <2>2
<1>4. RestOK' /\ UNCHANGED invited
  BY <1>2 DEF RestOK, Receive, Reprocess, PanelSetsStatus, Keep
<1>5. PICK pc \in {"register", "push"}, for \in {s, "panel"} :
         /\ pc = "register" => for = s
         /\ GoOn(h, [pc |-> pc, o |-> o, st |-> s, for |-> for, failed |-> FALSE,
                     new |-> FALSE])
  BY DEF Receive, Reprocess, PanelSetsStatus, Webhook
<1> DEFINE step == [pc |-> pc, o |-> o, st |-> s, for |-> for, failed |-> FALSE, new |-> FALSE]
<1>6. Shape(h, step)
  BY <1>1, <1>5 DEF Shape, Busy, Fields, Creating
<1>7. \A q \in ShopOrders : ~Invites(step, q)
  BY DEF Invites
<1> HIDE DEF step
<1>8. GoOn(h, step)
  BY <1>5 DEF step
<1> QED BY <1>1, <1>3, <1>4, <1>6, <1>7, <1>8, QuietKeeps

(* The step of a request or synchronisation to another statement that      *)
(* creates and invites nothing.                                            *)
LEMMA PlainStepKeeps ==
    ASSUME IntakeInv, NEW p \in Processes, NEW step, GoOn(p, step), Shape(p, step),
           step.pc \in {"items", "effects", "hold", "mail"} => ~step.new,
           RowsOK', RestOK', UNCHANGED invited,
           \A o \in ShopOrders : Known(o) => Known(o)'
    PROVE  IntakeInv'
<1>1. \A o \in ShopOrders : ~Invites(step, o)
  BY DEF Invites
<1> QED BY <1>1, QuietKeeps

LEMMA WebhookStatusKeeps ==
    ASSUME IntakeInv, NEW h \in Processes, StatusFromWebhook(h)
    PROVE  IntakeInv'
<1> DEFINE a == doing[h]
           pc == IF a.for \in PaidStatuses THEN "find" ELSE "lookup"
<1>1. a.pc = "register"
  BY DEF StatusFromWebhook, On
<1>2. /\ RowsOK /\ RestOK /\ Shape(h, a) /\ Busy(a) /\ a.o \in ShopOrders
      /\ a.new \in BOOLEAN /\ ~a.new /\ a.for \in ShopStates /\ a.st \in ShopStates
  BY <1>1, AtWork DEF Shape, Busy, Early, Knowing
<1>3. /\ Mark(h, "open") /\ SetStatus(a.o, a.for) /\ GoOn(h, [a EXCEPT !.pc = pc])
      /\ UNCHANGED <<theirs, lastSync, day, invited>>
  BY DEF StatusFromWebhook, To
<1>4. RowsOK' /\ \A q \in ShopOrders : Known(q) => Known(q)'
  BY <1>2, <1>3, StatusIsSet
<1>5. event' \in [ShopOrders -> [ShopStates -> {"unsent", "sent", "open", "PROCESSED"}]]
  BY <1>2, <1>3 DEF Mark, RestOK
<1>6. RestOK'
  BY <1>2, <1>3, <1>5 DEF RestOK
<1>7. pc \in {"find", "lookup"}
  OBVIOUS
<1> HIDE DEF pc, a
<1>8. Shape(h, [a EXCEPT !.pc = pc]) /\ [a EXCEPT !.pc = pc].pc = pc
  BY <1>2, <1>7, ToIsShaped DEF Creating
<1> QED BY <1>3, <1>4, <1>6, <1>7, <1>8, PlainStepKeeps

(* Lookup, Find, ReadState: what has been found is not created.            *)
LEMMA FindingKeeps ==
    ASSUME IntakeInv, NEW p \in Processes, Lookup(p) \/ Find(p) \/ ReadState(p)
    PROVE  IntakeInv'
<1> DEFINE a == doing[p]
<1>1. a.pc \in {"lookup", "find", "read"}
  BY DEF Lookup, Find, ReadState, On
<1>2. /\ RowsOK /\ RestOK /\ Shape(p, a) /\ Busy(a) /\ a.o \in ShopOrders
      /\ a.new \in BOOLEAN /\ ~a.new
      /\ a.pc # "read" => a.st \in ShopStates
  BY <1>1, AtWork DEF Shape, Busy, Early, Knowing
<1> HIDE DEF a
<1>3. Keep /\ UNCHANGED <<orders, invited>>
  BY DEF Lookup, Find, ReadState
<1>4. RestOK' /\ RowsOK' /\ \A q \in ShopOrders : Known(q) => Known(q)'
  BY <1>2, <1>3, RestIsKept, RowsAreKept
<1>5. CASE Lookup(p)
  <2>1. PICK pc \in {"effects", "end"} : GoOn(p, [a EXCEPT !.pc = pc])
    BY <1>5 DEF Lookup, To, a
  <2> DEFINE step == [a EXCEPT !.pc = pc]
  <2>2. Shape(p, step) /\ ~step.new
    BY <1>2, ToIsShaped DEF Early, Creating, Knowing
  <2> HIDE DEF step
  <2> QED BY <1>3, <1>4, <2>1, <2>2, PlainStepKeeps DEF step
<1>6. CASE Find(p)
  <2>1. a.st \in ShopStates
    BY <1>2, <1>6 DEF Find, On, a
  <2>2. ASSUME NEW pc \in {"refresh", "details"}, GoOn(p, [a EXCEPT !.pc = pc])
        PROVE  IntakeInv'
    <3> DEFINE step == [a EXCEPT !.pc = pc]
    <3>1. Shape(p, step) /\ ~step.new
      BY <1>2, <2>1, ToIsShaped DEF Creating
    <3> QED BY <1>3, <1>4, <2>2, <3>1, PlainStepKeeps
  <2>3. ASSUME NEW s, GoOn(p, [a EXCEPT !.pc = "read", !.st = s]) PROVE IntakeInv'
    <3> DEFINE step == [a EXCEPT !.pc = "read", !.st = s]
    <3>1. Shape(p, step) /\ ~step.new
      BY <1>2, StateIsShaped DEF Creating, Knowing
    <3> QED BY <1>3, <1>4, <2>3, <3>1, PlainStepKeeps
  <2> QED BY <1>6, <2>2, <2>3 DEF Find, To, a
<1>7. CASE ReadState(p)
  <2>1. ASSUME NEW s \in ShopStates, GoOn(p, [a EXCEPT !.pc = "refresh", !.st = s])
        PROVE  IntakeInv'
    <3> DEFINE step == [a EXCEPT !.pc = "refresh", !.st = s]
    <3>1. Shape(p, step) /\ ~step.new
      BY <1>2, StateIsShaped DEF Creating
    <3> QED BY <1>3, <1>4, <2>1, <3>1, PlainStepKeeps
  <2>2. ASSUME NEW pc \in {"effects", "end"}, Failed(p, pc) PROVE IntakeInv'
    <3> DEFINE step == [a EXCEPT !.pc = pc, !.failed = p \in IntakeHandlers]
    <3>1. Shape(p, step) /\ ~step.new
      BY <1>2, FailedIsShaped DEF Early, Creating, Knowing
    <3> QED BY <1>3, <1>4, <2>2, <3>1, PlainStepKeeps DEF Failed, a
  <2>3. theirs[a.o].st \in ShopStates
    BY <1>2 DEF RestOK
  <2> QED BY <1>7, <2>1, <2>2, <2>3 DEF ReadState, a
<1> QED BY <1>5, <1>6, <1>7

(* The status of an order that is there is replaced, as far as the shop    *)
(* is not asked.                                                           *)
LEMMA RefreshKeeps ==
    ASSUME IntakeInv, NEW p \in Processes, RefreshExisting(p)
    PROVE  IntakeInv'
<1> DEFINE a == doing[p]
           step == [a EXCEPT !.pc = "effects"]
<1>1. /\ RowsOK /\ RestOK /\ Shape(p, a) /\ Busy(a) /\ a.o \in ShopOrders
      /\ ~a.new /\ a.st \in ShopStates
  BY AtWork DEF RefreshExisting, On, Shape, Busy, Early, Knowing
<1>2. SetStatus(a.o, a.st) /\ GoOn(p, step) /\ Keep /\ UNCHANGED invited
  BY DEF RefreshExisting, To
<1> HIDE DEF a
<1>3. Shape(p, step) /\ ~step.new
  BY <1>1, ToIsShaped DEF Early, Creating, Knowing
<1> HIDE DEF step
<1>4. RowsOK' /\ RestOK' /\ \A q \in ShopOrders : Known(q) => Known(q)'
  BY <1>1, <1>2, StatusIsSet, RestIsKept
<1> QED BY <1>2, <1>3, <1>4, PlainStepKeeps

(* An order is created by nobody else: whoever finds it missing here is    *)
(* the only one to write it.                                               *)
LEMMA DetailsKeep ==
    ASSUME IntakeInv, NEW p \in Processes, FetchDetails(p)
    PROVE  IntakeInv'
<1> DEFINE a == doing[p]
<1>1. RowsOK /\ RestOK /\ Shape(p, a) /\ Busy(a) /\ a.o \in ShopOrders /\ Fields(p) \subseteq DOMAIN a
  BY AtWork DEF FetchDetails, On
<1>2. Keep /\ UNCHANGED <<orders, invited>>
  BY DEF FetchDetails
<1>3. RestOK' /\ RowsOK' /\ \A q \in ShopOrders : Known(q) => Known(q)'
  BY <1>1, <1>2, RestIsKept, RowsAreKept
<1> HIDE DEF a
<1>4. ASSUME NEW s \in ShopStates,
             GoOn(p, [a EXCEPT !.pc = "create", !.st = s, !.new = TRUE])
      PROVE  IntakeInv'
  <2> DEFINE step == [a EXCEPT !.pc = "create", !.st = s, !.new = TRUE]
  <2>1. /\ DOMAIN step = DOMAIN a /\ step.pc = "create" /\ step.o = a.o /\ step.for = a.for
        /\ step.new = TRUE /\ step.st = s
        /\ p \in Syncers => step.list = a.list
    BY <1>1 DEF Fields
  <2> HIDE DEF step
  <2>2. step.pc \notin Early /\ step.pc # "register" /\ step.new \in BOOLEAN
    BY <2>1 DEF Early
  <2>3. Shape(p, step)
    BY <1>1, <2>1, <2>2, NextIsShaped
  <2>4. step.pc \notin {"items", "effects", "hold", "mail"}
    BY <2>1
  <2> QED BY <1>2, <1>3, <1>4, <2>3, <2>4, PlainStepKeeps DEF step
<1>5. CASE Failed(p, "end")
  <2>1. PICK step : GoOn(p, step) /\ Shape(p, step) /\ step.pc = "end"
    BY <1>1, <1>5, FailedEnd DEF a
  <2> QED BY <1>2, <1>3, <2>1, PlainStepKeeps
<1>6. theirs[a.o].st \in ShopStates
  BY <1>1 DEF RestOK
<1> QED BY <1>4, <1>5, <1>6 DEF FetchDetails, a

LEMMA CreateKeeps ==
    ASSUME IntakeInv, NEW p \in Processes, CreateOrder(p)
    PROVE  IntakeInv'
<1> DEFINE a == doing[p]
<1>1. /\ RowsOK /\ RestOK /\ Shape(p, a) /\ Busy(a) /\ a.o \in ShopOrders
      /\ a.new /\ a.st \in ShopStates /\ a.pc = "create"
  BY AtWork DEF CreateOrder, On, Shape, Busy, Creating, Knowing
<1>0. PICK o \in ShopOrders : o = a.o
  BY <1>1
<1>2. Keep /\ UNCHANGED invited
  BY DEF CreateOrder
<1>3. RestOK'
  BY <1>1, <1>2, RestIsKept
<1>4. CASE Taken(o)
  <2>1. Failed(p, "end") /\ UNCHANGED orders
    BY <1>0, <1>4 DEF CreateOrder
  <2>2. RowsOK' /\ \A q \in ShopOrders : Known(q) => Known(q)'
    BY <1>1, <2>1, RowsAreKept
  <2>3. PICK step : GoOn(p, step) /\ Shape(p, step) /\ step.pc = "end"
    BY <1>1, <2>1, FailedEnd
  <2> QED BY <1>2, <1>3, <2>2, <2>3, PlainStepKeeps
<1>5. CASE ~Taken(o)
  <2> DEFINE step == [a EXCEPT !.pc = "items"]
  <2>1. orders' = [orders EXCEPT ![o] = [NoOrder EXCEPT !.st = a.st]] /\ GoOn(p, step)
    BY <1>0, <1>5 DEF CreateOrder, To
  <2>2. ~Known(o) /\ "none" \notin ShopStates
    BY <1>5, IntakeAssumption DEF Taken
  <2> HIDE DEF a
  <2>4. Shape(p, step) /\ step.pc = "items" /\ step.o = o /\ step.new
    BY <1>0, <1>1, ToIsShaped DEF Early, Creating, Knowing
  <2>5. RowsOK'
    BY <1>1, <2>1 DEF RowsOK, NoOrder
  <2>6. Known(o)' /\ \A q \in ShopOrders : Known(q) => Known(q)'
    <3>1. orders'[o].st = a.st
      BY <1>1, <2>1 DEF RowsOK, NoOrder
    <3>2. \A q \in ShopOrders : q # o => orders'[q] = orders[q]
      BY <1>1, <2>1 DEF RowsOK
    <3> QED BY <1>1, <2>2, <3>1, <3>2 DEF Known
  <2> HIDE DEF step
  <2>7. /\ DOMAIN doing' = Processes /\ doing'[p] = step
        /\ \A q \in Processes : q # p => doing'[q] = doing[q]
    BY <2>1 DEF GoOn, IntakeInv, IntakeTypeOK
  <2>8. \A q \in Processes : Shape(q, doing'[q])
    BY <2>4, <2>7 DEF IntakeInv, Shaped
  <2>9. Shaped'
    BY <2>8 DEF Shaped, Shape, Fields, Busy, Listing
  <2>10. invited[o] = 0 /\ \A q \in Processes : ~Invites(doing[q], o)
    BY <1>1, <2>2 DEF IntakeInv, InvitedByOne
  <2>11. \A q \in Processes, r \in ShopOrders :
            Invites(doing'[q], r) => Invites(doing[q], r) \/ (q = p /\ r = o)
    <3>1. \A r \in ShopOrders : Invites(step, r) => r = o
      BY <2>4 DEF Invites
    <3>2. ASSUME NEW q \in Processes, NEW r \in ShopOrders, Invites(doing'[q], r)
          PROVE  Invites(doing[q], r) \/ (q = p /\ r = o)
      BY <2>7, <3>1, <3>2
    <3> QED BY <3>2
  <2>12. InvitedByOne'
    <3> SUFFICES ASSUME NEW r \in ShopOrders
                 PROVE  /\ invited[r] # 0 => invited[r] = 1 /\ Known(r)'
                        /\ \A q \in Processes : Invites(doing'[q], r) =>
                              /\ invited[r] = 0 /\ Known(r)'
                              /\ \A z \in Processes : Invites(doing'[z], r) => z = q
      BY <1>2 DEF InvitedByOne
    <3>1. CASE r = o
      <4>1. \A q \in Processes : Invites(doing'[q], r) => q = p
        BY <2>10, <2>11, <3>1
      <4> QED BY <2>6, <2>10, <3>1, <4>1
    <3>2. CASE r # o
      BY <2>6, <2>11, <3>2 DEF IntakeInv, InvitedByOne
    <3> QED BY <3>1, <3>2
  <2> QED BY <1>3, <2>5, <2>7, <2>9, <2>12, TypeParts DEF IntakeInv
<1> QED BY <1>4, <1>5

(* The creator of an order goes on to its items; whoever runs this         *)
(* statement is the one to invite.                                         *)
LEMMA ItemsKeep ==
    ASSUME IntakeInv, NEW p \in Processes, CreateItems(p)
    PROVE  IntakeInv'
<1> DEFINE a == doing[p]
<1>1. /\ RowsOK /\ RestOK /\ Shape(p, a) /\ Busy(a) /\ a.o \in ShopOrders
      /\ a.new /\ a.pc = "items"
  BY AtWork DEF CreateItems, On, Shape, Busy, Creating
<1>2. PICK o \in ShopOrders : o = a.o
  BY <1>1
<1>3. orders' = [orders EXCEPT ![o].items = TRUE] /\ Keep /\ UNCHANGED invited
  BY <1>2 DEF CreateItems
<1>4. RowsOK' /\ RestOK'
  <2>1. RestOK'
    BY <1>1, <1>3, RestIsKept
  <2>2. RowsOK'
    <3> DEFINE Row == [st : ShopStates \cup {"none"}, items : BOOLEAN,
                       stock : {"none", "held", "issued"}]
    <3>1. [orders[o] EXCEPT !.items = TRUE] \in Row
      BY <1>1 DEF RowsOK
    <3>2. orders' = [orders EXCEPT ![o] = [orders[o] EXCEPT !.items = TRUE]]
      BY <1>3
    <3>3. \A q \in ShopOrders : q # o => orders'[q] = orders[q]
      BY <1>1, <3>2 DEF RowsOK
    <3>4. orders'[o].items
      BY <1>1, <3>2 DEF RowsOK
    <3>5. orders' \in [ShopOrders -> Row]
      BY <1>1, <3>1, <3>2 DEF RowsOK
    <3>6. \A q \in ShopOrders : orders'[q].stock # "none" => orders'[q].items
      BY <1>1, <3>3, <3>4 DEF RowsOK
    <3> QED BY <3>5, <3>6 DEF RowsOK
  <2> QED BY <2>1, <2>2
<1>5. \A q \in ShopOrders : Known(q) => Known(q)'
  BY <1>1, <1>3 DEF RowsOK, Known
<1>6. PICK pc \in {"effects", "mail"} : GoOn(p, [a EXCEPT !.pc = pc])
  BY DEF CreateItems, To
<1> DEFINE step == [a EXCEPT !.pc = pc]
<1> HIDE DEF a
<1>7. Shape(p, step) /\ step.o = a.o
  BY <1>1, ToIsShaped DEF Early, Creating, Knowing
<1>8. GoOn(p, step)
  BY <1>6
<1> HIDE DEF step
<1>9. \A q \in ShopOrders : Invites(step, q) => Invites(a, q)
  BY <1>1, <1>7 DEF Invites
<1> QED BY <1>3, <1>4, <1>5, <1>7, <1>8, <1>9, QuietKeeps DEF a

LEMMA InviteKeeps ==
    ASSUME IntakeInv, NEW p \in Processes, Invite(p)
    PROVE  IntakeInv'
<1> DEFINE a == doing[p]
           step == [a EXCEPT !.pc = "end"]
<1>1. /\ RowsOK /\ RestOK /\ Shape(p, a) /\ Busy(a) /\ a.o \in ShopOrders
      /\ a.new /\ a.pc = "mail"
  BY AtWork DEF Invite, On, Shape, Busy, Creating
<1>2. PICK o \in ShopOrders : o = a.o
  BY <1>1
<1>3. /\ invited' = [invited EXCEPT ![o] = @ + 1] /\ GoOn(p, step)
      /\ Keep /\ UNCHANGED orders
  BY <1>2 DEF Invite, To
<1>4. invited[o] = 0 /\ Known(o) /\ \A q \in Processes : Invites(doing[q], o) => q = p
  <2>1. Invites(a, o)
    BY <1>1, <1>2 DEF Invites
  <2> QED BY <2>1 DEF IntakeInv, InvitedByOne
<1>5. RowsOK' /\ \A q \in ShopOrders : Known(q) <=> Known(q)'
  BY <1>1, <1>3 DEF RowsOK, Known
<1>6. /\ invited' \in [ShopOrders -> Nat] /\ invited'[o] = 1
      /\ \A r \in ShopOrders : r # o => invited'[r] = invited[r]
  BY <1>1, <1>3, <1>4 DEF RestOK
<1>7. RestOK'
  BY <1>1, <1>3, <1>6 DEF RestOK, Keep
<1> HIDE DEF a
<1>8. Shape(p, step) /\ step.pc = "end"
  BY <1>1, ToIsShaped DEF Early, Creating, Knowing
<1> HIDE DEF step
<1>9. /\ DOMAIN doing' = Processes /\ doing'[p] = step
      /\ \A q \in Processes : q # p => doing'[q] = doing[q]
  BY <1>3 DEF GoOn, IntakeInv, IntakeTypeOK
<1>10. Shaped'
  <2>1. \A q \in Processes : Shape(q, doing'[q])
    BY <1>8, <1>9 DEF IntakeInv, Shaped
  <2> QED BY <2>1 DEF Shaped, Shape, Fields, Busy, Listing
<1>11. ASSUME NEW q \in Processes, NEW r \in ShopOrders, Invites(doing'[q], r)
       PROVE  Invites(doing[q], r) /\ q # p
  <2>1. ~Invites(step, r)
    BY <1>8 DEF Invites
  <2> QED BY <1>9, <1>11, <2>1
<1>12. \A q \in Processes : ~Invites(doing'[q], o)
  BY <1>4, <1>11
<1>13. InvitedByOne'
  <2> SUFFICES ASSUME NEW r \in ShopOrders
               PROVE  /\ invited'[r] # 0 => invited'[r] = 1 /\ Known(r)'
                      /\ \A q \in Processes : Invites(doing'[q], r) =>
                            /\ invited'[r] = 0 /\ Known(r)'
                            /\ \A z \in Processes : Invites(doing'[z], r) => z = q
    BY DEF InvitedByOne
  <2>1. CASE r = o
    BY <1>4, <1>5, <1>6, <1>12, <2>1
  <2>2. CASE r # o
    BY <1>5, <1>6, <1>11, <2>2 DEF IntakeInv, InvitedByOne
  <2> QED BY <2>1, <2>2
<1> QED BY <1>5, <1>7, <1>9, <1>10, <1>13, TypeParts DEF IntakeInv

(* PushToShop, Unpushed: the shop is told by requests of the panel.        *)
LEMMA PanelKeeps ==
    ASSUME IntakeInv, NEW h \in Processes, PushToShop(h) \/ Unpushed(h)
    PROVE  IntakeInv'
<1> DEFINE a == doing[h]
<1>1. a.pc \in {"push", "unpushed"}
  BY DEF PushToShop, Unpushed, On
<1>2. /\ RowsOK /\ RestOK /\ Shape(h, a) /\ Busy(a) /\ a.o \in ShopOrders
      /\ a.new \in BOOLEAN /\ ~a.new
      /\ a.pc = "push" => a.st \in ShopStates
  BY <1>1, AtWork DEF Shape, Busy, Early, Knowing
<1>3. UNCHANGED <<orders, lastSync, day, invited>>
  BY DEF PushToShop, Unpushed, Keep
<1>4. RowsOK' /\ \A q \in ShopOrders : Known(q) => Known(q)'
  BY <1>2, <1>3, RowsAreKept
<1> HIDE DEF a
<1>5. CASE PushToShop(h)
  <2>1. a.st \in ShopStates
    BY <1>2, <1>5 DEF PushToShop, On, a
  <2>2. \/ UNCHANGED <<theirs, event>>
        \/ /\ theirs' = [theirs EXCEPT ![a.o] = [st |-> a.st, day |-> day]]
           /\ Tells(a.o, a.st)
    BY <1>5 DEF PushToShop, a
  <2>3. RestOK'
    <3>1. CASE UNCHANGED <<theirs, event>>
      BY <1>2, <1>3, <3>1 DEF RestOK
    <3>2. CASE theirs' = [theirs EXCEPT ![a.o] = [st |-> a.st, day |-> day]]
               /\ Tells(a.o, a.st)
      <4>1. theirs' \in [ShopOrders -> [st : ShopStates, day : 0..LastDay]]
        BY <1>2, <2>1, <3>2 DEF RestOK
      <4>2. event' \in [ShopOrders ->
                          [ShopStates -> {"unsent", "sent", "open", "PROCESSED"}]]
        BY <1>2, <2>1, <3>2 DEF RestOK, Tells
      <4> QED BY <1>2, <1>3, <4>1, <4>2 DEF RestOK
    <3> QED BY <2>2, <3>1, <3>2
  <2>4. PICK pc \in {"refresh", "unpushed"} : GoOn(h, [a EXCEPT !.pc = pc])
    BY <1>5 DEF PushToShop, To, a
  <2> DEFINE step == [a EXCEPT !.pc = pc]
  <2>5. Shape(h, step) /\ ~step.new
    BY <1>2, <2>1, ToIsShaped DEF Creating
  <2> QED BY <1>3, <1>4, <2>3, <2>4, <2>5, PlainStepKeeps
<1>6. CASE Unpushed(h)
  <2>1. RestOK'
    BY <1>2, <1>6, RestIsKept DEF Unpushed
  <2>2. ASSUME NEW s, GoOn(h, [a EXCEPT !.pc = "effects", !.st = s]) PROVE IntakeInv'
    <3> DEFINE step == [a EXCEPT !.pc = "effects", !.st = s]
    <3>1. Shape(h, step) /\ ~step.new
      BY <1>2, StateIsShaped DEF Early, Creating, Knowing
    <3> QED BY <1>3, <1>4, <2>1, <2>2, <3>1, PlainStepKeeps
  <2> QED BY <1>6, <2>2 DEF Unpushed, a
<1> QED BY <1>5, <1>6

(* The effects of a status: whoever created the order still has to invite. *)
LEMMA EffectsKeep ==
    ASSUME IntakeInv, NEW p \in Processes, Effects(p) \/ Hold(p)
    PROVE  IntakeInv'
<1> DEFINE a == doing[p]
           o == a.o
<1>1. a.pc \in {"effects", "hold"}
  BY DEF Effects, Hold, On
<1>2. /\ RowsOK /\ RestOK /\ Shape(p, a) /\ Busy(a) /\ o \in ShopOrders
      /\ a.new \in BOOLEAN /\ Fields(p) \subseteq DOMAIN a
  BY <1>1, AtWork
<1>3. Keep /\ UNCHANGED invited
  BY DEF Effects, Hold
<1>4. RestOK'
  BY <1>2, <1>3, RestIsKept
<1>5. RowsOK' /\ \A q \in ShopOrders : Known(q) => Known(q)'
  <2>1. CASE UNCHANGED orders
    BY <1>2, <2>1, RowsAreKept
  <2>2. ASSUME NEW s, Stock(o, WithoutReserving(s, orders[o].stock))
        PROVE  RowsOK' /\ \A q \in ShopOrders : Known(q) => Known(q)'
    <3> DEFINE v == WithoutReserving(s, orders[o].stock)
    <3>1. /\ orders[o].stock \in {"none", "held", "issued"}
          /\ orders[o].stock # "none" => orders[o].items
      BY <1>2 DEF RowsOK
    <3>2. v \in {"none", "held", "issued"} /\ (v # "none" => orders[o].stock # "none")
      BY <3>1 DEF WithoutReserving
    <3> HIDE DEF v, o
    <3> QED BY <1>2, <2>2, <3>1, <3>2, StockIsSet DEF v
  <2>3. ASSUME Stock(o, HeldBy(orders[o]))
        PROVE  RowsOK' /\ \A q \in ShopOrders : Known(q) => Known(q)'
    <3> DEFINE v == HeldBy(orders[o])
    <3>1. /\ orders[o].stock \in {"none", "held", "issued"}
          /\ orders[o].stock # "none" => orders[o].items
      BY <1>2 DEF RowsOK
    <3>2. v \in {"none", "held", "issued"} /\ (v # "none" => orders[o].items)
      BY <3>1 DEF HeldBy
    <3> HIDE DEF v, o
    <3> QED BY <1>2, <2>3, <3>2, StockIsSet DEF v
  <2>4. CASE Hold(p)
    BY <2>3, <2>4 DEF Hold
  <2>5. CASE Effects(p)
    BY <2>1, <2>2, <2>5 DEF Effects
  <2> QED BY <2>4, <2>5
<1>6. PICK pc \in {"hold", "mail", "end"} :
         /\ pc = "mail" => a.new
         /\ Leave(p, pc) \/ Failed(p, pc)
  BY DEF Effects, Hold, AfterEffects
<1> HIDE DEF a, o
<1>7. pc \notin Early \cup Knowing /\ pc # "register" /\ (pc \in Creating => a.new)
  BY <1>6 DEF Early, Knowing, Creating
<1>8. ASSUME NEW step, GoOn(p, step), DOMAIN step = DOMAIN a, step.pc = pc, step.o = a.o,
             step.for = a.for, step.new = a.new, p \in Syncers => step.list = a.list
      PROVE  IntakeInv'
  <2>1. (step.new <=> a.new) /\ step.new \in BOOLEAN
    BY <1>2, <1>8, Zenon
  <2>2. Shape(p, step)
    BY <1>2, <1>7, <1>8, <2>1, NextIsShaped
  <2>3. \A q \in ShopOrders : Invites(step, q) => Invites(a, q)
    BY <1>1, <1>8, <2>1 DEF Invites
  <2> QED BY <1>3, <1>4, <1>5, <1>8, <2>2, <2>3, QuietKeeps DEF a
<1>9. CASE Leave(p, pc)
  <2> DEFINE step == [a EXCEPT !.pc = pc, !.st = "none"]
  <2>1. GoOn(p, step)
    BY <1>9 DEF Leave, a
  <2>2. /\ DOMAIN step = DOMAIN a /\ step.pc = pc /\ step.o = a.o /\ step.for = a.for
        /\ step.new = a.new
        /\ p \in Syncers => step.list = a.list
    BY <1>2 DEF Fields
  <2> HIDE DEF step
  <2> QED BY <1>8, <2>1, <2>2
<1>10. CASE Failed(p, pc)
  <2> DEFINE step == [a EXCEPT !.pc = pc, !.failed = p \in IntakeHandlers]
  <2>1. GoOn(p, step)
    BY <1>10 DEF Failed, a
  <2>2. /\ DOMAIN step = DOMAIN a /\ step.pc = pc /\ step.o = a.o /\ step.for = a.for
        /\ step.new = a.new
        /\ p \in Syncers => step.list = a.list
    BY <1>2 DEF Fields
  <2> HIDE DEF step
  <2> QED BY <1>8, <2>1, <2>2
<1> QED BY <1>6, <1>9, <1>10

(* A process that stops, by itself or not, invites nobody any more.        *)
LEMMA StoppingKeeps ==
    ASSUME IntakeInv, NEW p \in Processes,
           EndRequest(p) \/ FinishSync(p) \/ IntakeDies(p)
    PROVE  IntakeInv'
<1>1. GoOn(p, Free) /\ UNCHANGED <<orders, invited>>
  BY DEF EndRequest, FinishSync, IntakeDies
<1>2. RowsOK /\ RestOK
  BY TypeParts DEF IntakeInv
<1>3. RestOK'
  <2>1. CASE EndRequest(p)
    <3>1. CASE doing[p].for = "panel"
      BY <1>2, <2>1, <3>1 DEF EndRequest, RestOK
    <3>2. CASE doing[p].for # "panel"
      <4>1. p \in IntakeHandlers /\ doing[p].pc = "end"
        BY <2>1 DEF EndRequest, On
      <4>2. doing[p].o \in ShopOrders /\ doing[p].for \in ShopStates
        BY <3>2, <4>1, AtWork DEF Shape
      <4>3. PICK st \in {"open", "PROCESSED"} : Mark(p, st)
        BY <2>1, <3>2 DEF EndRequest
      <4>4. event' \in [ShopOrders ->
                          [ShopStates -> {"unsent", "sent", "open", "PROCESSED"}]]
        BY <1>2, <4>2, <4>3 DEF Mark, RestOK
      <4> QED BY <1>2, <2>1, <4>4 DEF EndRequest, RestOK
    <3> QED BY <3>1, <3>2
  <2>2. CASE FinishSync(p)
    BY <1>2, <2>2, IntakeAssumption DEF FinishSync, RestOK
  <2>3. CASE IntakeDies(p)
    BY <1>2, <2>3, RestIsKept DEF IntakeDies
  <2> QED BY <2>1, <2>2, <2>3
<1>4. Shape(p, Free) /\ \A o \in ShopOrders : ~Invites(Free, o)
  BY DEF Free, Shape, Busy, Invites
<1> QED BY <1>1, <1>2, <1>3, <1>4, RowsAreKept, QuietKeeps

(* BeginSync, NextOrder: an order of the list is looked for.               *)
LEMMA ListKeeps ==
    ASSUME IntakeInv, NEW y \in Processes,
           (y \in Syncers /\ BeginSync(y)) \/ NextOrder(y)
    PROVE  IntakeInv'
<1>1. Keep /\ UNCHANGED <<orders, invited>> /\ y \in Syncers
  BY DEF BeginSync, NextOrder
<1>2. RowsOK /\ RestOK
  BY TypeParts DEF IntakeInv
<1>3. PICK list : Listing(list) /\ GoOn(y, Import(list))
  <2>1. CASE BeginSync(y)
    <3> DEFINE list == {[o |-> o, st |-> theirs[o].st] : o \in FirstOf(Window)}
    <3>1. \A o \in FirstOf(Window) : o \in ShopOrders /\ theirs[o].st \in ShopStates
      BY <1>2 DEF FirstOf, Window, RestOK
    <3>2. Listing(list)
      BY <3>1 DEF Listing
    <3>3. GoOn(y, Import(list))
      BY <2>1 DEF BeginSync
    <3> HIDE DEF list
    <3> QED BY <3>2, <3>3
  <2>2. CASE NextOrder(y)
    <3>1. doing[y].pc = "end" /\ GoOn(y, Import(doing[y].list))
      BY <2>2 DEF NextOrder, On
    <3>2. Listing(doing[y].list)
      BY <1>1, <3>1, AtWork DEF Shape
    <3> QED BY <3>1, <3>2
  <2> QED BY <2>1, <2>2
<1> DEFINE step == Import(list)
<1>4. Shape(y, step) /\ \A o : ~Invites(step, o)
  BY <1>1, <1>3, ImportIsShaped
<1>5. GoOn(y, step)
  BY <1>3
<1> HIDE DEF step
<1> QED BY <1>1, <1>2, <1>4, <1>5, RestIsKept, RowsAreKept, QuietKeeps

-----------------------------------------------------------------------------
LEMMA IntakeInvHoldsFirst == IntakeInit => IntakeInv
<1> SUFFICES ASSUME IntakeInit PROVE IntakeInv
  OBVIOUS
<1>1. RowsOK
  BY DEF IntakeInit, RowsOK, NoOrder
<1>2. RestOK
  <2>1. theirs \in [ShopOrders -> [st : ShopStates, day : 0..LastDay]]
    <3>1. 0 \in 0..LastDay
      BY IntakeAssumption
    <3>2. {"NEW", "PAID"} \cap ShopStates \subseteq ShopStates /\ {0} \subseteq 0..LastDay
      BY <3>1
    <3> QED BY <3>2 DEF IntakeInit
  <2> QED BY <2>1, IntakeAssumption DEF IntakeInit, RestOK
<1>3. \A p \in Processes : doing[p].pc = "free"
  BY DEF IntakeInit, Free
<1>4. Shaped /\ DOMAIN doing = Processes
  BY <1>3 DEF IntakeInit, Shaped, Shape, Busy
<1>5. \A o \in ShopOrders : invited[o] = 0
  BY DEF IntakeInit
<1>6. InvitedByOne
  BY <1>3, <1>5 DEF InvitedByOne, Invites
<1> QED BY <1>1, <1>2, <1>4, <1>6, TypeParts DEF IntakeInv

LEMMA IntakeInvIsKept == IntakeInv /\ [IntakeNext]_intakeVars => IntakeInv'
<1> SUFFICES ASSUME IntakeInv, [IntakeNext]_intakeVars PROVE IntakeInv'
  OBVIOUS
<1>1. CASE Midnight \/ \E o \in ShopOrders, s \in ShopStates : ChangeState(o, s)
  BY <1>1, ShopKeeps
<1>2. ASSUME NEW h \in IntakeHandlers, NEW o \in ShopOrders, NEW s \in ShopStates,
             Receive(h, o, s) \/ Reprocess(h, o, s) \/ PanelSetsStatus(h, o, s)
      PROVE  IntakeInv'
  BY <1>2, BeginningKeeps
<1>3. ASSUME NEW y \in Syncers, BeginSync(y) PROVE IntakeInv'
  BY <1>3, ListKeeps DEF Processes
<1>4. ASSUME NEW p \in Processes, IntakeStep(p) PROVE IntakeInv'
  <2>1. CASE StatusFromWebhook(p)
    BY <2>1, WebhookStatusKeeps
  <2>2. CASE Lookup(p) \/ Find(p) \/ ReadState(p)
    BY <2>2, FindingKeeps
  <2>3. CASE RefreshExisting(p)
    BY <2>3, RefreshKeeps
  <2>4. CASE FetchDetails(p)
    BY <2>4, DetailsKeep
  <2>5. CASE CreateOrder(p)
    BY <2>5, CreateKeeps
  <2>6. CASE CreateItems(p)
    BY <2>6, ItemsKeep
  <2>7. CASE Invite(p)
    BY <2>7, InviteKeeps
  <2>8. CASE PushToShop(p) \/ Unpushed(p)
    BY <2>8, PanelKeeps
  <2>9. CASE Effects(p) \/ Hold(p)
    BY <2>9, EffectsKeep
  <2>10. CASE EndRequest(p) \/ FinishSync(p)
    BY <2>10, StoppingKeeps
  <2>11. CASE NextOrder(p)
    BY <2>11, ListKeeps
  <2> QED BY <1>4, <2>1, <2>2, <2>3, <2>4, <2>5, <2>6, <2>7, <2>8, <2>9, <2>10, <2>11
          DEF IntakeStep
<1>5. ASSUME NEW p \in Processes, IntakeDies(p) PROVE IntakeInv'
  BY <1>5, StoppingKeeps
<1>6. CASE UNCHANGED intakeVars
  BY <1>6 DEF intakeVars, IntakeInv, IntakeTypeOK, Shaped, Shape, Fields, Busy, Listing,
     InvitedByOne, Invites, Known
<1> QED BY <1>1, <1>2, <1>3, <1>4, <1>5, <1>6 DEF IntakeNext

(* Messages, repetitions, synchronisations and the panel may all meet at   *)
(* an order that is missing: however they interleave, fail or die, its     *)
(* customer is invited once at most.                                       *)
THEOREM CustomerInvitedOnce == IntakeSpec => []InvitedOnce
<1>1. ASSUME IntakeInv PROVE InvitedOnce
  <2>1. \A o \in ShopOrders : invited[o] = 0 \/ invited[o] = 1
    BY <1>1 DEF IntakeInv, InvitedByOne
  <2> QED BY <2>1 DEF InvitedOnce
<1>2. IntakeInv => InvitedOnce
  BY <1>1
<1> QED BY <1>2, IntakeInvHoldsFirst, IntakeInvIsKept, PTL DEF IntakeSpec

(* The rows stay in their domains, and an order holds or has issued goods  *)
(* only for items that are written.                                        *)
THEOREM IntakeTypeCorrect == IntakeSpec => []IntakeTypeOK
<1>1. IntakeInv => IntakeTypeOK
  BY DEF IntakeInv
<1> QED BY <1>1, IntakeInvHoldsFirst, IntakeInvIsKept, PTL DEF IntakeSpec
=============================================================================
