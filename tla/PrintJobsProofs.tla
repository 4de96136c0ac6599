--------------------------- MODULE PrintJobsProofs ---------------------------
(***************************************************************************)
(* Proofs about the print queue, for every number of agents, files, jobs   *)
(* and attempts: first with one request at a time, then for any number of  *)
(* requests.                                                               *)
(***************************************************************************)
EXTENDS PrintJobs, TLAPS

-----------------------------------------------------------------------------
(***************************************************************************)
(* What the print queue guarantees for every number of agents, files, jobs *)
(* and attempts.                                                           *)
(***************************************************************************)

(* One request is served at a time. *)
OneAtATime == \A g, h \in Handlers : g = h

(* Attempts are counted when they end: a job that is with an agent is one  *)
(* handout ahead.                                                          *)
Handouts ==
    \A j \in JobIds :
        /\ Len(handed[j]) <= MaxAttempts
        /\ job[j].st = "FREE" => handed[j] = <<>>
        /\ job[j].st = "QUEUED" => /\ Len(handed[j]) = job[j].attempts
                                   /\ job[j].attempts < MaxAttempts
        /\ job[j].st \in LeasedStatuses => Len(handed[j]) = job[j].attempts + 1

Leased(j) == job[j].st \in LeasedStatuses

(* What a request has read still holds when it writes. *)
ReadsOf(t) ==
    /\ t.k = "reclaim" => \A o \in t.left : /\ job[o.j].st = "CLAIMED"
                                            /\ job[o.j].attempts = o.attempts
    /\ t.k = "report" => Leased(t.j) /\ job[t.j].token = t.n
    /\ t.k = "reportTx" => /\ Leased(t.j)
                           /\ job[t.j].token = t.n
                           /\ job[t.j].attempts = t.attempts
    /\ t.k = "noFile" => Leased(t.j)
    /\ t.k = "cancel" => job[t.j].st \in ActiveStatuses
    /\ t.k = "resolve" => job[t.j].st = "STALE"
    /\ t.k = "dropAgent" =>
          \A j \in JobIds : job[j].agent = t.a => job[j].st \notin ActiveStatuses
    /\ t.k = "dropAssets" =>
          \A j \in JobIds : job[j].asset \in t.X => job[j].st \notin ActiveStatuses
Reads == \A h \in Handlers : ReadsOf(at[h])

RowTypes ==
    /\ job \in [JobIds -> JobRow]
    /\ handed \in [JobIds -> Seq(Agents)]
    /\ queued \in [JobIds -> Nat]
    /\ agents \in [Agents -> {"ACTIVE", "DISABLED", "DELETED"}]
    /\ assets \subseteq Assets
RowsOK == RowTypes /\ LeaseHeld /\ Handouts
RequestTypes ==
    /\ window \in BOOLEAN
    /\ at \in [Handlers -> Steps]
    /\ budget \in 0..MaxRequests

(* The inductive invariant for one request at a time. *)
QueueInv == RowsOK /\ RequestTypes /\ Reads

LEMMA TypesSplit == PrintTypeOK <=> RowTypes /\ RequestTypes
  BY DEF PrintTypeOK, RowTypes, RequestTypes

-----------------------------------------------------------------------------
(* Rows *)

LEMMA FreeRow == FreeJob \in JobRow /\ GoneJob \in JobRow
  BY LimitsAssumption DEF FreeJob, GoneJob, JobRow, ActiveStatuses, FinalStatuses

LEMMA StaleRow ==
    ASSUME NEW row \in JobRow
    PROVE  /\ [row EXCEPT !.st = "STALE", !.token = 0] \in JobRow
           /\ [row EXCEPT !.st = "STALE", !.token = 0].st = "STALE"
           /\ [row EXCEPT !.st = "STALE", !.token = 0].token = 0
  BY DEF JobRow

(* A row that may replace the row of job j. *)
RowFits(j, row) ==
    /\ row \in JobRow
    /\ row.st # "FREE"
    /\ row.st \in LeasedStatuses <=> row.token # 0
    /\ row.token # 0 => /\ row.token = Len(handed[j])
                        /\ row.agent = handed[j][row.token]
                        /\ row.lease # "none"
    /\ row.st = "QUEUED" => Len(handed[j]) = row.attempts /\ row.attempts < MaxAttempts
    /\ row.st \in LeasedStatuses => Len(handed[j]) = row.attempts + 1

LEMMA SaveKeepsRows ==
    ASSUME RowsOK, NEW j \in JobIds, NEW row, RowFits(j, row), Save(j, row)
    PROVE  RowsOK'
  <1>1. RowTypes'
    <2>1. job' \in [JobIds -> JobRow]
      BY DEF RowsOK, RowTypes, RowFits, Save
    <2>2. queued' \in [JobIds -> Nat]
      BY DEF RowsOK, RowTypes, Save
    <2>. QED BY <2>1, <2>2 DEF RowsOK, RowTypes, Save
  <1>2. \A i \in JobIds : job'[i] = (IF i = j THEN row ELSE job[i]) /\ handed'[i] = handed[i]
    BY DEF RowsOK, RowTypes, Save
  <1>3. LeaseHeld'
    BY <1>2 DEF RowsOK, LeaseHeld, RowFits
  <1>4. Handouts'
    BY <1>2 DEF RowsOK, Handouts, RowFits
  <1>. QED BY <1>1, <1>3, <1>4 DEF RowsOK

(* A job that has ended has no lease. *)
LEMMA EndedRow ==
    ASSUME NEW row \in JobRow, NEW st \in ActiveStatuses \cup FinalStatuses
    PROVE  /\ Ended(row, st) \in JobRow
           /\ Ended(row, st).st = st
           /\ Ended(row, st).token = 0
  BY DEF Ended, JobRow

LEMMA EndedFits ==
    ASSUME RowsOK, NEW j \in JobIds, NEW st \in FinalStatuses
    PROVE  RowFits(j, Ended(job[j], st))
  <1>1. st \notin LeasedStatuses /\ st # "QUEUED" /\ st # "FREE"
    BY DEF FinalStatuses, LeasedStatuses
  <1>. QED BY <1>1, EndedRow DEF RowsOK, RowTypes, RowFits

(* A failed attempt of a job that is with an agent is its last handout's. *)
LEMMA FailedFits ==
    ASSUME RowsOK, NEW j \in JobIds, Leased(j)
    PROVE  RowFits(j, Failed(job[j], job[j].attempts + 1))
  <1>. DEFINE n == job[j].attempts + 1
  <1>1. job[j] \in JobRow /\ Len(handed[j]) = n /\ n <= MaxAttempts /\ n \in 0..MaxAttempts
    BY LimitsAssumption DEF RowsOK, RowTypes, Handouts, Leased, JobRow
  <1>. HIDE DEF n
  <1>2. ASSUME n >= MaxAttempts PROVE RowFits(j, Failed(job[j], n))
    <2>. DEFINE e == Ended(job[j], "FAILED")
    <2>1. Failed(job[j], n) = [e EXCEPT !.attempts = n]
      BY <1>2 DEF Failed
    <2>2. e \in JobRow /\ e.st = "FAILED" /\ e.token = 0
      BY <1>1, EndedRow DEF FinalStatuses
    <2>. HIDE DEF e
    <2>4. /\ Failed(job[j], n) \in JobRow
          /\ Failed(job[j], n).st = "FAILED"
          /\ Failed(job[j], n).token = 0
          /\ Failed(job[j], n).attempts = n
      BY <1>1, <2>1, <2>2 DEF JobRow
    <2>. QED BY <1>1, <2>4 DEF RowFits, LeasedStatuses
  <1>3. ASSUME ~(n >= MaxAttempts) PROVE RowFits(j, Failed(job[j], n))
    <2>. DEFINE e == Ended(job[j], "QUEUED")
    <2>1. Failed(job[j], n) = [e EXCEPT !.attempts = n]
      BY <1>3 DEF Failed
    <2>2. e \in JobRow /\ e.st = "QUEUED" /\ e.token = 0
      BY <1>1, EndedRow DEF ActiveStatuses
    <2>3. n < MaxAttempts
      BY <1>1, <1>3, LimitsAssumption
    <2>. HIDE DEF e
    <2>4. /\ Failed(job[j], n) \in JobRow
          /\ Failed(job[j], n).st = "QUEUED"
          /\ Failed(job[j], n).token = 0
          /\ Failed(job[j], n).attempts = n
      BY <1>1, <2>1, <2>2 DEF JobRow
    <2>. QED BY <1>1, <2>3, <2>4 DEF RowFits, LeasedStatuses
  <1>. QED BY <1>2, <1>3 DEF n

-----------------------------------------------------------------------------
(* Steps *)

LEMMA IdleOK == Idle \in Steps /\ ReadsOf(Idle)
  BY DEF Idle, Steps, ReadsOf

LEMMA StepTypes ==
    ASSUME NEW t \in Steps
    PROVE  /\ t.k = "reclaim" => t \in ReclaimSteps
           /\ t.k \in {"candidates", "dropAgent"} => t \in AgentSteps
           /\ t.k = "claim" => t \in ClaimSteps
           /\ t.k = "report" => t \in ReportSteps
           /\ t.k = "reportTx" => t \in ReportTxSteps
           /\ t.k \in {"noFile", "cancel"} => t \in JobSteps
           /\ t.k = "resolve" => t \in ResolveSteps
           /\ t.k = "create" => t \in CreateSteps
           /\ t.k = "dropAssets" => t \in CleanSteps
  BY DEF Steps, Idle, ReclaimSteps, AgentSteps, ClaimSteps, ReportSteps, ReportTxSteps,
         JobSteps, ResolveSteps, CreateSteps, CleanSteps

(* The only request has gone on to a step that fits the rows. *)
LEMMA MovedAt ==
    ASSUME OneAtATime, RequestTypes, NEW h \in Handlers,
           at' = [at EXCEPT ![h] = at'[h]], at'[h] \in Steps, ReadsOf(at[h])'
    PROVE  at' \in [Handlers -> Steps] /\ Reads'
  <1>1. at' \in [Handlers -> Steps]
    BY DEF RequestTypes
  <1>2. \A g \in Handlers : at'[g] = at'[h]
    BY DEF OneAtATime
  <1>3. Reads'
    BY <1>2 DEF Reads
  <1>. QED BY <1>1, <1>3

LEMMA Moved ==
    ASSUME OneAtATime, RequestTypes, NEW h \in Handlers,
           at' = [at EXCEPT ![h] = at'[h]], at'[h] \in Steps, ReadsOf(at[h])',
           UNCHANGED <<window, budget>>
    PROVE  RequestTypes' /\ Reads'
  BY MovedAt DEF RequestTypes

LEMMA Served ==
    ASSUME OneAtATime, RequestTypes, NEW h \in Handlers, Goto(h, Idle),
           UNCHANGED <<window, budget>>
    PROVE  RequestTypes' /\ Reads'
  <1>1. at'[h] = Idle /\ at' = [at EXCEPT ![h] = at'[h]]
    BY DEF Goto, RequestTypes
  <1>2. ReadsOf(at[h])'
    BY <1>1 DEF ReadsOf, Idle
  <1>. QED BY <1>1, <1>2, IdleOK, Moved

(* What a step must not do to a job that has ended. *)
FinalKept ==
    \A j \in JobIds : job[j].st \in FinalStatuses => job'[j].st \in {job[j].st, "DELETED"}

LEMMA SaveStep ==
    ASSUME RowsOK, NEW j \in JobIds, NEW row, RowFits(j, row), Save(j, row),
           job[j].st \notin FinalStatuses
    PROVE  RowsOK' /\ FinalKept
  <1>1. FinalKept
    BY DEF FinalKept, Save, RowsOK, RowTypes
  <1>. QED BY <1>1, SaveKeepsRows

LEMMA SameRows ==
    ASSUME RowsOK, UNCHANGED rows
    PROVE  RowsOK' /\ FinalKept
  BY DEF RowsOK, RowTypes, LeaseHeld, Handouts, FinalKept, rows

LEMMA LeasedIsNotFinal ==
    \A st \in LeasedStatuses \cup ActiveStatuses \cup {"STALE", "CLAIMED"} : st \notin FinalStatuses
  BY DEF LeasedStatuses, ActiveStatuses, FinalStatuses

-----------------------------------------------------------------------------
(* The reaper *)

LEMMA ReclaimOneOK ==
    ASSUME QueueInv, OneAtATime, NEW h \in Handlers, ReclaimOne(h)
    PROVE  QueueInv' /\ FinalKept
  <1>1. at[h] \in ReclaimSteps /\ ReadsOf(at[h])
    BY StepTypes DEF QueueInv, RequestTypes, Reads, ReclaimOne
  <1>2. PICK o \in at[h].left :
           /\ IF StillClaimed(o.j) THEN Save(o.j, Failed(job[o.j], o.attempts + 1))
              ELSE UNCHANGED rows
           /\ Goto(h, ReclaimStep(at[h].left \ {o}, at[h].scope, at[h].a))
    BY DEF ReclaimOne
  <1>3. o \in Orphan /\ job[o.j].st = "CLAIMED" /\ job[o.j].attempts = o.attempts
    BY <1>1 DEF ReadsOf, ReclaimSteps, ReclaimOne
  <1>4. RowFits(o.j, Failed(job[o.j], o.attempts + 1)) /\ Save(o.j, Failed(job[o.j], o.attempts + 1))
    BY <1>2, <1>3, FailedFits DEF QueueInv, Leased, LeasedStatuses, StillClaimed, Orphan
  <1>5. RowsOK' /\ FinalKept
    BY <1>3, <1>4, SaveStep, LeasedIsNotFinal DEF QueueInv, Orphan
  <1>6. /\ at'[h] = ReclaimStep(at[h].left \ {o}, at[h].scope, at[h].a)
        /\ at' = [at EXCEPT ![h] = at'[h]]
    BY <1>2 DEF Goto, QueueInv, RequestTypes
  <1>7. at'[h] \in Steps
    BY <1>1, <1>6 DEF ReclaimStep, ReclaimSteps, Steps
  <1>8. ReadsOf(at[h])'
    <2>1. \A p \in at[h].left \ {o} : p \in Orphan /\ p.j # o.j
      BY <1>1, <1>3 DEF ReadsOf, ReclaimSteps, Orphan, ReclaimOne
    <2>2. \A j \in JobIds : j # o.j => job'[j] = job[j]
      BY <1>4 DEF Save, QueueInv, RowsOK, RowTypes
    <2>3. \A p \in at[h].left \ {o} : job'[p.j].st = "CLAIMED" /\ job'[p.j].attempts = p.attempts
      BY <1>1, <2>1, <2>2 DEF ReadsOf, Orphan, ReclaimOne
    <2>. QED BY <1>6, <2>3 DEF ReadsOf, ReclaimStep
  <1>. QED BY <1>5, <1>6, <1>7, <1>8, Moved DEF QueueInv, ReclaimOne

LEMMA MarkStaleOK ==
    ASSUME QueueInv, OneAtATime, NEW h \in Handlers, MarkStale(h)
    PROVE  QueueInv' /\ FinalKept
  <1>1. at[h] \in ReclaimSteps
    BY StepTypes DEF QueueInv, RequestTypes, MarkStale
  <1>. DEFINE S == Stale(at[h].scope)
  <1>2. \A j \in S : job[j].st = "PRINTING"
    BY DEF Stale, Expired
  <1>3. job' = [j \in JobIds |-> IF j \in S THEN [job[j] EXCEPT !.st = "STALE", !.token = 0]
                                 ELSE job[j]]
    BY DEF MarkStale
  <1>. HIDE DEF S
  <1>4. RowsOK'
    <2>1. /\ \A j \in JobIds : job[j] \in JobRow
          /\ UNCHANGED <<handed, queued, agents, assets>>
      BY DEF QueueInv, RowsOK, RowTypes, MarkStale
    <2>2. \A j \in JobIds :
             /\ job'[j] \in JobRow
             /\ \/ job'[j] = job[j]
                \/ job'[j].st = "STALE" /\ job'[j].token = 0
      BY <1>3, <2>1, StaleRow
    <2>3. RowTypes'
      BY <1>3, <2>1, <2>2 DEF QueueInv, RowsOK, RowTypes
    <2>4. LeaseHeld'
      BY <2>1, <2>2 DEF QueueInv, RowsOK, LeaseHeld, LeasedStatuses
    <2>5. Handouts'
      BY <2>1, <2>2 DEF QueueInv, RowsOK, Handouts, LeasedStatuses
    <2>. QED BY <2>3, <2>4, <2>5 DEF RowsOK
  <1>5. FinalKept
    BY <1>2, <1>3, LeasedIsNotFinal DEF FinalKept, LeasedStatuses
  <1>6. CASE at[h].a = None
    BY <1>4, <1>5, <1>6, Served DEF QueueInv, MarkStale
  <1>7. CASE at[h].a # None
    <2>1. at'[h] = CandidatesStep(at[h].a) /\ at' = [at EXCEPT ![h] = at'[h]]
      BY <1>7 DEF Goto, MarkStale, QueueInv, RequestTypes
    <2>2. at'[h] \in Steps
      BY <1>1, <1>7, <2>1 DEF CandidatesStep, ReclaimSteps, AgentSteps, Steps
    <2>3. ReadsOf(at[h])'
      BY <2>1 DEF ReadsOf, CandidatesStep
    <2>. QED BY <1>4, <1>5, <2>1, <2>2, <2>3, Moved DEF QueueInv, MarkStale
  <1>. QED BY <1>6, <1>7

-----------------------------------------------------------------------------
(* Handing jobs out *)

LEMMA TakeOK ==
    ASSUME OneAtATime, RequestTypes, NEW h \in Handlers, NEW a \in Agents,
           NEW left \in SUBSET JobIds, NEW n \in 0..ClaimLimit,
           TakeJobs(h, a, left, n), UNCHANGED <<window, budget>>
    PROVE  RequestTypes' /\ Reads'
  <1>1. CASE left = {} \/ n = 0
    BY <1>1, Served DEF TakeJobs
  <1>2. CASE ~(left = {} \/ n = 0)
    <2>1. /\ at'[h] = [k |-> "claim", a |-> a, left |-> left, n |-> n]
          /\ at' = [at EXCEPT ![h] = at'[h]]
      BY <1>2 DEF TakeJobs, Goto, RequestTypes
    <2>2. n \in 1..ClaimLimit
      BY <1>2, LimitsAssumption
    <2>3. at'[h] \in ClaimSteps /\ at'[h].k = "claim"
      BY <2>1, <2>2 DEF ClaimSteps
    <2>4. at'[h] \in Steps /\ ReadsOf(at[h])'
      BY <2>3 DEF Steps, ReadsOf
    <2>. QED BY <2>1, <2>4, Moved
  <1>. QED BY <1>1, <1>2

LEMMA ReadCandidatesOK ==
    ASSUME QueueInv, OneAtATime, NEW h \in Handlers, ReadCandidates(h)
    PROVE  QueueInv' /\ FinalKept
  <1>1. at[h].a \in Agents
    BY StepTypes DEF QueueInv, RequestTypes, ReadCandidates, AgentSteps
  <1>2. Candidates(at[h].a) \in SUBSET JobIds /\ ClaimLimit \in 0..ClaimLimit
    BY LimitsAssumption DEF Candidates, Queue
  <1>3. RequestTypes' /\ Reads'
    BY <1>1, <1>2, TakeOK DEF QueueInv, ReadCandidates
  <1>. QED BY <1>3, SameRows DEF QueueInv, ReadCandidates

LEMMA HandedToRow ==
    ASSUME NEW row \in JobRow, NEW a \in Agents, NEW n \in Nat
    PROVE  /\ HandedTo(row, a, n) \in JobRow
           /\ HandedTo(row, a, n).st = "CLAIMED"
           /\ HandedTo(row, a, n).agent = a
           /\ HandedTo(row, a, n).token = n
           /\ HandedTo(row, a, n).lease = "live"
           /\ HandedTo(row, a, n).attempts = row.attempts
  BY DEF HandedTo, JobRow, ActiveStatuses

(* A queued job is handed to agent a. *)
LEMMA HandoutFits ==
    ASSUME RowsOK, NEW j \in JobIds, NEW a \in Agents, job[j].st = "QUEUED",
           handed' = [handed EXCEPT ![j] = Append(@, a)],
           job' = [job EXCEPT ![j] = HandedTo(@, a, Len(handed[j]) + 1)],
           UNCHANGED <<queued, agents, assets>>
    PROVE  RowsOK' /\ FinalKept
  <1>1. /\ job[j] \in JobRow /\ handed[j] \in Seq(Agents)
        /\ Len(handed[j]) = job[j].attempts /\ job[j].attempts < MaxAttempts
        /\ job[j].attempts \in 0..MaxAttempts
    BY DEF RowsOK, RowTypes, Handouts, JobRow
  <1>2. /\ job'[j] \in JobRow
        /\ job'[j].st = "CLAIMED" /\ job'[j].agent = a
        /\ job'[j].token = Len(handed[j]) + 1 /\ job'[j].lease = "live"
        /\ job'[j].attempts = job[j].attempts
        /\ \A i \in JobIds : i # j => job'[i] = job[i]
    <2>1. /\ job'[j] = HandedTo(job[j], a, Len(handed[j]) + 1)
          /\ \A i \in JobIds : i # j => job'[i] = job[i]
      BY DEF RowsOK, RowTypes
    <2>2. Len(handed[j]) + 1 \in Nat
      BY <1>1
    <2> DEFINE given == HandedTo(job[j], a, Len(handed[j]) + 1)
    <2>3. /\ given \in JobRow /\ given.st = "CLAIMED" /\ given.agent = a
          /\ given.token = Len(handed[j]) + 1 /\ given.lease = "live"
          /\ given.attempts = job[j].attempts
      <3>1. job[j] \in JobRow
        BY <1>1
      <3>. QED BY <3>1, <2>2, HandedToRow
    <2> HIDE DEF given
    <2>4. job'[j] = given
      BY <2>1 DEF given
    <2>. QED BY <2>1, <2>3, <2>4, Zenon
  <1>3. /\ handed'[j] = Append(handed[j], a)
        /\ \A i \in JobIds : i # j => handed'[i] = handed[i]
        /\ handed' \in [JobIds -> Seq(Agents)]
    BY <1>1 DEF RowsOK, RowTypes
  <1>4. /\ Len(handed'[j]) = Len(handed[j]) + 1
        /\ handed'[j][Len(handed[j]) + 1] = a
    BY <1>1, <1>3
  <1>5. RowTypes'
    BY <1>2, <1>3 DEF RowsOK, RowTypes
  <1>6. LeaseHeld'
    <2>1. job'[j].token # 0 /\ job'[j].st \in LeasedStatuses
      BY <1>1, <1>2 DEF LeasedStatuses
    <2>. QED BY <1>2, <1>3, <1>4, <2>1 DEF RowsOK, LeaseHeld
  <1>7. Handouts'
    <2>1. Len(handed'[j]) <= MaxAttempts /\ Len(handed'[j]) = job'[j].attempts + 1
      BY <1>1, <1>2, <1>4, LimitsAssumption
    <2>. QED BY <1>2, <1>3, <2>1 DEF RowsOK, Handouts, LeasedStatuses
  <1>8. FinalKept
    BY <1>2 DEF FinalKept, FinalStatuses
  <1>. QED BY <1>5, <1>6, <1>7, <1>8 DEF RowsOK

LEMMA ClaimOneOK ==
    ASSUME QueueInv, OneAtATime, NEW h \in Handlers, ClaimOne(h)
    PROVE  QueueInv' /\ FinalKept
  <1>1. at[h] \in ClaimSteps
    BY StepTypes DEF QueueInv, RequestTypes, ClaimOne
  <1>2. at[h].a \in Agents /\ at[h].left \in SUBSET JobIds /\ at[h].n \in 1..ClaimLimit
    BY <1>1 DEF ClaimSteps
  <1>3. PICK j \in at[h].left :
           IF StillQueued(j)
           THEN /\ handed' = [handed EXCEPT ![j] = Append(@, at[h].a)]
                /\ job' = [job EXCEPT ![j] = HandedTo(@, at[h].a, Len(handed[j]) + 1)]
                /\ TakeJobs(h, at[h].a, at[h].left \ {j}, at[h].n - 1)
           ELSE /\ TakeJobs(h, at[h].a, at[h].left \ {j}, at[h].n)
                /\ UNCHANGED <<job, handed>>
    BY DEF ClaimOne
  <1>4. /\ at[h].left \ {j} \in SUBSET JobIds
        /\ at[h].n \in 0..ClaimLimit /\ at[h].n - 1 \in 0..ClaimLimit
        /\ j \in JobIds
    BY <1>2, LimitsAssumption
  <1>5. UNCHANGED <<window, budget>> /\ UNCHANGED <<queued, agents, assets>>
    BY DEF ClaimOne
  <1>6. CASE StillQueued(j)
    <2>1. RequestTypes' /\ Reads'
      BY <1>2, <1>3, <1>4, <1>5, <1>6, TakeOK DEF QueueInv
    <2>2. RowsOK' /\ FinalKept
      BY <1>2, <1>3, <1>4, <1>5, <1>6, HandoutFits DEF QueueInv, StillQueued
    <2>. QED BY <2>1, <2>2 DEF QueueInv
  <1>7. CASE ~StillQueued(j)
    <2>1. RequestTypes' /\ Reads'
      BY <1>2, <1>3, <1>4, <1>5, <1>7, TakeOK DEF QueueInv
    <2>. QED BY <1>3, <1>5, <1>7, <2>1, SameRows DEF QueueInv, rows
  <1>. QED BY <1>6, <1>7

-----------------------------------------------------------------------------
(* The writes of requests *)

(* A request that ends with one write to a job that has not ended. *)
LEMMA WriteOK ==
    ASSUME QueueInv, OneAtATime, NEW h \in Handlers, NEW j \in JobIds, NEW row,
           IF Exists(j) THEN Save(j, row) ELSE UNCHANGED rows,
           RowFits(j, row), job[j].st \notin FinalStatuses,
           Goto(h, Idle), UNCHANGED <<window, budget>>
    PROVE  QueueInv' /\ FinalKept
  <1>1. CASE Exists(j)
    BY <1>1, SaveStep, Served DEF QueueInv
  <1>2. CASE ~Exists(j)
    BY <1>2, SameRows, Served DEF QueueInv
  <1>. QED BY <1>1, <1>2

LEMMA ReportReadOK ==
    ASSUME QueueInv, OneAtATime, NEW h \in Handlers, ReportRead(h)
    PROVE  QueueInv' /\ FinalKept
  <1>. DEFINE t == at[h]
  <1>1. t \in ReportSteps /\ Leased(t.j) /\ job[t.j].token = t.n
    BY StepTypes DEF QueueInv, RequestTypes, Reads, ReadsOf, ReportRead
  <1>2. job[t.j].attempts \in 0..MaxAttempts
    BY <1>1 DEF QueueInv, RowsOK, RowTypes, ReportSteps, JobRow
  <1>3. RowsOK' /\ FinalKept /\ UNCHANGED <<window, budget>> /\ UNCHANGED job
    BY SameRows DEF QueueInv, ReportRead, rows
  <1>4. \/ Goto(h, Idle)
        \/ Goto(h, [k |-> "reportTx", j |-> t.j, n |-> t.n, r |-> t.r,
                    attempts |-> job[t.j].attempts])
    BY DEF ReportRead
  <1>5. CASE Goto(h, Idle)
    BY <1>3, <1>5, Served DEF QueueInv
  <1>6. CASE Goto(h, [k |-> "reportTx", j |-> t.j, n |-> t.n, r |-> t.r,
                      attempts |-> job[t.j].attempts])
    <2>1. /\ at'[h] = [k |-> "reportTx", j |-> t.j, n |-> t.n, r |-> t.r,
                       attempts |-> job[t.j].attempts]
          /\ at' = [at EXCEPT ![h] = at'[h]]
      BY <1>6 DEF Goto, QueueInv, RequestTypes
    <2>2. at'[h] \in ReportTxSteps
      BY <1>1, <1>2, <2>1 DEF ReportSteps, ReportTxSteps
    <2>3. at'[h] \in Steps
      BY <2>2 DEF Steps
    <2>4. ReadsOf(at[h])'
      BY <1>1, <1>3, <2>1 DEF ReadsOf, Leased
    <2>. QED BY <1>3, <2>1, <2>3, <2>4, Moved DEF QueueInv
  <1>. QED BY <1>4, <1>5, <1>6

LEMMA ReportTxOK ==
    ASSUME QueueInv, OneAtATime, NEW h \in Handlers, ReportTx(h)
    PROVE  QueueInv' /\ FinalKept
  <1>. DEFINE t == at[h]
              row == job[t.j]
  <1>1. t \in ReportTxSteps /\ Leased(t.j) /\ row.token = t.n /\ row.attempts = t.attempts
    BY StepTypes DEF QueueInv, RequestTypes, Reads, ReadsOf, ReportTx
  <1>2. t.j \in JobIds /\ t.r \in Reports /\ row \in JobRow
    BY <1>1 DEF ReportTxSteps, QueueInv, RowsOK, RowTypes
  <1>3. RowFits(t.j, Reported(row, t))
    <2>1. CASE t.r = "PRINTING"
      <3>1. Reported(row, t) = [row EXCEPT !.st = "PRINTING", !.lease = "live"]
        BY <2>1 DEF Reported
      <3>2. /\ Reported(row, t) \in JobRow
            /\ Reported(row, t).st = "PRINTING" /\ Reported(row, t).lease = "live"
            /\ Reported(row, t).token = row.token /\ Reported(row, t).agent = row.agent
            /\ Reported(row, t).attempts = row.attempts
        BY <1>2, <3>1 DEF JobRow, ActiveStatuses
      <3>. QED BY <1>1, <1>2, <3>2
               DEF RowFits, QueueInv, RowsOK, LeaseHeld, Handouts, Leased, LeasedStatuses
    <2>2. CASE t.r = "DONE"
      BY <1>2, <2>2, EndedFits DEF Reported, QueueInv, FinalStatuses
    <2>3. CASE t.r = "REJECTED"
      BY <1>2, <2>3, EndedFits DEF Reported, QueueInv, FinalStatuses
    <2>4. CASE t.r = "FAILED"
      BY <1>1, <1>2, <2>4, FailedFits DEF Reported, QueueInv
    <2>. QED BY <1>2, <2>1, <2>2, <2>3, <2>4 DEF Reports
  <1>. QED BY <1>1, <1>2, <1>3, WriteOK, LeasedIsNotFinal DEF ReportTx, Leased

LEMMA NoFileTxOK ==
    ASSUME QueueInv, OneAtATime, NEW h \in Handlers, NoFileTx(h)
    PROVE  QueueInv' /\ FinalKept
  <1>1. at[h] \in JobSteps /\ Leased(at[h].j)
    BY StepTypes DEF QueueInv, RequestTypes, Reads, ReadsOf, NoFileTx
  <1>2. at[h].j \in JobIds
    BY <1>1 DEF JobSteps
  <1>3. RowFits(at[h].j, Ended(job[at[h].j], "FAILED"))
    BY <1>2, EndedFits DEF QueueInv, FinalStatuses
  <1>. QED BY <1>1, <1>2, <1>3, WriteOK, LeasedIsNotFinal DEF NoFileTx, Leased

LEMMA CancelTxOK ==
    ASSUME QueueInv, OneAtATime, NEW h \in Handlers, CancelTx(h)
    PROVE  QueueInv' /\ FinalKept
  <1>1. at[h] \in JobSteps /\ job[at[h].j].st \in ActiveStatuses
    BY StepTypes DEF QueueInv, RequestTypes, Reads, ReadsOf, CancelTx
  <1>2. at[h].j \in JobIds
    BY <1>1 DEF JobSteps
  <1>3. RowFits(at[h].j, Ended(job[at[h].j], "CANCELLED"))
    BY <1>2, EndedFits DEF QueueInv, FinalStatuses
  <1>. QED BY <1>1, <1>2, <1>3, WriteOK, LeasedIsNotFinal DEF CancelTx

LEMMA ResolveTxOK ==
    ASSUME QueueInv, OneAtATime, NEW h \in Handlers, ResolveTx(h)
    PROVE  QueueInv' /\ FinalKept
  <1>. DEFINE row == job[at[h].j]
              new == [row EXCEPT !.st = at[h].st]
  <1>1. at[h] \in ResolveSteps /\ row.st = "STALE"
    BY StepTypes DEF QueueInv, RequestTypes, Reads, ReadsOf, ResolveTx
  <1>2. at[h].j \in JobIds /\ at[h].st \in {"DONE", "FAILED"}
    BY <1>1 DEF ResolveSteps
  <1>3. row \in JobRow /\ row.token = 0
    BY <1>1, <1>2 DEF QueueInv, RowsOK, RowTypes, LeaseHeld, LeasedStatuses
  <1>4. new \in JobRow /\ new.st = at[h].st /\ new.token = 0
    BY <1>2, <1>3 DEF JobRow, FinalStatuses
  <1>. HIDE DEF new
  <1>5. RowFits(at[h].j, new)
    BY <1>2, <1>4 DEF RowFits, LeasedStatuses
  <1>. USE DEF new
  <1>. QED BY <1>1, <1>2, <1>5, WriteOK, LeasedIsNotFinal DEF ResolveTx

LEMMA CreateTxOK ==
    ASSUME QueueInv, OneAtATime, NEW h \in Handlers, CreateTx(h)
    PROVE  QueueInv' /\ FinalKept
  <1>. DEFINE new == [FreeJob EXCEPT !.st = "QUEUED", !.agent = at[h].a, !.asset = at[h].asset]
  <1>1. at[h] \in CreateSteps
    BY StepTypes DEF QueueInv, RequestTypes, CreateTx
  <1>2. new \in JobRow /\ new.st = "QUEUED" /\ new.token = 0 /\ new.attempts = 0
    <2>1. FreeJob \in JobRow /\ FreeJob.token = 0 /\ FreeJob.attempts = 0
      BY FreeRow DEF FreeJob
    <2>2. at[h].a \in Agents \cup {None} /\ at[h].asset \in Assets \cup {None}
      BY <1>1 DEF CreateSteps
    <2>. QED BY <2>1, <2>2 DEF JobRow, ActiveStatuses
  <1>3. RowsOK' /\ FinalKept
    <2>1. CASE \E j \in JobIds : IsFirstFree(j) /\ Save(j, new)
      <3>1. PICK j \in JobIds : job[j].st = "FREE" /\ Save(j, new)
        BY <2>1 DEF IsFirstFree
      <3>2. handed[j] = <<>> /\ Len(handed[j]) = 0
        BY <3>1 DEF QueueInv, RowsOK, Handouts
      <3>. HIDE DEF new
      <3>3. RowFits(j, new)
        BY <1>2, <3>2, LimitsAssumption DEF RowFits, LeasedStatuses
      <3>4. job[j].st \notin FinalStatuses
        BY <3>1 DEF FinalStatuses
      <3>. QED BY <3>1, <3>3, <3>4, SaveStep DEF QueueInv
    <2>2. CASE UNCHANGED rows
      BY <2>2, SameRows DEF QueueInv
    <2>. QED BY <2>1, <2>2 DEF CreateTx
  <1>. QED BY <1>3, Served DEF QueueInv, CreateTx

-----------------------------------------------------------------------------
(* Clean-up *)

LEMMA DropAgentTxOK ==
    ASSUME QueueInv, OneAtATime, NEW h \in Handlers, DropAgentTx(h)
    PROVE  QueueInv' /\ FinalKept
  <1>. DEFINE a == at[h].a
  <1>1. \A j \in JobIds : job[j].agent = a => job[j].st \notin ActiveStatuses
    BY DEF QueueInv, Reads, ReadsOf, DropAgentTx
  <1>2. \A j \in JobIds : job[j] \in JobRow
    BY DEF QueueInv, RowsOK, RowTypes
  <1>3. \A j \in JobIds : /\ job'[j] \in JobRow
                          /\ job'[j].st = job[j].st /\ job'[j].token = job[j].token
                          /\ job'[j].attempts = job[j].attempts
                          /\ job'[j].lease = job[j].lease
                          /\ job[j].agent # a => job'[j] = job[j]
    BY <1>2 DEF DropAgentTx, JobRow
  <1>4. RowTypes'
    BY <1>3 DEF QueueInv, RowsOK, RowTypes, DropAgentTx
  <1>5. UNCHANGED handed /\ UNCHANGED <<window, budget>> /\ Goto(h, Idle)
    BY DEF DropAgentTx
  <1>6. LeaseHeld'
    BY <1>1, <1>3, <1>5 DEF QueueInv, RowsOK, LeaseHeld, LeasedStatuses, ActiveStatuses
  <1>7. Handouts' /\ FinalKept
    BY <1>3, <1>5 DEF QueueInv, RowsOK, Handouts, FinalKept
  <1>. QED BY <1>4, <1>5, <1>6, <1>7, Served DEF QueueInv, RowsOK

(* Jobs in J are deleted. *)
LEMMA DeleteOK ==
    ASSUME RowsOK, NEW J,
           \A j \in J \cap JobIds : job[j].st \notin ActiveStatuses,
           job' = [j \in JobIds |-> IF j \in J THEN GoneJob ELSE job[j]],
           UNCHANGED <<handed, queued, agents>>, assets' \subseteq assets
    PROVE  RowsOK' /\ FinalKept
  <1>1. \A j \in JobIds : \/ job'[j] = job[j]
                          \/ job'[j] = GoneJob
    OBVIOUS
  <1>2. GoneJob.st = "DELETED" /\ GoneJob.token = 0 /\ GoneJob \in JobRow
    BY FreeRow DEF GoneJob, FreeJob
  <1>3. RowTypes'
    BY <1>1, <1>2 DEF RowsOK, RowTypes
  <1>4. LeaseHeld'
    BY <1>1, <1>2 DEF RowsOK, LeaseHeld, LeasedStatuses
  <1>5. Handouts'
    BY <1>1, <1>2 DEF RowsOK, Handouts, LeasedStatuses
  <1>6. FinalKept
    BY <1>1, <1>2 DEF FinalKept
  <1>. QED BY <1>3, <1>4, <1>5, <1>6 DEF RowsOK

LEMMA DropAssetsTxOK ==
    ASSUME QueueInv, OneAtATime, NEW h \in Handlers, DropAssetsTx(h)
    PROVE  QueueInv' /\ FinalKept
  <1>. DEFINE J == {j \in JobIds : job[j].asset \in at[h].X}
  <1>1. \A j \in J \cap JobIds : job[j].st \notin ActiveStatuses
    BY DEF QueueInv, Reads, ReadsOf, DropAssetsTx
  <1>2. job' = [j \in JobIds |-> IF j \in J THEN GoneJob ELSE job[j]]
    BY DEF DropAssetsTx
  <1>. HIDE DEF J
  <1>3. RowsOK' /\ FinalKept
    BY <1>1, <1>2, DeleteOK DEF QueueInv, DropAssetsTx
  <1>. QED BY <1>3, Served DEF QueueInv, DropAssetsTx

LEMMA PruneOK ==
    ASSUME QueueInv, Prune
    PROVE  QueueInv' /\ FinalKept
  <1>1. PICK J \in SUBSET {j \in JobIds : job[j].st \in FinalStatuses} :
           job' = [j \in JobIds |-> IF j \in J THEN GoneJob ELSE job[j]]
    BY DEF Prune
  <1>2. RowsOK' /\ FinalKept
    <2>1. \A j \in J \cap JobIds : job[j].st \notin ActiveStatuses
      BY DEF ActiveStatuses, FinalStatuses
    <2>. QED BY <1>1, <2>1, DeleteOK DEF QueueInv, Prune
  <1>3. \A j \in JobIds : job[j].st \notin FinalStatuses => job'[j] = job[j]
    BY <1>1
  <1>4. \A j \in JobIds : job'[j] = job[j] \/ job'[j].st = "DELETED"
    <2>1. GoneJob.st = "DELETED"
      BY DEF GoneJob, FreeJob
    <2>. QED BY <1>1, <2>1
  <1>5. RequestTypes'
    BY LimitsAssumption DEF QueueInv, RequestTypes, Prune, Asked
  <1>6. Reads'
    <2>. SUFFICES ASSUME NEW h \in Handlers PROVE ReadsOf(at[h])'
      BY DEF Reads
    <2>1. at'[h] = at[h] /\ at[h] \in Steps /\ ReadsOf(at[h])
      BY DEF QueueInv, Reads, RequestTypes, Prune
    <2>2. at[h].k = "reclaim" => ReadsOf(at[h])'
      BY <1>3, <2>1, StepTypes DEF ReadsOf, ReclaimSteps, Orphan, FinalStatuses
    <2>3. at[h].k \in {"report", "reportTx", "noFile"} => ReadsOf(at[h])'
      BY <1>3, <2>1, StepTypes, LeasedIsNotFinal
         DEF ReadsOf, Leased, ReportSteps, ReportTxSteps, JobSteps
    <2>4. at[h].k \in {"cancel", "resolve"} => ReadsOf(at[h])'
      BY <1>3, <2>1, StepTypes, LeasedIsNotFinal DEF ReadsOf, JobSteps, ResolveSteps
    <2>5. at[h].k \in {"dropAgent", "dropAssets"} => ReadsOf(at[h])'
      BY <1>4, <2>1 DEF ReadsOf, ActiveStatuses
    <2>6. at[h].k \notin {"reclaim", "report", "reportTx", "noFile", "cancel", "resolve",
                          "dropAgent", "dropAssets"} => ReadsOf(at[h])'
      BY <2>1 DEF ReadsOf
    <2>. QED BY <2>2, <2>3, <2>4, <2>5, <2>6
  <1>. QED BY <1>2, <1>5, <1>6 DEF QueueInv

-----------------------------------------------------------------------------
(* How requests begin *)

LEMMA Spent ==
    ASSUME RequestTypes, NEW kind, Asked(kind)
    PROVE  budget' \in 0..MaxRequests
  BY LimitsAssumption DEF RequestTypes, Asked

LEMMA Begun ==
    ASSUME QueueInv, OneAtATime, NEW h \in Handlers, NEW kind, Begin(h, kind),
           NEW t \in Steps, Goto(h, t), ReadsOf(t)
    PROVE  QueueInv' /\ FinalKept
  <1>1. RowsOK' /\ FinalKept /\ UNCHANGED job
    BY SameRows DEF Begin, QueueInv, rows
  <1>2. at'[h] = t /\ at' = [at EXCEPT ![h] = at'[h]]
    BY DEF Goto, QueueInv, RequestTypes
  <1>3. ReadsOf(at[h])'
    BY <1>1, <1>2 DEF ReadsOf, Leased
  <1>4. window' \in BOOLEAN /\ budget' \in 0..MaxRequests
    BY Spent DEF Begin, QueueInv, RequestTypes
  <1>. QED BY <1>1, <1>2, <1>3, <1>4, MovedAt DEF QueueInv, RequestTypes

LEMMA TokenOK ==
    ASSUME QueueInv, NEW j \in JobIds, NEW n \in DOMAIN handed[j], AgentJob(j, n)
    PROVE  /\ Leased(j) /\ job[j].token = n
           /\ n \in Nat /\ handed[j][n] \in Agents
  <1>1. handed[j] \in Seq(Agents)
    BY DEF QueueInv, RowsOK, RowTypes
  <1>2. n \in Nat /\ n # 0 /\ handed[j][n] \in Agents
    BY <1>1
  <1>. QED BY <1>2 DEF AgentJob, QueueInv, RowsOK, LeaseHeld, Leased

LEMMA ReportOK ==
    ASSUME QueueInv, OneAtATime, NEW h \in Handlers, Report(h)
    PROVE  QueueInv' /\ FinalKept
  <1>1. PICK j \in JobIds, r \in Reports : \E n \in DOMAIN handed[j] :
           /\ AgentJob(j, n)
           /\ Goto(h, [k |-> "report", j |-> j, n |-> n, a |-> handed[j][n], r |-> r])
    BY DEF Report
  <1>2. PICK n \in DOMAIN handed[j] :
           /\ AgentJob(j, n)
           /\ Goto(h, [k |-> "report", j |-> j, n |-> n, a |-> handed[j][n], r |-> r])
    BY <1>1
  <1>. DEFINE t == [k |-> "report", j |-> j, n |-> n, a |-> handed[j][n], r |-> r]
  <1>3. Leased(j) /\ job[j].token = n /\ n \in Nat /\ handed[j][n] \in Agents
    BY <1>2, TokenOK
  <1>4. t \in Steps
    BY <1>3 DEF Steps, ReportSteps
  <1>5. ReadsOf(t)
    BY <1>3 DEF ReadsOf
  <1>. QED BY <1>2, <1>4, <1>5, Begun DEF Report

LEMMA DownloadOK ==
    ASSUME QueueInv, OneAtATime, NEW h \in Handlers, Download(h)
    PROVE  QueueInv' /\ FinalKept
  <1>1. PICK j \in JobIds : \E n \in DOMAIN handed[j] :
           AgentJob(j, n) /\ Goto(h, [k |-> "noFile", j |-> j])
    BY DEF Download
  <1>2. Leased(j) /\ Goto(h, [k |-> "noFile", j |-> j])
    BY <1>1, TokenOK
  <1>3. [k |-> "noFile", j |-> j] \in Steps
    BY DEF Steps, JobSteps
  <1>4. ReadsOf([k |-> "noFile", j |-> j])
    BY <1>2 DEF ReadsOf
  <1>. QED BY <1>2, <1>3, <1>4, Begun DEF Download

LEMMA CreateOK ==
    ASSUME QueueInv, OneAtATime, NEW h \in Handlers, Create(h) \/ Retry(h)
    PROVE  QueueInv' /\ FinalKept
  <1>1. PICK x, a : /\ x \in Assets \cup {None} /\ a \in Agents \cup {None}
                    /\ Goto(h, [k |-> "create", asset |-> x, a |-> a])
    <2>1. CASE Create(h)
      <3>1. PICK x \in assets, a \in Agents : Goto(h, [k |-> "create", asset |-> x, a |-> a])
        BY <2>1 DEF Create
      <3>. QED BY <3>1 DEF QueueInv, RowsOK, RowTypes
    <2>2. CASE Retry(h)
      <3>1. PICK j \in JobIds :
               /\ Exists(j)
               /\ Goto(h, [k |-> "create", asset |-> job[j].asset, a |-> job[j].agent])
        BY <2>2 DEF Retry
      <3>2. job[j].agent \in Agents \cup {None} /\ job[j].asset \in Assets \cup {None}
        BY <3>1 DEF QueueInv, RowsOK, RowTypes, JobRow
      <3>. QED BY <3>1, <3>2
    <2>. QED BY <2>1, <2>2
  <1>2. [k |-> "create", asset |-> x, a |-> a] \in Steps
    BY <1>1 DEF Steps, CreateSteps
  <1>3. ReadsOf([k |-> "create", asset |-> x, a |-> a])
    BY DEF ReadsOf
  <1>4. Begin(h, "create") \/ Begin(h, "retry")
    BY DEF Create, Retry
  <1>. QED BY <1>1, <1>2, <1>3, <1>4, Begun

LEMMA CancelOK ==
    ASSUME QueueInv, OneAtATime, NEW h \in Handlers, Cancel(h)
    PROVE  QueueInv' /\ FinalKept
  <1>1. PICK j \in JobIds :
           job[j].st \in ActiveStatuses /\ Goto(h, [k |-> "cancel", j |-> j])
    BY DEF Cancel
  <1>2. [k |-> "cancel", j |-> j] \in Steps /\ ReadsOf([k |-> "cancel", j |-> j])
    BY <1>1 DEF Steps, JobSteps, ReadsOf
  <1>. QED BY <1>1, <1>2, Begun DEF Cancel

LEMMA ResolveOK ==
    ASSUME QueueInv, OneAtATime, NEW h \in Handlers, Resolve(h)
    PROVE  QueueInv' /\ FinalKept
  <1>1. PICK j \in JobIds, st \in {"DONE", "FAILED"} :
           job[j].st = "STALE" /\ Goto(h, [k |-> "resolve", j |-> j, st |-> st])
    BY DEF Resolve
  <1>2. [k |-> "resolve", j |-> j, st |-> st] \in Steps
    BY DEF Steps, ResolveSteps
  <1>3. ReadsOf([k |-> "resolve", j |-> j, st |-> st])
    BY <1>1 DEF ReadsOf
  <1>. QED BY <1>1, <1>2, <1>3, Begun DEF Resolve

LEMMA DeleteAgentOK ==
    ASSUME QueueInv, OneAtATime, NEW h \in Handlers, DeleteAgent(h)
    PROVE  QueueInv' /\ FinalKept
  <1>1. PICK a \in Agents :
           /\ \A j \in JobIds : job[j].agent = a => job[j].st \notin ActiveStatuses
           /\ Goto(h, [k |-> "dropAgent", a |-> a])
    BY DEF DeleteAgent
  <1>2. [k |-> "dropAgent", a |-> a] \in Steps /\ ReadsOf([k |-> "dropAgent", a |-> a])
    BY <1>1 DEF Steps, AgentSteps, ReadsOf
  <1>. QED BY <1>1, <1>2, Begun DEF DeleteAgent

LEMMA CleanCaseOK ==
    ASSUME QueueInv, OneAtATime, NEW h \in Handlers, CleanCase(h)
    PROVE  QueueInv' /\ FinalKept
  <1>1. PICK X \in SUBSET assets :
           /\ \A j \in JobIds : job[j].asset \in X => job[j].st \notin ActiveStatuses
           /\ Goto(h, [k |-> "dropAssets", X |-> X])
    BY DEF CleanCase, Removable
  <1>2. X \in SUBSET Assets
    BY DEF QueueInv, RowsOK, RowTypes
  <1>3. [k |-> "dropAssets", X |-> X] \in Steps /\ ReadsOf([k |-> "dropAssets", X |-> X])
    BY <1>1, <1>2 DEF Steps, CleanSteps, ReadsOf
  <1>. QED BY <1>1, <1>3, Begun DEF CleanCase, Removable

LEMMA StartReaperOK ==
    ASSUME QueueInv, OneAtATime, NEW h \in Handlers, NEW scope \in SUBSET Tenants,
           NEW a \in Agents \cup {None}, StartReaper(h, scope, a), UNCHANGED <<rows, budget>>
    PROVE  QueueInv' /\ FinalKept
  <1>. DEFINE t == ReclaimStep(Orphans(scope), scope, a)
  <1>1. RowsOK' /\ FinalKept /\ UNCHANGED job
    BY SameRows DEF QueueInv, rows
  <1>2. at'[h] = t /\ at' = [at EXCEPT ![h] = at'[h]]
    BY DEF StartReaper, Goto, QueueInv, RequestTypes
  <1>3. \A o \in Orphans(scope) : /\ o \in Orphan
                                  /\ job[o.j].st = "CLAIMED" /\ job[o.j].attempts = o.attempts
    BY DEF Orphans, Orphan, Expired, QueueInv, RowsOK, RowTypes, JobRow
  <1>4. t \in Steps
    BY <1>3 DEF ReclaimStep, ReclaimSteps, Steps
  <1>5. ReadsOf(at[h])'
    BY <1>1, <1>2, <1>3 DEF ReadsOf, ReclaimStep
  <1>. QED BY <1>1, <1>2, <1>4, <1>5, MovedAt DEF StartReaper, QueueInv, RequestTypes

LEMMA PollOK ==
    ASSUME QueueInv, OneAtATime, NEW h \in Handlers, NEW a \in Agents, Poll(h, a)
    PROVE  QueueInv' /\ FinalKept
  <1>1. CASE StartReaper(h, {TenantOf[a]}, a)
    <2>1. {TenantOf[a]} \in SUBSET Tenants
      BY TenantsAssumption
    <2>. QED BY <1>1, <2>1, StartReaperOK DEF Poll
  <1>2. CASE Goto(h, CandidatesStep(a)) /\ UNCHANGED window
    <2>1. at'[h] = CandidatesStep(a) /\ at' = [at EXCEPT ![h] = at'[h]]
      BY <1>2 DEF Goto, QueueInv, RequestTypes
    <2>2. at'[h] \in Steps /\ ReadsOf(at[h])'
      BY <2>1 DEF CandidatesStep, AgentSteps, Steps, ReadsOf
    <2>. QED BY <1>2, <2>1, <2>2, Moved, SameRows DEF QueueInv, Poll
  <1>. QED BY <1>1, <1>2 DEF Poll

LEMMA ListOK ==
    ASSUME QueueInv, OneAtATime, NEW h \in Handlers, List(h)
    PROVE  QueueInv' /\ FinalKept
  <1>1. PICK scope \in SUBSET Tenants : StartReaper(h, scope, None)
    BY DEF List
  <1>. QED BY <1>1, StartReaperOK DEF List

-----------------------------------------------------------------------------
(* What happens by itself *)

LEMMA CrashOK ==
    ASSUME QueueInv, OneAtATime, NEW h \in Handlers, Crash(h)
    PROVE  QueueInv' /\ FinalKept
  <1>1. at'[h] = Idle /\ at' = [at EXCEPT ![h] = at'[h]]
    BY DEF Crash, Goto, QueueInv, RequestTypes
  <1>2. ReadsOf(at[h])'
    BY <1>1 DEF ReadsOf, Idle
  <1>3. at' \in [Handlers -> Steps] /\ Reads'
    BY <1>1, <1>2, IdleOK, MovedAt DEF QueueInv
  <1>. QED BY <1>3, SameRows, Spent DEF QueueInv, RequestTypes, Crash

LEMMA UpdateAgentOK ==
    ASSUME QueueInv, UpdateAgent
    PROVE  QueueInv' /\ FinalKept
  <1>1. RowsOK' /\ FinalKept
    <2>1. agents' \in [Agents -> {"ACTIVE", "DISABLED", "DELETED"}]
      BY DEF UpdateAgent, QueueInv, RowsOK, RowTypes
    <2>. QED BY <2>1 DEF UpdateAgent, QueueInv, RowsOK, RowTypes, LeaseHeld, Handouts, FinalKept
  <1>2. RequestTypes'
    BY Spent DEF UpdateAgent, QueueInv, RequestTypes
  <1>3. Reads'
    BY DEF UpdateAgent, QueueInv, Reads, ReadsOf, Leased
  <1>. QED BY <1>1, <1>2, <1>3 DEF QueueInv

LEMMA ExpireOK ==
    ASSUME QueueInv, Expire
    PROVE  QueueInv' /\ FinalKept
  <1>1. PICK i \in JobIds : job' = [job EXCEPT ![i].lease = "expired"]
    BY DEF Expire
  <1>2. \A j \in JobIds :
           /\ job'[j] \in JobRow
           /\ job'[j].st = job[j].st /\ job'[j].token = job[j].token
           /\ job'[j].attempts = job[j].attempts /\ job'[j].agent = job[j].agent
           /\ job'[j].asset = job[j].asset
           /\ job'[j].lease \in {job[j].lease, "expired"}
    <2> SUFFICES ASSUME NEW j \in JobIds
                 PROVE  /\ job'[j] \in JobRow
                        /\ job'[j].st = job[j].st /\ job'[j].token = job[j].token
                        /\ job'[j].attempts = job[j].attempts
                        /\ job'[j].agent = job[j].agent
                        /\ job'[j].asset = job[j].asset
                        /\ job'[j].lease \in {job[j].lease, "expired"}
      OBVIOUS
    <2>1. job[j] \in JobRow
      BY DEF QueueInv, RowsOK, RowTypes
    <2>2. job'[j] \in {job[j], [job[j] EXCEPT !.lease = "expired"]}
      BY <1>1 DEF QueueInv, RowsOK, RowTypes
    <2>. QED BY <2>1, <2>2 DEF JobRow
  <1>3. RowTypes'
    <2>1. DOMAIN job' = JobIds
      BY <1>1 DEF QueueInv, RowsOK, RowTypes
    <2>2. job' = [j \in JobIds |-> job'[j]]
      BY <1>1, <2>1 DEF QueueInv, RowsOK, RowTypes
    <2>3. job' \in [JobIds -> JobRow]
      BY <1>2, <2>2
    <2>. QED BY <2>3 DEF QueueInv, RowsOK, RowTypes, Expire
  <1>4. LeaseHeld' /\ Handouts' /\ FinalKept
    BY <1>2 DEF QueueInv, RowsOK, LeaseHeld, Handouts, FinalKept, Expire
  <1>5. RequestTypes'
    BY DEF QueueInv, RequestTypes, Expire
  <1>6. Reads'
    <2>. SUFFICES ASSUME NEW h \in Handlers PROVE ReadsOf(at[h])'
      BY DEF Reads
    <2>1. at'[h] = at[h] /\ ReadsOf(at[h])
      BY DEF QueueInv, Reads, Expire
    <2>2. at[h] \in Steps
      BY DEF QueueInv, RequestTypes
    <2>3. at[h].k = "reclaim" => ReadsOf(at[h])'
      BY <1>2, <2>1, <2>2, StepTypes DEF ReadsOf, ReclaimSteps, Orphan
    <2>4. at[h].k \in {"report", "reportTx", "noFile", "cancel", "resolve"} => ReadsOf(at[h])'
      BY <1>2, <2>1, <2>2, StepTypes
         DEF ReadsOf, Leased, ReportSteps, ReportTxSteps, JobSteps, ResolveSteps
    <2>5. at[h].k \notin {"reclaim", "report", "reportTx", "noFile", "cancel", "resolve"}
             => ReadsOf(at[h])'
      BY <1>2, <2>1 DEF ReadsOf
    <2>. QED BY <2>3, <2>4, <2>5
  <1>. QED BY <1>3, <1>4, <1>5, <1>6 DEF QueueInv, RowsOK

LEMMA StutterOK ==
    ASSUME QueueInv, UNCHANGED <<rows, at, budget>>, window' \in BOOLEAN
    PROVE  QueueInv' /\ FinalKept
  BY SameRows DEF QueueInv, RequestTypes, Reads, ReadsOf, Leased, rows

-----------------------------------------------------------------------------
(* Theorems *)

LEMMA InitOK == Init => QueueInv
  <1>. SUFFICES ASSUME Init PROVE QueueInv
    OBVIOUS
  <1>1. RowTypes
    BY FreeRow DEF Init, RowTypes
  <1>2. \A j \in JobIds : job[j].st = "FREE" /\ job[j].token = 0 /\ handed[j] = <<>>
    BY DEF Init, FreeJob
  <1>3. LeaseHeld /\ Handouts
    BY <1>2, LimitsAssumption DEF LeaseHeld, Handouts, LeasedStatuses
  <1>4. RequestTypes /\ Reads
    BY IdleOK, LimitsAssumption DEF Init, RequestTypes, Reads
  <1>. QED BY <1>1, <1>3, <1>4 DEF QueueInv, RowsOK

LEMMA NextOK ==
    ASSUME QueueInv, OneAtATime, [Next]_vars
    PROVE  QueueInv' /\ FinalKept
  <1>1. ASSUME NEW h \in Handlers, Request(h) PROVE QueueInv' /\ FinalKept
    BY <1>1, ListOK, ReportOK, DownloadOK, CreateOK, CancelOK, ResolveOK, DeleteAgentOK,
       CleanCaseOK DEF Request
  <1>2. ASSUME NEW h \in Handlers, Step(h) PROVE QueueInv' /\ FinalKept
    BY <1>2, ReclaimOneOK, MarkStaleOK, ReadCandidatesOK, ClaimOneOK, ReportReadOK, ReportTxOK,
       NoFileTxOK, CreateTxOK, CancelTxOK, ResolveTxOK, DropAgentTxOK, DropAssetsTxOK DEF Step
  <1>3. CASE OpenWindow
    BY <1>3, StutterOK DEF OpenWindow
  <1>4. CASE UNCHANGED vars
    <2>1. UNCHANGED <<rows, at, budget>> /\ window' \in BOOLEAN
      BY <1>4 DEF vars, rows, QueueInv, RequestTypes
    <2>. QED BY <2>1, StutterOK
  <1>. QED BY <1>1, <1>2, <1>3, <1>4, CrashOK, PollOK, UpdateAgentOK, PruneOK, ExpireOK DEF Next

(* For one request at a time QueueInv is an invariant, and no step changes *)
(* a job that has ended.                                                   *)
LEMMA Inductive ==
    ASSUME OneAtATime
    PROVE  Spec => []QueueInv /\ [][FinalKept]_vars
  <1>1. QueueInv /\ [Next]_vars => QueueInv' /\ FinalKept
    BY NextOK
  <1>. QED BY <1>1, InitOK, PTL DEF Spec

(* createPrintJob, claimPrintJobs, reportJobStatus and the reaper write     *)
(* rows of the types of the schema; attempts never exceed maxAttempts.     *)
THEOREM PrintTypes ==
    ASSUME OneAtATime
    PROVE  Spec => []PrintTypeOK
  <1>1. QueueInv => PrintTypeOK
    BY TypesSplit DEF QueueInv, RowsOK
  <1>. QED BY <1>1, Inductive, PTL

(* claimPrintJobs and reportJobStatus: a job is with an agent exactly      *)
(* while it has the token of its last handout.                             *)
THEOREM TokenIsLease ==
    ASSUME OneAtATime
    PROVE  Spec => []LeaseHeld
  <1>1. QueueInv => LeaseHeld
    BY DEF QueueInv, RowsOK
  <1>. QED BY <1>1, Inductive, PTL

(* reclaimStalePrintJobs and reportJobStatus: a job is handed out at most  *)
(* maxAttempts times, whoever fails and however often.                     *)
THEOREM HandoutsAreBounded ==
    ASSUME OneAtATime
    PROVE  Spec => []HandoutsBounded
  <1>1. QueueInv => HandoutsBounded
    BY DEF QueueInv, RowsOK, Handouts, HandoutsBounded
  <1>. QED BY <1>1, Inductive, PTL

(* print-job-statuses.ts: DONE, FAILED and CANCELLED are final; with more  *)
(* than one request at a time they are not.                                *)
THEOREM EndedJobsStay ==
    ASSUME OneAtATime
    PROVE  Spec => FinalIsFinal
  <1>1. FinalKept =>
          \A j \in JobIds : job[j].st \in FinalStatuses => job'[j].st \in {job[j].st, "DELETED"}
    BY DEF FinalKept
  <1>. QED BY <1>1, Inductive, PTL DEF FinalIsFinal

-----------------------------------------------------------------------------
(***************************************************************************)
(* However many requests are served at once, and whatever they overwrite,  *)
(* a job leaves the queue into the hands of one agent.                     *)
(***************************************************************************)

(* Requests that race may count an attempt too many. *)
AnyRow == [st : {"FREE", "DELETED", "STALE"} \cup ActiveStatuses \cup FinalStatuses,
           agent : Agents \cup {None}, asset : Assets \cup {None}, token : Nat,
           lease : {"none", "live", "expired"}, attempts : Nat]

(* What the requests carry from their reads to their writes. *)
CarriesOf(t) ==
    /\ t.k = "reclaim" => /\ \A o \in t.left : o.j \in JobIds /\ o.attempts \in Nat
                          /\ t.a \in Agents \cup {None}
    /\ t.k = "candidates" => t.a \in Agents
    /\ t.k = "claim" => t.a \in Agents /\ t.left \subseteq JobIds
    /\ t.k \in {"report", "noFile", "cancel"} => t.j \in JobIds
    /\ t.k = "reportTx" => t.j \in JobIds /\ t.attempts \in Nat
    /\ t.k \in {"report", "reportTx"} => t.r \in Reports
    /\ t.k = "resolve" => t.j \in JobIds /\ t.st \in {"DONE", "FAILED"}
    /\ t.k = "create" => t.a \in Agents \cup {None}
Carries == DOMAIN at = Handlers /\ \A h \in Handlers : CarriesOf(at[h])

(* A job in the queue has one handout left. *)
Ahead ==
    \A j \in JobIds : IF job[j].st = "QUEUED" THEN Len(handed[j]) < queued[j]
                                              ELSE Len(handed[j]) <= queued[j]
AnyRows ==
    /\ job \in [JobIds -> AnyRow]
    /\ handed \in [JobIds -> Seq(Agents)]
    /\ queued \in [JobIds -> Nat]
    /\ assets \subseteq Assets
    /\ Ahead

(* The inductive invariant. *)
HandoutInv == AnyRows /\ Carries

-----------------------------------------------------------------------------
(* Rows *)

LEMMA SameAnyRows ==
    ASSUME AnyRows, UNCHANGED rows
    PROVE  AnyRows'
  BY DEF AnyRows, Ahead, rows

LEMMA Saved ==
    ASSUME AnyRows, NEW j \in JobIds, NEW row \in AnyRow, Save(j, row)
    PROVE  AnyRows'
  <1>1. /\ job' \in [JobIds -> AnyRow]
        /\ queued' \in [JobIds -> Nat]
        /\ UNCHANGED <<handed, assets>>
    BY DEF AnyRows, Save
  <1>2. \A i \in JobIds :
           /\ job'[i] = (IF i = j THEN row ELSE job[i])
           /\ queued'[i] = (IF i = j /\ row.st = "QUEUED" /\ job[i].st # "QUEUED"
                            THEN queued[i] + 1 ELSE queued[i])
           /\ Len(handed[i]) \in Nat /\ queued[i] \in Nat
    BY DEF AnyRows, Save
  <1>3. Ahead'
    <2>1. SUFFICES ASSUME NEW i \in JobIds
                   PROVE  IF job'[i].st = "QUEUED" THEN Len(handed[i]) < queued'[i]
                                                   ELSE Len(handed[i]) <= queued'[i]
      BY <1>1 DEF Ahead
    <2>2. IF job[i].st = "QUEUED" THEN Len(handed[i]) < queued[i] ELSE Len(handed[i]) <= queued[i]
      BY DEF AnyRows, Ahead
    <2>. QED BY <1>2, <2>2
  <1>. QED BY <1>1, <1>3 DEF AnyRows

(* A statement that puts no job into the queue. *)
LEMMA Rewritten ==
    ASSUME AnyRows, job' \in [JobIds -> AnyRow], UNCHANGED <<handed, queued>>,
           assets' \subseteq Assets,
           \A j \in JobIds : job'[j].st = "QUEUED" => job[j].st = "QUEUED"
    PROVE  AnyRows'
  <1>1. \A j \in JobIds : Len(handed[j]) \in Nat /\ queued[j] \in Nat
    BY DEF AnyRows
  <1>2. Ahead'
    BY <1>1 DEF AnyRows, Ahead
  <1>. QED BY <1>2 DEF AnyRows

LEMMA SomeRows ==
    /\ FreeJob \in AnyRow
    /\ GoneJob \in AnyRow /\ GoneJob.st = "DELETED"
  BY DEF FreeJob, GoneJob, AnyRow

LEMMA EndedAny ==
    ASSUME NEW row \in AnyRow, NEW st \in ActiveStatuses \cup FinalStatuses
    PROVE  Ended(row, st) \in AnyRow
  BY DEF Ended, AnyRow

LEMMA FailedAny ==
    ASSUME NEW row \in AnyRow, NEW n \in Nat
    PROVE  Failed(row, n) \in AnyRow
  <1>. DEFINE st == IF n >= MaxAttempts THEN "FAILED" ELSE "QUEUED"
  <1>1. st \in ActiveStatuses \cup FinalStatuses
    BY DEF ActiveStatuses, FinalStatuses
  <1>2. Failed(row, n) = [Ended(row, st) EXCEPT !.attempts = n]
    BY DEF Failed
  <1>. HIDE DEF st
  <1>. QED BY <1>1, <1>2, EndedAny DEF AnyRow

LEMMA ReportedAny ==
    ASSUME NEW row \in AnyRow, NEW t, t.attempts \in Nat
    PROVE  Reported(row, t) \in AnyRow
  <1>1. [row EXCEPT !.st = "PRINTING", !.lease = "live"] \in AnyRow
    BY DEF AnyRow, ActiveStatuses
  <1>2. Ended(row, "DONE") \in AnyRow /\ Ended(row, "FAILED") \in AnyRow
    BY EndedAny DEF FinalStatuses
  <1>3. Failed(row, t.attempts + 1) \in AnyRow
    BY FailedAny
  <1>. QED BY <1>1, <1>2, <1>3 DEF Reported

LEMMA HandedAny ==
    ASSUME NEW row \in AnyRow, NEW a \in Agents, NEW n \in Nat
    PROVE  HandedTo(row, a, n) \in AnyRow /\ HandedTo(row, a, n).st = "CLAIMED"
  BY DEF AnyRow, ActiveStatuses, HandedTo

LEMMA LenNat == \A s \in Seq(Agents) : Len(s) + 1 \in Nat
  OBVIOUS

-----------------------------------------------------------------------------
(* Requests *)

LEMMA Carried ==
    ASSUME Carries, NEW h \in Handlers, NEW step, CarriesOf(step), Goto(h, step)
    PROVE  Carries'
  <1>1. DOMAIN at' = Handlers /\ \A g \in Handlers : at'[g] = IF g = h THEN step ELSE at[g]
    BY DEF Goto, Carries
  <1>2. ASSUME NEW g \in Handlers PROVE CarriesOf(at[g])'
    <2>1. CASE g = h
      BY <1>1, <2>1 DEF CarriesOf
    <2>2. CASE g # h
      BY <1>1, <2>2 DEF CarriesOf, Carries
    <2>. QED BY <2>1, <2>2
  <1>. QED BY <1>1, <1>2 DEF Carries

LEMMA Finished ==
    ASSUME Carries, NEW h \in Handlers, Goto(h, Idle)
    PROVE  Carries'
  <1>1. CarriesOf(Idle)
    BY DEF CarriesOf, Idle
  <1>. QED BY <1>1, Carried

LEMMA AtUnchanged ==
    ASSUME Carries, UNCHANGED at
    PROVE  Carries'
  BY DEF Carries, CarriesOf

LEMMA OrphansAny ==
    ASSUME AnyRows, NEW scope
    PROVE  \A o \in Orphans(scope) : o.j \in JobIds /\ o.attempts \in Nat
  BY DEF Orphans, Expired, AnyRows, AnyRow

LEMMA StartReaperCarries ==
    ASSUME HandoutInv, NEW h \in Handlers, NEW scope, NEW a \in Agents \cup {None},
           StartReaper(h, scope, a)
    PROVE  Carries'
  <1>1. CarriesOf(ReclaimStep(Orphans(scope), scope, a))
    BY OrphansAny DEF HandoutInv, CarriesOf, ReclaimStep
  <1>. QED BY <1>1, Carried DEF HandoutInv, StartReaper

LEMMA TakeJobsCarries ==
    ASSUME Carries, NEW h \in Handlers, NEW a \in Agents, NEW left \in SUBSET JobIds, NEW n,
           TakeJobs(h, a, left, n)
    PROVE  Carries'
  <1>1. CASE left = {} \/ n = 0
    BY <1>1, Finished DEF TakeJobs
  <1>2. CASE ~(left = {} \/ n = 0)
    <2>1. CarriesOf([k |-> "claim", a |-> a, left |-> left, n |-> n])
      BY DEF CarriesOf
    <2>. QED BY <1>2, <2>1, Carried DEF TakeJobs
  <1>. QED BY <1>1, <1>2

(* The requests that only read. *)
LEMMA RequestCarries ==
    ASSUME HandoutInv, NEW h \in Handlers, Request(h)
    PROVE  HandoutInv'
  <1>1. CASE List(h)
    BY <1>1, SameAnyRows, StartReaperCarries DEF List, HandoutInv
  <1>2. CASE Report(h)
    <2>1. PICK j \in JobIds, r \in Reports : \E n \in DOMAIN handed[j] :
             Goto(h, [k |-> "report", j |-> j, n |-> n, a |-> handed[j][n], r |-> r])
      BY <1>2 DEF Report
    <2>2. PICK n \in DOMAIN handed[j] :
             Goto(h, [k |-> "report", j |-> j, n |-> n, a |-> handed[j][n], r |-> r])
      BY <2>1
    <2>3. CarriesOf([k |-> "report", j |-> j, n |-> n, a |-> handed[j][n], r |-> r])
      BY DEF CarriesOf
    <2>4. Carries'
      BY <2>2, <2>3, Carried DEF HandoutInv
    <2>. QED BY <1>2, <2>4, SameAnyRows DEF Report, Begin, HandoutInv
  <1>3. CASE Download(h)
    <2>1. PICK j \in JobIds : Goto(h, [k |-> "noFile", j |-> j])
      BY <1>3 DEF Download
    <2>2. CarriesOf([k |-> "noFile", j |-> j])
      BY DEF CarriesOf
    <2>3. Carries'
      BY <2>1, <2>2, Carried DEF HandoutInv
    <2>. QED BY <1>3, <2>3, SameAnyRows DEF Download, Begin, HandoutInv
  <1>4. CASE Create(h) \/ Retry(h)
    <2>1. PICK x \in Assets \cup {None}, a \in Agents \cup {None} :
             Goto(h, [k |-> "create", asset |-> x, a |-> a])
      <3>1. CASE Create(h)
        BY <3>1 DEF Create, HandoutInv, AnyRows
      <3>2. CASE Retry(h)
        <4>1. PICK j \in JobIds :
                 Goto(h, [k |-> "create", asset |-> job[j].asset, a |-> job[j].agent])
          BY <3>2 DEF Retry
        <4>2. job[j].asset \in Assets \cup {None} /\ job[j].agent \in Agents \cup {None}
          BY DEF HandoutInv, AnyRows, AnyRow
        <4>. QED BY <4>1, <4>2
      <3>. QED BY <1>4, <3>1, <3>2
    <2>2. CarriesOf([k |-> "create", asset |-> x, a |-> a])
      BY DEF CarriesOf
    <2>3. Carries'
      BY <2>1, <2>2, Carried DEF HandoutInv
    <2>. QED BY <1>4, <2>3, SameAnyRows DEF Create, Retry, Begin, HandoutInv
  <1>5. CASE Cancel(h)
    <2>1. PICK j \in JobIds : Goto(h, [k |-> "cancel", j |-> j])
      BY <1>5 DEF Cancel
    <2>2. CarriesOf([k |-> "cancel", j |-> j])
      BY DEF CarriesOf
    <2>3. Carries'
      BY <2>1, <2>2, Carried DEF HandoutInv
    <2>. QED BY <1>5, <2>3, SameAnyRows DEF Cancel, Begin, HandoutInv
  <1>6. CASE Resolve(h)
    <2>1. PICK j \in JobIds, st \in {"DONE", "FAILED"} :
             Goto(h, [k |-> "resolve", j |-> j, st |-> st])
      BY <1>6 DEF Resolve
    <2>2. CarriesOf([k |-> "resolve", j |-> j, st |-> st])
      BY DEF CarriesOf
    <2>3. Carries'
      BY <2>1, <2>2, Carried DEF HandoutInv
    <2>. QED BY <1>6, <2>3, SameAnyRows DEF Resolve, Begin, HandoutInv
  <1>7. CASE DeleteAgent(h)
    <2>1. PICK a \in Agents : Goto(h, [k |-> "dropAgent", a |-> a])
      BY <1>7 DEF DeleteAgent
    <2>2. CarriesOf([k |-> "dropAgent", a |-> a])
      BY DEF CarriesOf
    <2>3. Carries'
      BY <2>1, <2>2, Carried DEF HandoutInv
    <2>. QED BY <1>7, <2>3, SameAnyRows DEF DeleteAgent, Begin, HandoutInv
  <1>8. CASE CleanCase(h)
    <2>1. PICK X : Goto(h, [k |-> "dropAssets", X |-> X])
      BY <1>8 DEF CleanCase, Removable
    <2>2. CarriesOf([k |-> "dropAssets", X |-> X])
      BY DEF CarriesOf
    <2>3. Carries'
      BY <2>1, <2>2, Carried DEF HandoutInv
    <2>. QED BY <1>8, <2>3, SameAnyRows DEF CleanCase, Begin, HandoutInv
  <1>. QED BY <1>1, <1>2, <1>3, <1>4, <1>5, <1>6, <1>7, <1>8 DEF Request

-----------------------------------------------------------------------------
(* Steps *)

LEMMA ClaimOneHands ==
    ASSUME HandoutInv, NEW h \in Handlers, ClaimOne(h)
    PROVE  HandoutInv'
  <1>1. at[h].a \in Agents /\ at[h].left \subseteq JobIds
    BY DEF HandoutInv, Carries, CarriesOf, ClaimOne
  <1>2. PICK j \in at[h].left :
           IF StillQueued(j)
           THEN /\ handed' = [handed EXCEPT ![j] = Append(@, at[h].a)]
                /\ job' = [job EXCEPT ![j] = HandedTo(@, at[h].a, Len(handed[j]) + 1)]
                /\ TakeJobs(h, at[h].a, at[h].left \ {j}, at[h].n - 1)
           ELSE /\ TakeJobs(h, at[h].a, at[h].left \ {j}, at[h].n)
                /\ UNCHANGED <<job, handed>>
    BY DEF ClaimOne
  <1>3. Carries'
    BY <1>1, <1>2, TakeJobsCarries DEF HandoutInv
  <1>4. CASE StillQueued(j)
    <2>. DEFINE row == HandedTo(job[j], at[h].a, Len(handed[j]) + 1)
    <2>1. j \in JobIds /\ job[j] \in AnyRow /\ handed[j] \in Seq(Agents)
      BY <1>1 DEF HandoutInv, AnyRows
    <2>2. row \in AnyRow /\ row.st = "CLAIMED"
      BY <1>1, <2>1, HandedAny, LenNat
    <2>. HIDE DEF row
    <2>3. job' = [job EXCEPT ![j] = row] /\ UNCHANGED <<queued, assets>>
      BY <1>2, <1>4 DEF row, ClaimOne
    <2>4. handed' = [handed EXCEPT ![j] = Append(handed[j], at[h].a)]
      BY <1>2, <1>4
    <2>5. Append(handed[j], at[h].a) \in Seq(Agents)
          /\ Len(Append(handed[j], at[h].a)) = Len(handed[j]) + 1
      BY <1>1, <2>1
    <2>6. \A i \in JobIds :
             /\ job'[i] = (IF i = j THEN row ELSE job[i])
             /\ Len(handed'[i]) = (IF i = j THEN Len(handed[i]) + 1 ELSE Len(handed[i]))
             /\ Len(handed[i]) \in Nat /\ queued[i] \in Nat
      BY <2>3, <2>4, <2>5 DEF HandoutInv, AnyRows
    <2>7. Ahead'
      <3>1. SUFFICES ASSUME NEW i \in JobIds
                     PROVE  IF job'[i].st = "QUEUED" THEN Len(handed'[i]) < queued[i]
                                                     ELSE Len(handed'[i]) <= queued[i]
        BY <2>3 DEF Ahead
      <3>2. IF job[i].st = "QUEUED" THEN Len(handed[i]) < queued[i]
                                    ELSE Len(handed[i]) <= queued[i]
        BY DEF HandoutInv, AnyRows, Ahead
      <3>3. CASE i = j
        BY <1>4, <2>2, <2>6, <3>2, <3>3 DEF StillQueued
      <3>4. CASE i # j
        BY <2>6, <3>2, <3>4
      <3>. QED BY <3>3, <3>4
    <2>8. AnyRows'
      BY <2>2, <2>3, <2>4, <2>5, <2>7 DEF HandoutInv, AnyRows
    <2>. QED BY <1>3, <2>8 DEF HandoutInv
  <1>5. CASE ~StillQueued(j)
    BY <1>2, <1>3, <1>5, SameAnyRows DEF HandoutInv, ClaimOne, rows
  <1>. QED BY <1>4, <1>5

LEMMA ReaperHands ==
    ASSUME HandoutInv, NEW h \in Handlers, ReclaimOne(h) \/ MarkStale(h)
    PROVE  HandoutInv'
  <1>1. at[h].k = "reclaim" /\ CarriesOf(at[h])
    BY DEF HandoutInv, Carries, ReclaimOne, MarkStale
  <1>2. CASE ReclaimOne(h)
    <2>1. PICK o \in at[h].left :
             /\ IF StillClaimed(o.j) THEN Save(o.j, Failed(job[o.j], o.attempts + 1))
                ELSE UNCHANGED rows
             /\ Goto(h, ReclaimStep(at[h].left \ {o}, at[h].scope, at[h].a))
      BY <1>2 DEF ReclaimOne
    <2>2. o.j \in JobIds /\ o.attempts \in Nat
      BY <1>1 DEF CarriesOf
    <2>3. Failed(job[o.j], o.attempts + 1) \in AnyRow
      <3>1. job[o.j] \in AnyRow /\ o.attempts + 1 \in Nat
        BY <2>2 DEF HandoutInv, AnyRows
      <3>. QED BY <3>1, FailedAny
    <2>4. AnyRows'
      BY <2>1, <2>2, <2>3, Saved, SameAnyRows DEF HandoutInv
    <2>5. CarriesOf(ReclaimStep(at[h].left \ {o}, at[h].scope, at[h].a))
      BY <1>1 DEF CarriesOf, ReclaimStep
    <2>6. Carries'
      BY <2>1, <2>5, Carried DEF HandoutInv
    <2>. QED BY <2>4, <2>6 DEF HandoutInv
  <1>3. CASE MarkStale(h)
    <2>. DEFINE S == Stale(at[h].scope)
    <2>1. job' = [j \in JobIds |-> IF j \in S THEN [job[j] EXCEPT !.st = "STALE", !.token = 0]
                                   ELSE job[j]]
      BY <1>3 DEF MarkStale
    <2>. HIDE DEF S
    <2>2. \A j \in JobIds : /\ [job[j] EXCEPT !.st = "STALE", !.token = 0] \in AnyRow
                            /\ [job[j] EXCEPT !.st = "STALE", !.token = 0].st = "STALE"
      BY DEF HandoutInv, AnyRows, AnyRow
    <2>3. /\ job' \in [JobIds -> AnyRow]
          /\ \A j \in JobIds : job'[j].st = "QUEUED" => job[j].st = "QUEUED"
      BY <2>1, <2>2 DEF HandoutInv, AnyRows
    <2>4. AnyRows'
      BY <1>3, <2>3, Rewritten DEF HandoutInv, AnyRows, MarkStale
    <2>5. CASE at[h].a = None
      BY <1>3, <2>4, <2>5, Finished DEF HandoutInv, MarkStale
    <2>6. CASE at[h].a # None
      <3>1. CarriesOf(CandidatesStep(at[h].a)) /\ Goto(h, CandidatesStep(at[h].a))
        BY <1>1, <1>3, <2>6 DEF CarriesOf, CandidatesStep, MarkStale
      <3>. QED BY <2>4, <3>1, Carried DEF HandoutInv
    <2>. QED BY <2>5, <2>6
  <1>. QED BY <1>2, <1>3

LEMMA ReadsHand ==
    ASSUME HandoutInv, NEW h \in Handlers, ReadCandidates(h) \/ ReportRead(h)
    PROVE  HandoutInv'
  <1>1. AnyRows' /\ CarriesOf(at[h])
    BY SameAnyRows DEF HandoutInv, Carries, ReadCandidates, ReportRead
  <1>2. CASE ReadCandidates(h)
    <2>1. at[h].a \in Agents /\ Candidates(at[h].a) \in SUBSET JobIds
      BY <1>1, <1>2 DEF CarriesOf, ReadCandidates, Candidates, Queue
    <2>. QED BY <1>1, <1>2, <2>1, TakeJobsCarries DEF HandoutInv, ReadCandidates
  <1>3. CASE ReportRead(h)
    <2>1. at[h].j \in JobIds /\ at[h].r \in Reports
      BY <1>1, <1>3 DEF CarriesOf, ReportRead
    <2>. DEFINE step == [k |-> "reportTx", j |-> at[h].j, n |-> at[h].n, r |-> at[h].r,
                         attempts |-> job[at[h].j].attempts]
    <2>2. CarriesOf(step)
      BY <2>1 DEF CarriesOf, HandoutInv, AnyRows, AnyRow
    <2>3. Goto(h, step) \/ Goto(h, Idle)
      BY <1>3 DEF ReportRead
    <2>. HIDE DEF step
    <2>. QED BY <1>1, <2>2, <2>3, Carried, Finished DEF HandoutInv
  <1>. QED BY <1>2, <1>3

(* Writes of one row. *)
LEMMA WritesHand ==
    ASSUME HandoutInv, NEW h \in Handlers,
           ReportTx(h) \/ NoFileTx(h) \/ CancelTx(h) \/ ResolveTx(h)
    PROVE  HandoutInv'
  <1>1. CarriesOf(at[h]) /\ at[h].j \in JobIds /\ job[at[h].j] \in AnyRow
    BY DEF HandoutInv, AnyRows, Carries, CarriesOf, ReportTx, NoFileTx, CancelTx, ResolveTx
  <1>2. PICK row : /\ row \in AnyRow
                   /\ Save(at[h].j, row) \/ UNCHANGED rows
    <2>1. CASE ReportTx(h)
      <3>1. at[h].attempts \in Nat
        BY <1>1, <2>1 DEF CarriesOf, ReportTx
      <3>. QED BY <1>1, <2>1, <3>1, ReportedAny DEF ReportTx
    <2>2. CASE NoFileTx(h) \/ CancelTx(h)
      <3>1. \A st \in FinalStatuses : Ended(job[at[h].j], st) \in AnyRow
        BY <1>1, EndedAny
      <3>. QED BY <2>2, <3>1 DEF NoFileTx, CancelTx, FinalStatuses
    <2>3. CASE ResolveTx(h)
      <3>1. at[h].st \in {"DONE", "FAILED"}
        BY <1>1, <2>3 DEF CarriesOf, ResolveTx
      <3>2. [job[at[h].j] EXCEPT !.st = at[h].st] \in AnyRow
        BY <1>1, <3>1 DEF AnyRow, FinalStatuses
      <3>. QED BY <2>3, <3>2 DEF ResolveTx
    <2>. QED BY <2>1, <2>2, <2>3
  <1>3. AnyRows'
    BY <1>1, <1>2, Saved, SameAnyRows DEF HandoutInv
  <1>4. Carries'
    BY Finished DEF HandoutInv, ReportTx, NoFileTx, CancelTx, ResolveTx
  <1>. QED BY <1>3, <1>4 DEF HandoutInv

LEMMA CreateHands ==
    ASSUME HandoutInv, NEW h \in Handlers, CreateTx(h)
    PROVE  HandoutInv'
  <1>1. at[h].a \in Agents \cup {None}
    BY DEF HandoutInv, Carries, CarriesOf, CreateTx
  <1>2. CASE UNCHANGED rows
    BY <1>2, SameAnyRows, Finished DEF HandoutInv, CreateTx
  <1>3. CASE ~UNCHANGED rows
    <2>. DEFINE row == [FreeJob EXCEPT !.st = "QUEUED", !.agent = at[h].a, !.asset = at[h].asset]
    <2>1. PICK j \in JobIds : Save(j, row)
      BY <1>3 DEF CreateTx
    <2>2. at[h].asset \in Assets
      BY <1>3 DEF CreateTx, HandoutInv, AnyRows
    <2>3. row \in AnyRow
      BY <1>1, <2>2, SomeRows DEF AnyRow, ActiveStatuses
    <2>. HIDE DEF row
    <2>4. AnyRows'
      BY <2>1, <2>3, Saved DEF HandoutInv
    <2>. QED BY <2>4, Finished DEF HandoutInv, CreateTx
  <1>. QED BY <1>2, <1>3

(* Writes of many rows. *)
LEMMA DropsHand ==
    ASSUME HandoutInv, NEW h \in Handlers, DropAgentTx(h) \/ DropAssetsTx(h)
    PROVE  HandoutInv'
  <1>1. Carries'
    BY Finished DEF HandoutInv, DropAgentTx, DropAssetsTx
  <1>2. CASE DropAgentTx(h)
    <2>. DEFINE S == {j \in JobIds : job[j].agent = at[h].a}
    <2>1. job' = [j \in JobIds |-> IF j \in S THEN [job[j] EXCEPT !.agent = None] ELSE job[j]]
      BY <1>2 DEF DropAgentTx
    <2>. HIDE DEF S
    <2>2. \A j \in JobIds : /\ [job[j] EXCEPT !.agent = None] \in AnyRow
                            /\ [job[j] EXCEPT !.agent = None].st = job[j].st
      BY DEF HandoutInv, AnyRows, AnyRow
    <2>3. /\ job' \in [JobIds -> AnyRow]
          /\ \A j \in JobIds : job'[j].st = "QUEUED" => job[j].st = "QUEUED"
      BY <2>1, <2>2 DEF HandoutInv, AnyRows
    <2>. QED BY <1>1, <1>2, <2>3, Rewritten DEF HandoutInv, AnyRows, DropAgentTx
  <1>3. CASE DropAssetsTx(h)
    <2>. DEFINE S == {j \in JobIds : job[j].asset \in at[h].X}
    <2>1. job' = [j \in JobIds |-> IF j \in S THEN GoneJob ELSE job[j]]
      BY <1>3 DEF DropAssetsTx
    <2>. HIDE DEF S
    <2>2. /\ job' \in [JobIds -> AnyRow]
          /\ \A j \in JobIds : job'[j].st = "QUEUED" => job[j].st = "QUEUED"
      BY <2>1, SomeRows DEF HandoutInv, AnyRows
    <2>. QED BY <1>1, <1>3, <2>2, Rewritten DEF HandoutInv, AnyRows, DropAssetsTx
  <1>. QED BY <1>2, <1>3

LEMMA OthersHand ==
    ASSUME HandoutInv, UpdateAgent \/ Prune \/ Expire \/ OpenWindow
    PROVE  HandoutInv'
  <1>1. Carries'
    BY AtUnchanged DEF HandoutInv, UpdateAgent, Prune, Expire, OpenWindow
  <1>2. CASE UpdateAgent
    <2>1. AnyRows'
      BY <1>2 DEF HandoutInv, AnyRows, Ahead, UpdateAgent
    <2>. QED BY <1>1, <2>1 DEF HandoutInv
  <1>3. CASE Prune
    <2>1. PICK J : job' = [j \in JobIds |-> IF j \in J THEN GoneJob ELSE job[j]]
      BY <1>3 DEF Prune
    <2>2. /\ job' \in [JobIds -> AnyRow]
          /\ \A j \in JobIds : job'[j].st = "QUEUED" => job[j].st = "QUEUED"
      BY <2>1, SomeRows DEF HandoutInv, AnyRows
    <2>. QED BY <1>1, <1>3, <2>2, Rewritten DEF HandoutInv, AnyRows, Prune
  <1>4. CASE Expire
    <2>1. PICK j \in JobIds : job' = [job EXCEPT ![j].lease = "expired"]
      BY <1>4 DEF Expire
    <2>2. /\ [job[j] EXCEPT !.lease = "expired"] \in AnyRow
          /\ [job[j] EXCEPT !.lease = "expired"].st = job[j].st
      BY DEF HandoutInv, AnyRows, AnyRow
    <2>3. /\ job' \in [JobIds -> AnyRow]
          /\ \A i \in JobIds : job'[i].st = "QUEUED" => job[i].st = "QUEUED"
      BY <2>1, <2>2 DEF HandoutInv, AnyRows
    <2>. QED BY <1>1, <1>4, <2>3, Rewritten DEF HandoutInv, AnyRows, Expire
  <1>5. CASE OpenWindow
    BY <1>1, <1>5, SameAnyRows DEF HandoutInv, OpenWindow
  <1>. QED BY <1>2, <1>3, <1>4, <1>5

-----------------------------------------------------------------------------
(* Theorem *)

LEMMA InitHands == Init => HandoutInv
  <1>. SUFFICES ASSUME Init PROVE HandoutInv
    OBVIOUS
  <1>1. \A j \in JobIds : job[j].st = "FREE" /\ Len(handed[j]) = 0 /\ queued[j] = 0
    BY DEF Init, FreeJob
  <1>2. AnyRows
    BY <1>1, SomeRows DEF Init, AnyRows, Ahead
  <1>3. Carries
    BY DEF Init, Carries, CarriesOf, Idle
  <1>. QED BY <1>2, <1>3 DEF HandoutInv

LEMMA NextHands ==
    ASSUME HandoutInv, [Next]_vars
    PROVE  HandoutInv'
  <1>1. ASSUME NEW h \in Handlers, Step(h) PROVE HandoutInv'
    BY <1>1, ClaimOneHands, ReaperHands, ReadsHand, WritesHand, CreateHands, DropsHand DEF Step
  <1>2. ASSUME NEW h \in Handlers, Crash(h) PROVE HandoutInv'
    BY <1>2, SameAnyRows, Finished DEF HandoutInv, Crash
  <1>3. ASSUME NEW h \in Handlers, NEW a \in Agents, Poll(h, a) PROVE HandoutInv'
    <2>1. CASE StartReaper(h, {TenantOf[a]}, a)
      BY <1>3, <2>1, StartReaperCarries, SameAnyRows DEF HandoutInv, Poll
    <2>2. CASE Goto(h, CandidatesStep(a))
      <3>1. CarriesOf(CandidatesStep(a))
        BY DEF CarriesOf, CandidatesStep
      <3>. QED BY <1>3, <2>2, <3>1, Carried, SameAnyRows DEF HandoutInv, Poll
    <2>. QED BY <1>3, <2>1, <2>2 DEF Poll
  <1>4. CASE UNCHANGED vars
    BY <1>4, SameAnyRows, AtUnchanged DEF HandoutInv, vars, rows
  <1>. QED BY <1>1, <1>2, <1>3, <1>4, RequestCarries, OthersHand DEF Next

(* claimPrintJobs: a job is handed out at most as often as it entered the  *)
(* queue, with any number of requests and any interleaving.                *)
THEOREM QueuedIsHandedOnce == Spec => []HandedOutOnce
  <1>1. HandoutInv => HandedOutOnce
    <2>1. \A j \in JobIds : AnyRows => Len(handed[j]) \in Nat /\ queued[j] \in Nat
      BY DEF AnyRows
    <2>. QED BY <2>1 DEF HandoutInv, AnyRows, Ahead, HandedOutOnce
  <1>2. HandoutInv /\ [Next]_vars => HandoutInv'
    BY NextHands
  <1>. QED BY <1>1, <1>2, InitHands, PTL DEF Spec

-----------------------------------------------------------------------------
(***************************************************************************)
(* What a step may do to a job that was sent to a printer, and who deletes *)
(* jobs, with any number of requests.                                      *)
(***************************************************************************)

(* A job that was sent to a printer goes back to the queue. *)
ReportsFailure(j) == \E h \in Handlers : at[h].k = "reportTx" /\ at[h].j = j /\ at[h].r = "FAILED"
MayRequeue(j) == job[j].st \in {"PRINTING", "STALE"} => ReportsFailure(j)

(* A row goes with its file, or with the history when it has ended. *)
Drops(j) == \E h \in Handlers : at[h].k = "dropAssets" /\ job[j].asset \in at[h].X
MayDelete(j) == job[j].st \in {"DELETED"} \cup FinalStatuses \/ Drops(j)

JobsMove ==
    \A j \in JobIds :
        /\ job'[j].st = "QUEUED" => job[j].st = "QUEUED" \/ MayRequeue(j)
        /\ job'[j].st = "DELETED" => MayDelete(j)

LEMMA SameJobs ==
    ASSUME UNCHANGED job
    PROVE  JobsMove
  BY DEF JobsMove, MayDelete

LEMMA SavedJob ==
    ASSUME AnyRows, NEW j \in JobIds, NEW row, Save(j, row),
           row.st = "QUEUED" => MayRequeue(j), row.st # "DELETED"
    PROVE  JobsMove
  <1>1. \A i \in JobIds : job'[i] = IF i = j THEN row ELSE job[i]
    BY DEF AnyRows, Save
  <1>. QED BY <1>1 DEF JobsMove, MayDelete

LEMMA EndedSt ==
    ASSUME NEW row \in AnyRow, NEW st
    PROVE  Ended(row, st).st = st
  BY DEF Ended, AnyRow

LEMMA FailedSt ==
    ASSUME NEW row \in AnyRow, NEW n
    PROVE  Failed(row, n).st \in {"QUEUED", "FAILED"}
  <1>. DEFINE st == IF n >= MaxAttempts THEN "FAILED" ELSE "QUEUED"
  <1>1. st \in {"FAILED", "QUEUED"}
    OBVIOUS
  <1>2. Failed(row, n) = [Ended(row, st) EXCEPT !.attempts = n]
    BY DEF Failed
  <1>. HIDE DEF st
  <1>3. Failed(row, n).st = st
    BY <1>2 DEF Ended, AnyRow
  <1>. QED BY <1>1, <1>3

LEMMA ReaperJobs ==
    ASSUME HandoutInv, NEW h \in Handlers, ReclaimOne(h) \/ MarkStale(h)
    PROVE  JobsMove
  <1>1. CASE ReclaimOne(h)
    <2>1. PICK o \in at[h].left :
             IF StillClaimed(o.j) THEN Save(o.j, Failed(job[o.j], o.attempts + 1))
             ELSE UNCHANGED rows
      BY <1>1 DEF ReclaimOne
    <2>2. o.j \in JobIds
      BY <1>1 DEF HandoutInv, Carries, CarriesOf, ReclaimOne
    <2>3. CASE StillClaimed(o.j)
      <3>1. job[o.j] \in AnyRow
        BY <2>2 DEF HandoutInv, AnyRows
      <3>2. Failed(job[o.j], o.attempts + 1).st \in {"QUEUED", "FAILED"}
        BY <3>1, FailedSt
      <3>3. MayRequeue(o.j)
        BY <2>3 DEF MayRequeue, StillClaimed
      <3>. QED BY <2>1, <2>2, <2>3, <3>2, <3>3, SavedJob DEF HandoutInv
    <2>4. CASE ~StillClaimed(o.j)
      BY <2>1, <2>4, SameJobs DEF rows
    <2>. QED BY <2>3, <2>4
  <1>2. CASE MarkStale(h)
    <2>. DEFINE S == Stale(at[h].scope)
    <2>1. job' = [j \in JobIds |-> IF j \in S THEN [job[j] EXCEPT !.st = "STALE", !.token = 0]
                                   ELSE job[j]]
      BY <1>2 DEF MarkStale
    <2>. HIDE DEF S
    <2>2. \A j \in JobIds : [job[j] EXCEPT !.st = "STALE", !.token = 0].st = "STALE"
      BY DEF HandoutInv, AnyRows, AnyRow
    <2>3. \A j \in JobIds : job'[j] = job[j] \/ job'[j].st = "STALE"
      BY <2>1, <2>2
    <2>. QED BY <2>3 DEF JobsMove, MayDelete
  <1>. QED BY <1>1, <1>2

LEMMA ClaimJobs ==
    ASSUME HandoutInv, NEW h \in Handlers, ClaimOne(h)
    PROVE  JobsMove
  <1>1. PICK j \in at[h].left :
           \/ job' = [job EXCEPT ![j] = HandedTo(@, at[h].a, Len(handed[j]) + 1)]
           \/ UNCHANGED job
    BY DEF ClaimOne
  <1>2. j \in JobIds /\ at[h].a \in Agents
    BY DEF HandoutInv, Carries, CarriesOf, ClaimOne
  <1>3. CASE job' = [job EXCEPT ![j] = HandedTo(@, at[h].a, Len(handed[j]) + 1)]
    <2>1. job[j] \in AnyRow /\ Len(handed[j]) + 1 \in Nat
      BY <1>2, LenNat DEF HandoutInv, AnyRows
    <2>2. HandedTo(job[j], at[h].a, Len(handed[j]) + 1).st = "CLAIMED"
      BY <1>2, <2>1, HandedAny
    <2>3. \A i \in JobIds : job'[i] = job[i] \/ job'[i].st = "CLAIMED"
      BY <1>3, <2>2 DEF HandoutInv, AnyRows
    <2>. QED BY <2>3 DEF JobsMove, MayDelete
  <1>. QED BY <1>1, <1>3, SameJobs

LEMMA WrittenJobs ==
    ASSUME HandoutInv, NEW h \in Handlers,
           ReportTx(h) \/ NoFileTx(h) \/ CancelTx(h) \/ ResolveTx(h)
    PROVE  JobsMove
  <1>. DEFINE j == at[h].j
  <1>1. CarriesOf(at[h]) /\ j \in JobIds /\ job[j] \in AnyRow
    BY DEF HandoutInv, AnyRows, Carries, CarriesOf, ReportTx, NoFileTx, CancelTx, ResolveTx
  <1>2. CASE UNCHANGED rows
    BY <1>2, SameJobs DEF rows
  <1>3. CASE ReportTx(h) /\ Save(j, Reported(job[j], at[h]))
    <2>1. at[h].r \in Reports
      BY <1>1, <1>3 DEF CarriesOf, ReportTx
    <2>2. CASE at[h].r = "FAILED"
      <3>1. Reported(job[j], at[h]).st \in {"QUEUED", "FAILED"}
        BY <1>1, <2>2, FailedSt DEF Reported
      <3>2. MayRequeue(j)
        BY <1>3, <2>2 DEF MayRequeue, ReportsFailure, ReportTx
      <3>. QED BY <1>1, <1>3, <3>1, <3>2, SavedJob DEF HandoutInv
    <2>3. CASE at[h].r = "PRINTING"
      <3>1. Reported(job[j], at[h]).st = "PRINTING"
        BY <1>1, <2>3 DEF Reported, AnyRow
      <3>. QED BY <1>1, <1>3, <3>1, SavedJob DEF HandoutInv
    <2>4. CASE at[h].r \in {"DONE", "REJECTED"}
      <3>1. Reported(job[j], at[h]).st \in {"DONE", "FAILED"}
        BY <1>1, <2>4, EndedSt DEF Reported
      <3>. QED BY <1>1, <1>3, <3>1, SavedJob DEF HandoutInv
    <2>. QED BY <2>1, <2>2, <2>3, <2>4 DEF Reports
  <1>4. CASE \E st \in {"FAILED", "CANCELLED"} : Save(j, Ended(job[j], st))
    <2>1. PICK st \in {"FAILED", "CANCELLED"} : Save(j, Ended(job[j], st))
      BY <1>4
    <2>2. Ended(job[j], st).st = st
      BY <1>1, EndedSt
    <2>. QED BY <1>1, <2>1, <2>2, SavedJob DEF HandoutInv
  <1>5. CASE ResolveTx(h) /\ Save(j, [job[j] EXCEPT !.st = at[h].st])
    <2>1. at[h].st \in {"DONE", "FAILED"}
      BY <1>1, <1>5 DEF CarriesOf, ResolveTx
    <2>2. [job[j] EXCEPT !.st = at[h].st].st = at[h].st
      BY <1>1 DEF AnyRow
    <2>. QED BY <1>1, <1>5, <2>1, <2>2, SavedJob DEF HandoutInv
  <1>6. \/ UNCHANGED rows
        \/ ReportTx(h) /\ Save(j, Reported(job[j], at[h]))
        \/ \E st \in {"FAILED", "CANCELLED"} : Save(j, Ended(job[j], st))
        \/ ResolveTx(h) /\ Save(j, [job[j] EXCEPT !.st = at[h].st])
    <2>1. CASE ReportTx(h)
      BY <2>1 DEF ReportTx
    <2>2. CASE NoFileTx(h) \/ CancelTx(h)
      BY <2>2 DEF NoFileTx, CancelTx
    <2>3. CASE ResolveTx(h)
      BY <2>3 DEF ResolveTx
    <2>. QED BY <2>1, <2>2, <2>3
  <1>. QED BY <1>2, <1>3, <1>4, <1>5, <1>6

LEMMA CreatedJobs ==
    ASSUME HandoutInv, NEW h \in Handlers, CreateTx(h)
    PROVE  JobsMove
  <1>1. CASE UNCHANGED rows
    BY <1>1, SameJobs DEF rows
  <1>2. CASE ~UNCHANGED rows
    <2>. DEFINE row == [FreeJob EXCEPT !.st = "QUEUED", !.agent = at[h].a, !.asset = at[h].asset]
    <2>1. PICK j \in JobIds : IsFirstFree(j) /\ Save(j, row)
      BY <1>2 DEF CreateTx
    <2>2. row.st = "QUEUED"
      BY DEF FreeJob
    <2>3. MayRequeue(j)
      BY <2>1 DEF MayRequeue, IsFirstFree
    <2>. HIDE DEF row
    <2>. QED BY <2>1, <2>2, <2>3, SavedJob DEF HandoutInv
  <1>. QED BY <1>1, <1>2

LEMMA DroppedJobs ==
    ASSUME HandoutInv, NEW h \in Handlers, DropAgentTx(h) \/ DropAssetsTx(h)
    PROVE  JobsMove
  <1>1. CASE DropAgentTx(h)
    <2>. DEFINE S == {j \in JobIds : job[j].agent = at[h].a}
    <2>1. job' = [j \in JobIds |-> IF j \in S THEN [job[j] EXCEPT !.agent = None] ELSE job[j]]
      BY <1>1 DEF DropAgentTx
    <2>. HIDE DEF S
    <2>2. \A j \in JobIds : [job[j] EXCEPT !.agent = None].st = job[j].st
      BY DEF HandoutInv, AnyRows, AnyRow
    <2>3. \A j \in JobIds : job'[j].st = job[j].st
      BY <2>1, <2>2
    <2>. QED BY <2>3 DEF JobsMove, MayDelete
  <1>2. CASE DropAssetsTx(h)
    <2>1. \A j \in JobIds : job'[j] = IF job[j].asset \in at[h].X THEN GoneJob ELSE job[j]
      BY <1>2 DEF DropAssetsTx
    <2>2. at[h].k = "dropAssets"
      BY <1>2 DEF DropAssetsTx
    <2>. QED BY <2>1, <2>2, SomeRows DEF JobsMove, MayDelete, Drops
  <1>. QED BY <1>1, <1>2

LEMMA OtherJobs ==
    ASSUME HandoutInv, UpdateAgent \/ Prune \/ Expire \/ OpenWindow
    PROVE  JobsMove
  <1>1. CASE UpdateAgent \/ OpenWindow
    BY <1>1, SameJobs DEF UpdateAgent, OpenWindow, rows
  <1>2. CASE Prune
    <2>1. PICK J \in SUBSET {j \in JobIds : job[j].st \in FinalStatuses} :
             job' = [j \in JobIds |-> IF j \in J THEN GoneJob ELSE job[j]]
      BY <1>2 DEF Prune
    <2>2. \A j \in JobIds : IF j \in J THEN job'[j] = GoneJob /\ job[j].st \in FinalStatuses
                                       ELSE job'[j] = job[j]
      BY <2>1
    <2>. QED BY <2>2, SomeRows DEF JobsMove, MayDelete
  <1>3. CASE Expire
    <2>1. PICK j \in JobIds : job' = [job EXCEPT ![j].lease = "expired"]
      BY <1>3 DEF Expire
    <2>2. \A i \in JobIds : job'[i].st = job[i].st
      BY <2>1 DEF HandoutInv, AnyRows, AnyRow
    <2>. QED BY <2>2 DEF JobsMove, MayDelete
  <1>. QED BY <1>1, <1>2, <1>3

(* Every step of any number of requests. *)
LEMMA NextJobs ==
    ASSUME HandoutInv, [Next]_vars
    PROVE  JobsMove
  <1>1. ASSUME NEW h \in Handlers, Request(h) PROVE JobsMove
    BY <1>1, SameJobs DEF Request, List, Report, Download, Create, Retry, Cancel, Resolve,
       DeleteAgent, CleanCase, Begin, rows
  <1>2. ASSUME NEW h \in Handlers, Step(h) PROVE JobsMove
    <2>1. CASE ReadCandidates(h) \/ ReportRead(h)
      BY <2>1, SameJobs DEF ReadCandidates, ReportRead, rows
    <2>. QED BY <1>2, <2>1, ReaperJobs, ClaimJobs, WrittenJobs, CreatedJobs, DroppedJobs DEF Step
  <1>3. ASSUME NEW h \in Handlers, Crash(h) \/ \E a \in Agents : Poll(h, a) PROVE JobsMove
    BY <1>3, SameJobs DEF Crash, Poll, rows
  <1>4. CASE UNCHANGED vars
    BY <1>4, SameJobs DEF vars
  <1>. QED BY <1>1, <1>2, <1>3, <1>4, OtherJobs DEF Next

(* reclaimStalePrintJobs: however many requests are served at once, and    *)
(* however late the reaper writes what it has read, a job that was sent to *)
(* a printer returns to the queue only when its agent reports a failure.   *)
THEOREM PrintedIsNotRepeated == Spec => NoAutomaticReprint
  <1>1. HandoutInv /\ [Next]_vars =>
          [\A j \in JobIds : job[j].st \in {"PRINTING", "STALE"} /\ job'[j].st = "QUEUED" =>
              \E h \in Handlers : at[h].k = "reportTx" /\ at[h].j = j /\ at[h].r = "FAILED"]_vars
    BY NextJobs DEF JobsMove, MayRequeue, ReportsFailure
  <1>2. HandoutInv /\ [Next]_vars => HandoutInv'
    BY NextHands
  <1>. QED BY <1>1, <1>2, InitHands, PTL DEF Spec, NoAutomaticReprint

(* deleteCasePrintAssets, pruneJobHistory: with one request at a time a    *)
(* job that waits or is being printed is deleted neither with its file nor *)
(* with the history.                                                       *)
THEOREM ActiveJobsStay ==
    ASSUME OneAtATime
    PROVE  Spec => ActiveJobsSurvive
  <1>1. HandoutInv /\ QueueInv /\ [Next]_vars =>
          [\A j \in JobIds : job[j].st \in ActiveStatuses => job'[j].st # "DELETED"]_vars
    <2>1. \A st \in ActiveStatuses : st \notin {"DELETED"} \cup FinalStatuses
      BY DEF ActiveStatuses, FinalStatuses
    <2>2. ASSUME QueueInv, NEW j \in JobIds, Drops(j) PROVE job[j].st \notin ActiveStatuses
      BY <2>2 DEF Drops, QueueInv, Reads, ReadsOf
    <2>. QED BY <2>1, <2>2, NextJobs DEF JobsMove, MayDelete
  <1>2. HandoutInv /\ [Next]_vars => HandoutInv'
    BY NextHands
  <1>3. Spec => []QueueInv
    BY Inductive, PTL
  <1>. QED BY <1>1, <1>2, <1>3, InitHands, PTL DEF Spec, ActiveJobsSurvive
=============================================================================
