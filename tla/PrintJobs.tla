----------------------------- MODULE PrintJobs -----------------------------
(***************************************************************************)
(* The print queue: jobs that operators create in the panel and that print *)
(* agents on the customers' premises poll for, print and report on.        *)
(*                                                                         *)
(* A handler is one HTTP request that is being served.  A step ends where  *)
(* the code awaits the database; every statement is a transaction of its   *)
(* own.  The reads by which a request begins are one step.  What it has    *)
(* read is in its step record at[h].  A claim token is the number of the   *)
(* handout it was made for: token n of job j went to agent handed[j][n],   *)
(* who may use it at any time, any number of times, or never.              *)
(*                                                                         *)
(* All jobs have one profile, which every agent knows, and one priority.   *)
(***************************************************************************)
EXTENDS Integers, Sequences, FiniteSets

CONSTANTS
    Handlers,       \* requests that are served at the same time
    Agents,         \* print agents
    Assets,         \* PDF_PRINT files
    Tenants,
    TenantOf,       \* tenant of every agent and every file
    JobIds,         \* job rows, numbered in the order of creation
    None,           \* no agent, no file, no request
    MaxAttempts,    \* PrintJob.maxAttempts
    ClaimLimit,     \* jobs an agent asks for at once
    Requests,       \* kinds of requests that are made
    MaxRequests,    \* bound: requests made, apart from polls, and failures
    MaxHandouts     \* bound: times a job is seen by a poll

ASSUME IdsAssumption ==
    /\ JobIds \subseteq Nat
    /\ None \notin Agents \cup Assets
ASSUME TenantsAssumption == TenantOf \in [Agents \cup Assets -> Tenants]
ASSUME LimitsAssumption ==
    /\ MaxAttempts \in Nat \ {0} /\ ClaimLimit \in 1..5
    /\ MaxRequests \in Nat /\ MaxHandouts \in Nat

ActiveStatuses == {"QUEUED", "CLAIMED", "PRINTING"}
FinalStatuses  == {"DONE", "FAILED", "CANCELLED"}
LeasedStatuses == {"CLAIMED", "PRINTING"}
Reports        == {"PRINTING", "DONE", "FAILED", "REJECTED"}

VARIABLES
    job,        \* PrintJob rows
    handed,     \* agents every job was handed to, in order (not in the code)
    queued,     \* times every job entered the queue (not in the code)
    agents,     \* status of the PrintAgent rows
    assets,     \* the files that have an Asset row
    window,     \* REAPER_THROTTLE_MS have passed since lastReaperRun
    at,         \* the step every handler is about to take
    budget      \* requests that can still be made

rows == <<job, handed, queued, agents, assets>>
vars == <<job, handed, queued, agents, assets, window, at, budget>>

Idle == [k |-> "idle"]
Goto(h, step) == at' = [at EXCEPT ![h] = step]

(* lease: claimExpiresAt is null, in the future, or past. *)
FreeJob == [st |-> "FREE", agent |-> None, asset |-> None, token |-> 0,
            lease |-> "none", attempts |-> 0]
GoneJob == [FreeJob EXCEPT !.st = "DELETED"]
(* A bound: a job is created only while a row is left in JobIds. *)
RowsLeft == \E j \in JobIds : job[j].st = "FREE"
Exists(j) == job[j].st \notin {"FREE", "DELETED"}
IsFirstFree(j) == job[j].st = "FREE" /\ \A i \in JobIds : job[i].st = "FREE" => j <= i
Ended(row, st) == [row EXCEPT !.st = st, !.token = 0, !.lease = "none"]

(* Fault: the last attempt is not the last. *)
FailedOnceMore(row, attempts) ==
    [Ended(row, IF attempts > MaxAttempts THEN "FAILED" ELSE "QUEUED")
        EXCEPT !.attempts = attempts]
(* A failed attempt ends the job or puts it back into the queue. *)
Failed(row, attempts) ==
    [Ended(row, IF attempts >= MaxAttempts THEN "FAILED" ELSE "QUEUED")
        EXCEPT !.attempts = attempts]

Save(j, row) ==
    /\ job' = [job EXCEPT ![j] = row]
    /\ queued' = [queued EXCEPT ![j] =
                     IF row.st = "QUEUED" /\ job[j].st # "QUEUED" THEN @ + 1 ELSE @]
    /\ UNCHANGED <<handed, agents, assets>>

(* A request of a kind that is bounded. *)
Asked(kind) == kind \in Requests /\ budget > 0 /\ budget' = budget - 1
Begin(h, kind) == at[h] = Idle /\ Asked(kind) /\ UNCHANGED <<rows, window>>

-----------------------------------------------------------------------------
(* Polling and the reaper *)

(* What the reaper's findMany returns, for the tenants in its scope. *)
Expired(st, scope) == {j \in JobIds : /\ job[j].st = st
                                      /\ job[j].lease = "expired"
                                      /\ TenantOf[job[j].asset] \in scope}
Orphans(scope) == {[j |-> j, attempts |-> job[j].attempts] : j \in Expired("CLAIMED", scope)}

ReclaimStep(left, scope, a) == [k |-> "reclaim", left |-> left, scope |-> scope, a |-> a]
CandidatesStep(a) == [k |-> "candidates", a |-> a]

(* reclaimStalePrintJobs starts only when the throttle, which all tenants  *)
(* share, has run out.                                                     *)
StartReaper(h, scope, agent) ==
    /\ window
    /\ window' = FALSE
    /\ Goto(h, ReclaimStep(Orphans(scope), scope, agent))

(* The queued jobs of the agent, or of nobody, oldest first. *)
Queue(a) == {j \in JobIds : /\ job[j].st = "QUEUED"
                            /\ TenantOf[job[j].asset] = TenantOf[a]
                            /\ job[j].agent \in {a, None}
                            /\ Len(handed[j]) < MaxHandouts}
Candidates(a) == {j \in Queue(a) :
                    Cardinality({i \in Queue(a) : i < j}) < 3 * ClaimLimit}
TakeJobs(h, a, left, n) ==
    Goto(h, IF left = {} \/ n = 0 THEN Idle ELSE [k |-> "claim", a |-> a, left |-> left, n |-> n])

(* claimPrintJobs, called by an agent that polls. *)
Poll(h, a) ==
    /\ at[h] = Idle
    /\ agents[a] = "ACTIVE"
    /\ \/ StartReaper(h, {TenantOf[a]}, a)
       \/ ~window /\ Goto(h, CandidatesStep(a)) /\ UNCHANGED window
    /\ UNCHANGED <<rows, budget>>

(* listPrintJobs: the user's tenant, or all of them for a SUPER_ADMIN.    *)
List(h) ==
    /\ "list" \in Requests
    /\ at[h] = Idle
    /\ \E scope \in {Tenants} \cup {{t} : t \in Tenants} : StartReaper(h, scope, None)
    /\ UNCHANGED <<rows, budget>>

(* The conditional updateMany of the reaper. *)
(* Fault: it updates the row it has read, whatever its status is now. *)
StillClaimedUnchecked(j) == Exists(j)
StillClaimed(j) == job[j].st = "CLAIMED"
ReclaimOne(h) ==
    /\ at[h].k = "reclaim"
    /\ \E o \in at[h].left :
          /\ IF StillClaimed(o.j)
             THEN Save(o.j, Failed(job[o.j], o.attempts + 1))
             ELSE UNCHANGED rows
          /\ Goto(h, ReclaimStep(at[h].left \ {o}, at[h].scope, at[h].a))
    /\ UNCHANGED <<window, budget>>

(* Its last statement: prints nobody reports on wait for an operator.  The *)
(* leases that run out while the reaper works count as expired, too.       *)
(* Fault: only jobs that were not started are looked after. *)
StaleNone(scope) == Expired("FREE", scope)
Stale(scope) == Expired("PRINTING", scope)
MarkStale(h) ==
    /\ at[h].k = "reclaim"
    /\ at[h].left = {}
    /\ job' = [j \in JobIds |-> IF j \in Stale(at[h].scope)
                                THEN [job[j] EXCEPT !.st = "STALE", !.token = 0]
                                ELSE job[j]]
    /\ Goto(h, IF at[h].a = None THEN Idle ELSE CandidatesStep(at[h].a))
    /\ UNCHANGED <<handed, queued, agents, assets, window, budget>>

ReadCandidates(h) ==
    /\ at[h].k = "candidates"
    /\ TakeJobs(h, at[h].a, Candidates(at[h].a), ClaimLimit)
    /\ UNCHANGED <<rows, window, budget>>

(* The conditional updateMany of claimPrintJobs. *)
(* Fault: findMany and update. *)
StillQueuedUnchecked(j) == Exists(j)
StillQueued(j) == job[j].st = "QUEUED"
HandedTo(row, a, token) == [row EXCEPT !.st = "CLAIMED", !.agent = a, !.token = token,
                                       !.lease = "live"]
ClaimOne(h) ==
    /\ at[h].k = "claim"
    /\ \E j \in at[h].left :
          /\ \A i \in at[h].left : j <= i
          /\ IF StillQueued(j)
             THEN /\ handed' = [handed EXCEPT ![j] = Append(@, at[h].a)]
                  /\ job' = [job EXCEPT ![j] = HandedTo(@, at[h].a, Len(handed[j]) + 1)]
                  /\ TakeJobs(h, at[h].a, at[h].left \ {j}, at[h].n - 1)
             ELSE /\ TakeJobs(h, at[h].a, at[h].left \ {j}, at[h].n)
                  /\ UNCHANGED <<job, handed>>
    /\ UNCHANGED <<queued, agents, assets, window, budget>>

-----------------------------------------------------------------------------
(* What agents tell *)

(* getAgentJob *)
(* Fault: any agent that ever had the job may speak for it. *)
AgentJobUnchecked(j, n) ==
    Exists(j) /\ job[j].agent = handed[j][n] /\ job[j].st # "CANCELLED"
AgentJob(j, n) ==
    /\ Exists(j)
    /\ job[j].agent = handed[j][n]
    /\ job[j].st # "CANCELLED"
    /\ job[j].token = n

(* POST /jobs/:id/status, up to the check of the claim token. *)
Report(h) ==
    /\ Begin(h, "report")
    /\ \E j \in JobIds, r \in Reports : \E n \in DOMAIN handed[j] :
          /\ agents[handed[j][n]] = "ACTIVE"
          /\ AgentJob(j, n)
          /\ Goto(h, [k |-> "report", j |-> j, n |-> n, a |-> handed[j][n], r |-> r])

(* reportJobStatus reads the job again, but not its token. *)
ReportRead(h) ==
    /\ at[h].k = "report"
    /\ LET t == at[h]
       IN  IF Exists(t.j) /\ job[t.j].agent = t.a /\ job[t.j].st # "CANCELLED"
           THEN Goto(h, [k |-> "reportTx", j |-> t.j, n |-> t.n, r |-> t.r,
                         attempts |-> job[t.j].attempts])
           ELSE Goto(h, Idle)
    /\ UNCHANGED <<rows, window, budget>>

(* The row its update leaves; it fails if the row is gone. *)
(* Fault: a finished job keeps its token. *)
ReportedKeepingToken(row, t) ==
    IF t.r = "PRINTING" THEN [row EXCEPT !.st = "PRINTING", !.lease = "live"]
    ELSE IF t.r = "DONE" THEN [row EXCEPT !.st = "DONE", !.lease = "none"]
    ELSE IF t.r = "REJECTED" THEN Ended(row, "FAILED")
    ELSE Failed(row, t.attempts + 1)
Reported(row, t) ==
    IF t.r = "PRINTING" THEN [row EXCEPT !.st = "PRINTING", !.lease = "live"]
    ELSE IF t.r = "DONE" THEN Ended(row, "DONE")
    ELSE IF t.r = "REJECTED" THEN Ended(row, "FAILED")
    ELSE Failed(row, t.attempts + 1)
ReportTx(h) ==
    /\ at[h].k = "reportTx"
    /\ IF Exists(at[h].j) THEN Save(at[h].j, Reported(job[at[h].j], at[h])) ELSE UNCHANGED rows
    /\ Goto(h, Idle)
    /\ UNCHANGED <<window, budget>>

(* GET /jobs/:id/file, for a file that is not in the storage any more. *)
Download(h) ==
    /\ Begin(h, "download")
    /\ \E j \in JobIds : \E n \in DOMAIN handed[j] :
          /\ agents[handed[j][n]] = "ACTIVE"
          /\ AgentJob(j, n)
          /\ Goto(h, [k |-> "noFile", j |-> j])
NoFileTx(h) ==
    /\ at[h].k = "noFile"
    /\ IF Exists(at[h].j) THEN Save(at[h].j, Ended(job[at[h].j], "FAILED")) ELSE UNCHANGED rows
    /\ Goto(h, Idle)
    /\ UNCHANGED <<window, budget>>

-----------------------------------------------------------------------------
(* What operators do *)

(* createPrintJob *)
Create(h) ==
    /\ Begin(h, "create")
    /\ RowsLeft
    /\ \E x \in assets, a \in Agents :
          /\ agents[a] = "ACTIVE"
          /\ TenantOf[a] = TenantOf[x]
          /\ Goto(h, [k |-> "create", asset |-> x, a |-> a])

(* retryPrintJob, of a job in any status. *)
Retry(h) ==
    /\ Begin(h, "retry")
    /\ RowsLeft
    /\ \E j \in JobIds : /\ Exists(j)
                         /\ Goto(h, [k |-> "create", asset |-> job[j].asset, a |-> job[j].agent])

(* The insert of both; it fails if what the row refers to is gone. *)
CreateTx(h) ==
    /\ at[h].k = "create"
    /\ IF at[h].asset \in assets /\ (at[h].a = None \/ agents[at[h].a] # "DELETED")
       THEN \E j \in JobIds :
              /\ IsFirstFree(j)
              /\ Save(j, [FreeJob EXCEPT !.st = "QUEUED", !.agent = at[h].a,
                                         !.asset = at[h].asset])
       ELSE UNCHANGED rows
    /\ Goto(h, Idle)
    /\ UNCHANGED <<window, budget>>

(* cancelPrintJob *)
Cancel(h) ==
    /\ Begin(h, "cancel")
    /\ \E j \in JobIds : /\ job[j].st \in ActiveStatuses
                         /\ Goto(h, [k |-> "cancel", j |-> j])
CancelTx(h) ==
    /\ at[h].k = "cancel"
    /\ IF Exists(at[h].j) THEN Save(at[h].j, Ended(job[at[h].j], "CANCELLED")) ELSE UNCHANGED rows
    /\ Goto(h, Idle)
    /\ UNCHANGED <<window, budget>>

(* resolveStaleJob *)
Resolve(h) ==
    /\ Begin(h, "resolve")
    /\ \E j \in JobIds, st \in {"DONE", "FAILED"} :
          /\ job[j].st = "STALE"
          /\ Goto(h, [k |-> "resolve", j |-> j, st |-> st])
ResolveTx(h) ==
    /\ at[h].k = "resolve"
    /\ IF Exists(at[h].j) THEN Save(at[h].j, [job[at[h].j] EXCEPT !.st = at[h].st])
       ELSE UNCHANGED rows
    /\ Goto(h, Idle)
    /\ UNCHANGED <<window, budget>>

-----------------------------------------------------------------------------
(* Administration and clean-up *)

(* updatePrintAgent *)
UpdateAgent ==
    /\ Asked("agents")
    /\ \E a \in Agents, st \in {"ACTIVE", "DISABLED"} :
          /\ agents[a] # "DELETED"
          /\ agents' = [agents EXCEPT ![a] = st]
    /\ UNCHANGED <<job, handed, queued, assets, window, at>>

(* deletePrintAgent; the foreign key of its jobs becomes null. *)
DeleteAgent(h) ==
    /\ Begin(h, "agents")
    /\ \E a \in Agents :
          /\ agents[a] # "DELETED"
          /\ \A j \in JobIds : job[j].agent = a => job[j].st \notin ActiveStatuses
          /\ Goto(h, [k |-> "dropAgent", a |-> a])
DropAgentTx(h) ==
    /\ at[h].k = "dropAgent"
    /\ agents' = [agents EXCEPT ![at[h].a] = "DELETED"]
    /\ job' = [j \in JobIds |-> IF job[j].agent = at[h].a
                                THEN [job[j] EXCEPT !.agent = None] ELSE job[j]]
    /\ Goto(h, Idle)
    /\ UNCHANGED <<handed, queued, assets, window, budget>>

(* Fault: the files of jobs nobody has claimed yet are deleted. *)
RemovableUnleased(X) ==
    \A j \in JobIds : job[j].asset \in X => job[j].st \notin LeasedStatuses
(* What deleteCasePrintAssets may delete: files without an active job. *)
Removable(X) == \A j \in JobIds : job[j].asset \in X => job[j].st \notin ActiveStatuses
(* deleteCasePrintAssets: of those, the files of a case that are old       *)
(* enough.  Their jobs are deleted with them.                              *)
CleanCase(h) ==
    /\ Begin(h, "clean")
    /\ \E X \in SUBSET assets \ {{}} :
          /\ Removable(X)
          /\ Goto(h, [k |-> "dropAssets", X |-> X])
DropAssetsTx(h) ==
    /\ at[h].k = "dropAssets"
    /\ assets' = assets \ at[h].X
    /\ job' = [j \in JobIds |-> IF job[j].asset \in at[h].X THEN GoneJob ELSE job[j]]
    /\ Goto(h, Idle)
    /\ UNCHANGED <<handed, queued, agents, window, budget>>

(* pruneJobHistory: one statement for the jobs that are old enough. *)
Prune ==
    /\ Asked("prune")
    /\ \E J \in SUBSET {j \in JobIds : job[j].st \in FinalStatuses} \ {{}} :
          job' = [j \in JobIds |-> IF j \in J THEN GoneJob ELSE job[j]]
    /\ UNCHANGED <<handed, queued, agents, assets, window, at>>

-----------------------------------------------------------------------------
(* Time and failures *)

Expire ==
    /\ \E j \in JobIds : /\ job[j].lease = "live"
                         /\ job' = [job EXCEPT ![j].lease = "expired"]
    /\ UNCHANGED <<handed, queued, agents, assets, window, at, budget>>

OpenWindow ==
    /\ window' = TRUE
    /\ UNCHANGED <<rows, at, budget>>

(* A statement fails or the process dies: the rest of the request is lost. *)
Crash(h) ==
    /\ at[h] # Idle
    /\ Asked("crash")
    /\ Goto(h, Idle)
    /\ UNCHANGED <<rows, window>>

Init ==
    /\ job = [j \in JobIds |-> FreeJob]
    /\ handed = [j \in JobIds |-> <<>>]
    /\ queued = [j \in JobIds |-> 0]
    /\ agents = [a \in Agents |-> "ACTIVE"]
    /\ assets = Assets
    /\ window = TRUE
    /\ at = [h \in Handlers |-> Idle]
    /\ budget = MaxRequests

Request(h) ==
    \/ List(h) \/ Report(h) \/ Download(h) \/ Create(h) \/ Retry(h)
    \/ Cancel(h) \/ Resolve(h) \/ DeleteAgent(h) \/ CleanCase(h)

Step(h) ==
    \/ ReclaimOne(h) \/ MarkStale(h) \/ ReadCandidates(h) \/ ClaimOne(h)
    \/ ReportRead(h) \/ ReportTx(h) \/ NoFileTx(h) \/ CreateTx(h) \/ CancelTx(h)
    \/ ResolveTx(h) \/ DropAgentTx(h) \/ DropAssetsTx(h)

Next ==
    \/ \E h \in Handlers : Request(h) \/ Step(h) \/ Crash(h) \/ \E a \in Agents : Poll(h, a)
    \/ UpdateAgent \/ Prune \/ Expire \/ OpenWindow

Spec == Init /\ [][Next]_vars

(* A request that is served goes on, half a minute passes, and an agent    *)
(* that is on polls again and again and is served.                         *)
FairSpec ==
    /\ Spec
    /\ \A h \in Handlers : WF_vars(Step(h))
    /\ WF_vars(OpenWindow)
    /\ \A a \in Agents : SF_vars(\E h \in Handlers : Poll(h, a))

-----------------------------------------------------------------------------
(* Types *)

JobRow == [st : {"FREE", "DELETED", "STALE"} \cup ActiveStatuses \cup FinalStatuses,
           agent : Agents \cup {None}, asset : Assets \cup {None}, token : Nat,
           lease : {"none", "live", "expired"}, attempts : 0..MaxAttempts]
Orphan       == [j : JobIds, attempts : 0..MaxAttempts]
ReclaimSteps == [k : {"reclaim"}, left : SUBSET Orphan, scope : SUBSET Tenants,
                 a : Agents \cup {None}]
AgentSteps   == [k : {"candidates", "dropAgent"}, a : Agents]
ClaimSteps   == [k : {"claim"}, a : Agents, left : SUBSET JobIds, n : 1..ClaimLimit]
ReportSteps  == [k : {"report"}, j : JobIds, n : Nat, a : Agents, r : Reports]
ReportTxSteps == [k : {"reportTx"}, j : JobIds, n : Nat, r : Reports,
                  attempts : 0..MaxAttempts]
JobSteps     == [k : {"noFile", "cancel"}, j : JobIds]
ResolveSteps == [k : {"resolve"}, j : JobIds, st : {"DONE", "FAILED"}]
CreateSteps  == [k : {"create"}, asset : Assets \cup {None}, a : Agents \cup {None}]
CleanSteps   == [k : {"dropAssets"}, X : SUBSET Assets]
Steps == {Idle} \cup ReclaimSteps \cup AgentSteps \cup ClaimSteps \cup ReportSteps
           \cup ReportTxSteps \cup JobSteps \cup ResolveSteps \cup CreateSteps \cup CleanSteps

(* The rows and what the requests carry have the types of the code; a job  *)
(* is never tried more often than maxAttempts allows.                      *)
PrintTypeOK ==
    /\ job \in [JobIds -> JobRow]
    /\ handed \in [JobIds -> Seq(Agents)]
    /\ queued \in [JobIds -> Nat]
    /\ agents \in [Agents -> {"ACTIVE", "DISABLED", "DELETED"}]
    /\ assets \subseteq Assets
    /\ window \in BOOLEAN
    /\ at \in [Handlers -> Steps]
    /\ budget \in 0..MaxRequests

-----------------------------------------------------------------------------
(* Properties *)

(* claimPrintJobs: of all the polls that saw a job in the queue one gets   *)
(* it, and nobody gets it again before it was put back.                    *)
HandedOutOnce == \A j \in JobIds : Len(handed[j]) <= queued[j]

(* maxAttempts: silent agents, failures and repeated reports together      *)
(* never make the code hand a job out more often than that.                *)
HandoutsBounded == \A j \in JobIds : Len(handed[j]) <= MaxAttempts

(* A job is with an agent exactly while it has a token, which is the token *)
(* of the last agent it was handed to: no other can report on it, and that *)
(* one can.                                                                *)
LeaseHeld ==
    \A j \in JobIds :
        /\ job[j].st \in LeasedStatuses <=> job[j].token # 0
        /\ job[j].token # 0 =>
              /\ job[j].token = Len(handed[j])
              /\ job[j].agent = handed[j][job[j].token]
              /\ job[j].lease # "none"

(* reclaimStalePrintJobs: what was sent to a printer returns to the queue  *)
(* only when its agent reports that it failed, however late the reaper     *)
(* writes what it has read.                                                *)
NoAutomaticReprint ==
    [][\A j \in JobIds : job[j].st \in {"PRINTING", "STALE"} /\ job'[j].st = "QUEUED" =>
          \E h \in Handlers : at[h].k = "reportTx" /\ at[h].j = j /\ at[h].r = "FAILED"]_vars

(* reclaimStalePrintJobs: a job whose agent fell silent is taken from it,  *)
(* unless no agent is on to poll.                                          *)
Silent(j) == job[j].st \in LeasedStatuses /\ job[j].lease = "expired"
SilentJobsEnd ==
    \A j \in JobIds : Silent(j) ~> (~Silent(j) \/ \A a \in Agents : agents[a] # "ACTIVE")

(* print-job-statuses.ts: a final status does not change any more. *)
FinalIsFinal ==
    [][\A j \in JobIds : job[j].st \in FinalStatuses => job'[j].st \in {job[j].st, "DELETED"}]_vars

(* deleteCasePrintAssets and the cascade to PrintJob: a job that waits or  *)
(* is being printed is not deleted with its file, nor with the history.    *)
ActiveJobsSurvive == [][\A j \in JobIds : job[j].st \in ActiveStatuses => job'[j].st # "DELETED"]_vars
=============================================================================
