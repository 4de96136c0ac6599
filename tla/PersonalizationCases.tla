------------------------ MODULE PersonalizationCases ------------------------
(***************************************************************************)
(* The personalisation of one ordered item: what its customer does through *)
(* the link of the shop, what the panel does, and the rendering of the     *)
(* package for print and of the proof for the customer.                    *)
(*                                                                         *)
(* Every statement of a request (doing) and of a job (runs) is a step, so  *)
(* requests and jobs interleave between reads and writes.  Answers stand   *)
(* for answersJson with layoutOverrides, layouts for the template's        *)
(* layoutJson; Fits is validatePrintPackageAnswers.  The files of all the  *)
(* pieces of a package are one file beside its ZIP.  Print jobs, which     *)
(* keep their files from being deleted, are modelled by PrintJobs.         *)
(***************************************************************************)
EXTENDS Integers, Sequences, FiniteSets

CONSTANTS
    Customers, Admins,  \* requests served at the same time
    Workers,            \* concurrency of the render worker, 2 in the code
    Answers, Blank,     \* what may be answered; nothing is
    Complete,           \* answers with every required field
    Layouts,            \* versions of the template's layout
    Fitting,            \* pairs <<answers, layout>> that pass validation
    PanelStatuses,      \* statuses an administrator sets
    Attempts,           \* attempts of a render job, 3 in the code
    Budgets             \* how many requests and faults a behaviour may have

None == "none"
Closed == {"SUBMITTED", "RENDERED", "READY_FOR_PRINT", "ARCHIVED"}
Open == {"NEW", "WAITING_FOR_CUSTOMER", "DRAFT", "PREVIEW_READY", "FAILED_RENDER"}
Filled == Answers \ {Blank}
Kinds == {"customer", "packages", "panel", "changes", "retries", "renderFailures", "queueFailures",
          "crashes"}

ASSUME CasesAssumption ==
    /\ Blank \in Answers /\ Complete \subseteq Filled
    /\ None \notin Layouts
    /\ Fitting \subseteq Filled \X Layouts
    /\ PanelStatuses \subseteq Closed \cup Open
    /\ Customers \cap Admins = {}
    /\ Attempts \in Nat \ {0}
    /\ Budgets \subseteq [Kinds -> Nat]

VARIABLES
    pcase,      \* the PersonalizationCase: status, answers, layoutSnapshot, link
    rows,       \* its PersonalizationAnswer rows
    layout,     \* layoutJson of the template
    preview,    \* there is a PNG_PREVIEW of the browser
    doing,      \* the next statement of every request
    jobs,       \* RenderJob rows and their BullMQ jobs, in order of creation
    runs,       \* the next statement of every job in progress
    assets,     \* files of packages and proofs, in order of creation, some deleted
    approved,   \* the design of the customer's last approval (not in the code)
    spent       \* requests and faults so far, by kind (not in the code)

caseVars == <<pcase, rows, layout, preview, doing, jobs, runs, assets, approved, spent>>

Idle == [pc |-> "idle"]
NoDesign == [answers |-> Blank, layout |-> None]
Handlers == Customers \cup Admins
Fits(design) == <<design.answers, design.layout>> \in Fitting
(* Fault: what was approved is not consulted. *)
LayoutNow(snap) == layout
(* getCaseLayout: the snapshot of the approval, or the template as it is. *)
LayoutOf(snap) == IF snap # None THEN snap ELSE layout
Design == [answers |-> pcase.answers, layout |-> LayoutOf(pcase.snap)]

CaseAt(h, pc) == doing[h].pc = pc
Go(h, step) == doing' = [doing EXCEPT ![h] = step]
To(h, pc) == Go(h, [doing[h] EXCEPT !.pc = pc])
Spend(kind) ==
    /\ spent' = [spent EXCEPT ![kind] = @ + 1]
    /\ \E b \in Budgets : \A k \in Kinds : spent'[k] <= b[k]
SetCase(field, value) == pcase' = [pcase EXCEPT ![field] = value]
KeepFiles == UNCHANGED <<jobs, runs, assets>>
KeepCase == UNCHANGED <<pcase, rows, layout, preview, approved>>

-----------------------------------------------------------------------------
(* Requests of the customer *)

(* The case is found by the hash of the link, which is usable, and is open.*)
Admitted == pcase.usable /\ pcase.st \in Open

(* Fault: a request without answers saves that it has none. *)
GivenOnly(body) == body
(* What a request sends is merged with what was read; it may send nothing. *)
Given(body) == IF body # None THEN body ELSE pcase.answers

(* A draft, a preview or an approval comes in, with answers or without.    *)
Receive(c, op, body) ==
    /\ CaseAt(c, "idle") /\ Admitted /\ Spend("customer")
    /\ Go(c, [pc |-> IF op = "draft" \/ body # None THEN "rows"
                     ELSE IF op = "preview" THEN "preview" ELSE "check",
              op |-> op, link |-> pcase.link,
              answers |-> Given(body),
              layout |-> layout, snap |-> pcase.snap])
    /\ KeepCase /\ KeepFiles

SaveAnswers(c) ==
    /\ CaseAt(c, "rows")
    /\ rows' = doing[c].answers
    /\ To(c, IF doing[c].op = "submit" THEN "merge" ELSE doing[c].op)
    /\ UNCHANGED <<pcase, layout, preview, approved, spent>> /\ KeepFiles

(* The update asks for the hash again: a link sent meanwhile makes it fail.*)
SaveDraft(c) ==
    /\ CaseAt(c, "draft")
    /\ IF pcase.link = doing[c].link
       THEN pcase' = [pcase EXCEPT !.st = "WAITING_FOR_CUSTOMER", !.answers = doing[c].answers]
       ELSE UNCHANGED pcase
    /\ Go(c, Idle)
    /\ UNCHANGED <<rows, layout, preview, approved, spent>> /\ KeepFiles

SavePreview(c) ==
    /\ CaseAt(c, "preview")
    /\ pcase' = [pcase EXCEPT !.st = IF preview THEN "PREVIEW_READY" ELSE "DRAFT",
                              !.answers = doing[c].answers]
    /\ Go(c, Idle)
    /\ UNCHANGED <<rows, layout, preview, approved, spent>> /\ KeepFiles

UploadPreview(c) ==
    /\ CaseAt(c, "idle") /\ Admitted /\ Spend("customer")
    /\ preview' = TRUE
    /\ UNCHANGED <<pcase, rows, layout, doing, approved>> /\ KeepFiles

SaveMerged(c) ==
    /\ CaseAt(c, "merge")
    /\ SetCase("answers", doing[c].answers)
    /\ To(c, "check")
    /\ UNCHANGED <<rows, layout, preview, approved, spent>> /\ KeepFiles

(* Something is answered, and passes validation under the layout that was  *)
(* in force for the case; otherwise the request is refused.                *)
Check(c) ==
    LET d == doing[c]
        seen == IF d.snap # None THEN d.snap ELSE d.layout
    IN  /\ CaseAt(c, "check")
        /\ IF rows # Blank /\ Fits([answers |-> d.answers, layout |-> seen])
           THEN To(c, "approve") ELSE Go(c, Idle)
        /\ UNCHANGED spent /\ KeepCase /\ KeepFiles

Approve(c) ==
    LET d == doing[c]
    IN  /\ CaseAt(c, "approve")
        /\ IF pcase.link = d.link
           THEN /\ pcase' = [pcase EXCEPT !.st = "SUBMITTED", !.snap = d.layout]
                /\ approved' = [answers |-> d.answers, layout |-> d.layout]
                /\ To(c, "package")
           ELSE Go(c, Idle) /\ UNCHANGED <<pcase, approved>>
        /\ UNCHANGED <<rows, layout, preview, spent>> /\ KeepFiles

-----------------------------------------------------------------------------
(* enqueueCasePrintPackage and enqueueCaseProofPdf *)

(* After the package a customer's approval goes on to the proof, whatever  *)
(* became of the package; the panel's request ends.                        *)
AfterPackage(h) == IF h \in Customers THEN To(h, "proof") ELSE Go(h, Idle)

Judge(h) ==
    /\ CaseAt(h, "package")
    /\ To(h, IF Fits(Design) THEN "create" ELSE "reject")
    /\ UNCHANGED spent /\ KeepCase /\ KeepFiles

RejectPackage(h) ==
    /\ CaseAt(h, "reject")
    /\ SetCase("st", "FAILED_RENDER")
    /\ AfterPackage(h)
    /\ UNCHANGED <<rows, layout, preview, approved, spent>> /\ KeepFiles

NewJob(kind) == [kind |-> kind, st |-> "PENDING", queue |-> "none", made |-> 0]

CreateJob(h) ==
    /\ \/ CaseAt(h, "create") /\ jobs' = Append(jobs, NewJob("package"))
       \/ CaseAt(h, "proof") /\ jobs' = Append(jobs, NewJob("proof"))
    /\ Go(h, [pc |-> "add", j |-> Len(jobs) + 1])
    /\ UNCHANGED <<runs, assets, spent>> /\ KeepCase

(* The queue takes the job. *)
AddJob(h) ==
    LET j == doing[h].j
    IN  /\ CaseAt(h, "add")
        /\ jobs' = [jobs EXCEPT ![j].queue = "waiting"]
        /\ IF jobs[j].kind = "package" THEN To(h, "sent") ELSE Go(h, Idle)
        /\ UNCHANGED <<runs, assets, spent>> /\ KeepCase

(* It does not, or the transaction after it fails: the row of a package is *)
(* told, that of a proof is not.                                           *)
QueueFails(h) ==
    LET j == doing[h].j
    IN  /\ doing[h].pc \in {"add", "sent"} /\ Spend("queueFailures")
        /\ IF jobs[j].kind = "package"
           THEN jobs' = [jobs EXCEPT ![j].st = "FAILED"] /\ AfterPackage(h)
           ELSE UNCHANGED jobs /\ Go(h, Idle)
        /\ UNCHANGED <<runs, assets>> /\ KeepCase

(* The transaction after the job was added. *)
ConfirmSent(h) ==
    /\ CaseAt(h, "sent")
    /\ SetCase("st", "SUBMITTED")
    /\ AfterPackage(h)
    /\ UNCHANGED <<rows, layout, preview, approved, spent>> /\ KeepFiles

-----------------------------------------------------------------------------
(* Requests of the panel *)

RequestPackage(a) ==
    /\ CaseAt(a, "idle") /\ Spend("packages")
    /\ Go(a, [pc |-> "package"])
    /\ KeepCase /\ KeepFiles

(* A case that is opened again awaits a new approval. *)
UpdateCaseStatus(a, st) ==
    /\ CaseAt(a, "idle") /\ Spend("panel")
    /\ SetCase("st", st)
    /\ approved' = IF st \in Open THEN NoDesign ELSE approved
    /\ UNCHANGED <<rows, layout, preview, doing>> /\ KeepFiles

ReadForUpdate(a, body) ==
    /\ CaseAt(a, "idle") /\ Spend("panel")
    /\ Go(a, [pc |-> "update", answers |-> body,
              submits |-> body \in Complete /\ pcase.st = "WAITING_FOR_CUSTOMER"])
    /\ KeepCase /\ KeepFiles

UpdateCaseAnswers(a) ==
    LET d == doing[a]
    IN  /\ CaseAt(a, "update")
        /\ rows' = d.answers
        /\ pcase' = [pcase EXCEPT !.answers = d.answers,
                                  !.st = IF d.submits THEN "SUBMITTED" ELSE @]
        /\ approved' = NoDesign
        /\ Go(a, Idle)
        /\ UNCHANGED <<layout, preview, spent>> /\ KeepFiles

RefreshCaseLayout(a) ==
    /\ CaseAt(a, "idle") /\ Spend("panel")
    /\ pcase.snap # None
    /\ SetCase("snap", None)
    /\ approved' = NoDesign
    /\ UNCHANGED <<rows, layout, preview, doing>> /\ KeepFiles

ResendEmail(a) ==
    /\ CaseAt(a, "idle") /\ Spend("panel")
    /\ pcase' = [pcase EXCEPT !.link = @ + 1, !.usable = TRUE]
    /\ UNCHANGED <<rows, layout, preview, doing, approved>> /\ KeepFiles

PackageTypes == {"file", "zip"}
Gone == [type |-> "deleted"]
Files(types) == {i \in DOMAIN assets : assets[i].type \in types}
Without(files) == assets' = [i \in DOMAIN assets |-> IF i \in files THEN Gone ELSE assets[i]]

DeletePackages(a) ==
    /\ CaseAt(a, "idle") /\ Spend("panel")
    /\ Without(Files(PackageTypes))
    /\ UNCHANGED <<doing, jobs, runs>> /\ KeepCase

(* /retry/:id, and /retry-failed for one row after another: the job that   *)
(* the row names is its own, or an earlier one of its kind that failed     *)
(* when the row was the newest.  BullMQ takes a failed job back for one    *)
(* attempt, and refuses others; then the row is told, whatever became of   *)
(* the job by then.                                                        *)
RetryJob(a, row, j) ==
    /\ CaseAt(a, "idle") /\ Spend("retries")
    /\ jobs[j].queue = "failed" /\ jobs[j].kind = jobs[row].kind /\ j <= row
    /\ jobs' = [jobs EXCEPT ![j].queue = "waiting", ![j].made = Attempts - 1]
    /\ Go(a, [pc |-> "retried", j |-> row])
    /\ UNCHANGED <<runs, assets>> /\ KeepCase

MarkRetried(a) ==
    /\ CaseAt(a, "retried")
    /\ jobs' = [jobs EXCEPT ![doing[a].j].st = "PENDING"]
    /\ Go(a, Idle)
    /\ UNCHANGED <<runs, assets, spent>> /\ KeepCase

-----------------------------------------------------------------------------
(* The render worker *)

RunAt(w, pc) == runs[w].pc = pc
RunTo(w, pc) == runs' = [runs EXCEPT ![w].pc = pc]
Store(w, type) == assets' = Append(assets, [type |-> type, design |-> runs[w].design])

TakeJob(w, j) ==
    /\ RunAt(w, "idle") /\ jobs[j].queue = "waiting"
    /\ jobs' = [jobs EXCEPT ![j].queue = "active", ![j].st = "PROCESSING"]
    /\ runs' = [runs EXCEPT ![w] = [pc |-> jobs[j].kind, j |-> j]]
    /\ UNCHANGED <<doing, assets, spent>> /\ KeepCase

(* Fault: room is made before there is a new package. *)
StartPackageEmpty(w) ==
    /\ RunAt(w, "package")
    /\ runs' = [runs EXCEPT ![w] =
          [pc |-> IF Fits(Design) THEN "files" ELSE "refuse", j |-> runs[w].j,
           design |-> Design, older |-> Files(PackageTypes)]]
    /\ Without(Files(PackageTypes))
    /\ jobs' = [jobs EXCEPT ![runs[w].j].st = "PROCESSING"]
    /\ UNCHANGED <<doing, spent>> /\ KeepCase
(* generateCasePrintPackage reads the case, and notes when it started.     *)
StartPackage(w) ==
    /\ RunAt(w, "package")
    /\ runs' = [runs EXCEPT ![w] =
          [pc |-> IF Fits(Design) THEN "files" ELSE "refuse", j |-> runs[w].j,
           design |-> Design, older |-> Files(PackageTypes)]]
    /\ jobs' = [jobs EXCEPT ![runs[w].j].st = "PROCESSING"]
    /\ UNCHANGED <<doing, assets, spent>> /\ KeepCase

FailPackage(w) ==
    /\ SetCase("st", "FAILED_RENDER")
    /\ jobs' = [jobs EXCEPT ![runs[w].j].st = "FAILED"]
    /\ RunTo(w, "catch")

RefusePackage(w) ==
    /\ RunAt(w, "refuse") /\ FailPackage(w)
    /\ UNCHANGED <<rows, layout, preview, doing, assets, approved, spent>>

SaveFiles(w) ==
    /\ RunAt(w, "files") /\ Store(w, "file") /\ RunTo(w, "zip")
    /\ UNCHANGED <<doing, jobs, spent>> /\ KeepCase

SaveZip(w) ==
    /\ RunAt(w, "zip") /\ Store(w, "zip") /\ RunTo(w, "clean")
    /\ UNCHANGED <<doing, jobs, spent>> /\ KeepCase

(* deleteCasePrintAssets: what was created before this package started.    *)
CleanUp(w) ==
    /\ RunAt(w, "clean")
    /\ Without(runs[w].older)
    /\ RunTo(w, "finish")
    /\ UNCHANGED <<doing, jobs, spent>> /\ KeepCase

Leave(w) == runs' = [runs EXCEPT ![w] = Idle]
Completed(j) == jobs' = [jobs EXCEPT ![j].st = "COMPLETED", ![j].queue = "gone"]

FinishPackage(w) ==
    /\ RunAt(w, "finish")
    /\ SetCase("st", "READY_FOR_PRINT")
    /\ Completed(runs[w].j) /\ Leave(w)
    /\ UNCHANGED <<rows, layout, preview, doing, assets, approved, spent>>

(* generateCaseProofPdf renders what the case holds now. *)
RenderProof(w) ==
    /\ RunAt(w, "proof")
    /\ runs' = [runs EXCEPT ![w] = [pc |-> "listProofs", j |-> runs[w].j, design |-> Design]]
    /\ UNCHANGED <<doing, jobs, assets, spent>> /\ KeepCase

ListProofs(w) ==
    /\ RunAt(w, "listProofs")
    /\ runs' = [runs EXCEPT ![w] = [pc |-> "saveProof", j |-> runs[w].j,
                                   design |-> runs[w].design, older |-> Files({"proof"})]]
    /\ UNCHANGED <<doing, jobs, assets, spent>> /\ KeepCase

SaveProof(w) ==
    /\ RunAt(w, "saveProof") /\ Store(w, "proof") /\ RunTo(w, "dropProofs")
    /\ UNCHANGED <<doing, jobs, spent>> /\ KeepCase

(* Fault: the row of the job is not told. *)
DropProofsSilently(w) ==
    /\ RunAt(w, "dropProofs")
    /\ Without(runs[w].older)
    /\ jobs' = [jobs EXCEPT ![runs[w].j].queue = "gone"] /\ Leave(w)
    /\ UNCHANGED <<doing, spent>> /\ KeepCase
(* Proofs that were listed go, the job is done.                            *)
DropProofs(w) ==
    /\ RunAt(w, "dropProofs")
    /\ Without(runs[w].older)
    /\ Completed(runs[w].j) /\ Leave(w)
    /\ UNCHANGED <<doing, spent>> /\ KeepCase

(* Rendering, the disk or the database fails. *)
RenderFails(w) ==
    /\ Spend("renderFailures")
    /\ \/ /\ runs[w].pc \in {"files", "zip", "clean", "finish"}
          /\ FailPackage(w)
          /\ UNCHANGED <<rows, layout, preview, approved>>
       \/ /\ runs[w].pc \in {"proof", "listProofs", "saveProof", "dropProofs"}
          /\ RunTo(w, "catch")
          /\ UNCHANGED jobs /\ KeepCase
    /\ UNCHANGED <<doing, assets>>

NewestOf(kind) ==
    CHOOSE i \in DOMAIN jobs : /\ jobs[i].kind = kind
                               /\ \A k \in DOMAIN jobs : jobs[k].kind = kind => k <= i

(* The catch of processRenderJob marks the newest row of the kind, and the *)
(* queue tries the job again until its attempts are used up.               *)
Catch(w) ==
    LET j == runs[w].j
        newest == NewestOf(jobs[j].kind)
        again == jobs[j].made + 1 < Attempts
    IN  /\ RunAt(w, "catch")
        /\ jobs' = [i \in DOMAIN jobs |->
              [jobs[i] EXCEPT
                  !.st = IF i = newest THEN "FAILED" ELSE @,
                  !.made = IF i = j THEN @ + 1 ELSE @,
                  !.queue = IF i # j THEN @ ELSE IF again THEN "waiting" ELSE "failed"]]
        /\ Leave(w)
        /\ UNCHANGED <<doing, assets, spent>> /\ KeepCase

-----------------------------------------------------------------------------
(* The template is edited, the link expires, processes die *)

EditTemplate ==
    /\ layout' \in Layouts \ {layout}
    /\ Spend("changes")
    /\ UNCHANGED <<pcase, rows, preview, doing, approved>> /\ KeepFiles

ExpireLink ==
    /\ pcase.usable /\ SetCase("usable", FALSE) /\ Spend("changes")
    /\ UNCHANGED <<rows, layout, preview, doing, approved>> /\ KeepFiles

(* A job of a worker that died stalls, and is handed out again. *)
WorkerDies ==
    /\ Spend("crashes")
    /\ jobs' = [j \in DOMAIN jobs |->
          IF jobs[j].queue = "active" THEN [jobs[j] EXCEPT !.queue = "waiting"] ELSE jobs[j]]
    /\ runs' = [w \in Workers |-> Idle]
    /\ UNCHANGED <<doing, assets>> /\ KeepCase

ApiDies ==
    /\ Spend("crashes")
    /\ doing' = [h \in Handlers |-> Idle]
    /\ KeepCase /\ KeepFiles

-----------------------------------------------------------------------------

CasesInit ==
    /\ pcase = [st |-> "WAITING_FOR_CUSTOMER", answers |-> Blank, snap |-> None,
                link |-> 0, usable |-> TRUE]
    /\ rows = Blank /\ layout \in Layouts /\ preview = FALSE
    /\ doing = [h \in Handlers |-> Idle]
    /\ jobs = <<>> /\ runs = [w \in Workers |-> Idle] /\ assets = <<>>
    /\ approved = NoDesign
    /\ spent = [k \in Kinds |-> 0]

(* What a request does once it has begun. *)
Continue(h) ==
    \/ SaveAnswers(h) \/ SaveDraft(h) \/ SavePreview(h) \/ SaveMerged(h) \/ Check(h)
    \/ Approve(h) \/ Judge(h) \/ RejectPackage(h) \/ CreateJob(h) \/ AddJob(h)
    \/ ConfirmSent(h) \/ UpdateCaseAnswers(h) \/ MarkRetried(h)

Request ==
    \/ \E c \in Customers :
          \/ \E op \in {"draft", "preview", "submit"}, body \in Filled \cup {None} :
                Receive(c, op, body)
          \/ UploadPreview(c)
    \/ \E a \in Admins :
          \/ RequestPackage(a) \/ RefreshCaseLayout(a) \/ ResendEmail(a) \/ DeletePackages(a)
          \/ \E st \in PanelStatuses : UpdateCaseStatus(a, st)
          \/ \E body \in Filled : ReadForUpdate(a, body)
          \/ \E row, j \in DOMAIN jobs : RetryJob(a, row, j)

(* What the worker does, unless something fails. *)
Work(w) ==
    \/ \E j \in DOMAIN jobs : TakeJob(w, j)
    \/ StartPackage(w) \/ RefusePackage(w) \/ SaveFiles(w) \/ SaveZip(w) \/ CleanUp(w)
    \/ FinishPackage(w) \/ RenderProof(w) \/ ListProofs(w) \/ SaveProof(w) \/ DropProofs(w)
    \/ Catch(w)

CasesNext ==
    \/ Request
    \/ \E h \in Handlers : Continue(h) \/ QueueFails(h)
    \/ \E w \in Workers : Work(w) \/ RenderFails(w)
    \/ EditTemplate \/ ExpireLink \/ WorkerDies \/ ApiDies

(* A request that began goes on and a worker that can work does: Node runs *)
(* their continuations, BullMQ polls.                                      *)
CasesFairness ==
    /\ \A h \in Handlers : WF_caseVars(Continue(h))
    /\ \A w \in Workers : WF_caseVars(Work(w))

CasesSpec == CasesInit /\ [][CasesNext]_caseVars /\ CasesFairness

-----------------------------------------------------------------------------
(* Properties *)

Zips == Files({"zip"})
HasZip == Zips # {}
NewestZip == assets[CHOOSE i \in Zips : \A k \in Zips : k <= i]

(* The shape of the state. *)
CasesTypeOK ==
    /\ pcase \in [st : Open \cup Closed, answers : Answers, snap : Layouts \cup {None},
                  link : Nat, usable : BOOLEAN]
    /\ rows \in Answers /\ layout \in Layouts /\ preview \in BOOLEAN
    /\ DOMAIN doing = Handlers /\ DOMAIN runs = Workers
    /\ \A j \in DOMAIN jobs :
          jobs[j] \in [kind : {"package", "proof"}, made : 0..Attempts,
                       st : {"PENDING", "PROCESSING", "COMPLETED", "FAILED"},
                       queue : {"none", "waiting", "active", "gone", "failed"}]
    /\ \A i \in DOMAIN assets : assets[i].type \in PackageTypes \cup {"proof", Gone.type}

(* personalization.routes.ts, on approving: "klient akceptowal jeden       *)
(* projekt, a z drukarki wychodzil inny".  Whatever the customer does      *)
(* before and after, and whatever becomes of the template: the package     *)
(* that is ready for print shows the answers and the layout he approved.   *)
(* Not so once a render failed, which opens the case to him while it is    *)
(* retried, or the panel asked for a package while he was approving.       *)
PrintedAsApproved ==
    /\ spent.packages = 0 /\ spent.panel = 0 /\ spent.retries = 0 /\ spent.renderFailures = 0
    /\ pcase.st = "READY_FOR_PRINT" /\ approved # NoDesign /\ HasZip
    => NewestZip.design = approved

(* cases.service.ts: "zeby nieudane generowanie nie zabralo sprawie        *)
(* jedynej paczki".  Whatever packages overlap, fail, are repeated or die, *)
(* a case that has a package keeps one, unless the panel deletes them.     *)
PackageKept ==
    [][HasZip /\ ~(\E a \in Admins : DeletePackages(a)) => HasZip']_caseVars

(* render.worker.ts: in the end every job that was handed to the queue has *)
(* ended there, completed or failed, whatever fails on the way and however *)
(* often the panel retries it; and unless it did, the row says so.  Not    *)
(* the row of a proof whose job failed when there was a newer one, which   *)
(* the catch told in its place.                                            *)
JobsEnd ==
    <>[](\A j \in DOMAIN jobs : jobs[j].queue # "none" =>
             /\ jobs[j].queue \in {"gone", "failed"}
             /\ \/ spent.retries > 0
                \/ jobs[j].queue = "failed" /\ jobs[j].kind = "proof" /\ j # NewestOf("proof")
                \/ jobs[j].st \in {"COMPLETED", "FAILED"})
=============================================================================
