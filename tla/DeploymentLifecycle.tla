------------------------ MODULE DeploymentLifecycle ------------------------
(***************************************************************************)
(* What a deployment job does to the database while it runs, on a          *)
(* self-hosted instance that may crash and boot again:                     *)
(* processDeploymentJob and the deploy/rebuild functions it calls, the API *)
(* calls that touch the same rows, and initCancelDeployments.              *)
(*                                                                         *)
(* The queue is used through its abstract specification, ServiceQueue,     *)
(* which DeploymentQueue implements.  Queue and running jobs are memory    *)
(* and disappear in a crash; services, their status, the deployment rows   *)
(* and the log directories survive it.                                     *)
(*                                                                         *)
(* Every database write or shell command the code awaits is a step of its  *)
(* own: whatever else the server does may happen between two of them.      *)
(* applications, composes and previews run the same protocol, written      *)
(* three times in the code; an application has at most one preview here.   *)
(***************************************************************************)
EXTENDS DeploymentJobs, FiniteSets

CONSTANTS
  Keep,        \* deployments removeLastTenDeployments keeps: 10 in the code
  Faults,      \* which optional failures may happen, see below
  MaxJobs,     \* bound of the model: jobs submitted between two crashes
  MaxRows,     \* bound of the model: deployments created in all
  MaxCrashes,  \* bound of the model: crashes
  MaxRequests  \* bound of the model: requests other than deploy

\* "retention"  the removal of old logs on a remote host fails
\* "remove"     an old deployment, its rollback or its log cannot be removed
\* "prepare"    the log file of the new deployment cannot be created
\* "notify"     sending the success notification throws
\* "report"     writing the failure to the log, or to the pull request, throws
\* "domain"     a preview has no domain, its creation having failed half way
\* "clear"      an operator clears a service's deployments while it builds
\* "sweep"      a query of initCancelDeployments fails, or a step of the start before it
ASSUME FaultsAssumption ==
  Faults \subseteq
    {"retention", "remove", "prepare", "notify", "report", "domain", "clear", "sweep"}
ASSUME NumbersAssumption ==
  Keep \in Nat \ {0} /\ {MaxJobs, MaxRows, MaxCrashes, MaxRequests} \subseteq Nat

VARIABLES
  submitted, queued, building,   \* the queue, see ServiceQueue
  task,      \* task[j]: where the active job j is, and its deployment row
  status,    \* status[e]: applicationStatus, composeStatus, previewStatus
  rows,      \* the deployments table
  lastRow,   \* ids of rows are given in the order of createdAt
  logs,      \* the services whose log directory exists
  boot,      \* progress of server.ts after the last crash
  toCancel,  \* deploymentIdsToCancel of initCancelDeployments
  toIdle,    \* the services of the rows it has cancelled
  crashes, requests,  \* how many there were, for the bounds
  stuck      \* rows that retention once failed to remove, for the properties

queueVars == <<submitted, queued, building>>
dbVars    == <<status, rows, lastRow, logs>>
bootVars  == <<boot, toCancel, toIdle, crashes, requests, stuck>>
vars      == <<queueVars, task, dbVars, bootVars>>

Queue == INSTANCE ServiceQueue

-----------------------------------------------------------------------------
(* Services, rows and jobs                                                 *)

entity(data) == <<data.applicationType, data.service>>
Entities     == {entity(d) : d \in Payloads}
isPreview(e) == e[1] = "application-preview"
isCompose(e) == e[1] = "compose"

\* What a delete of e takes along: an application has its previews deleted.
Owned(e) == {f \in Entities : f = e \/ (/\ isPreview(f)
                                         /\ e[1] = "application"
                                         /\ f[2] = e[2])}

Statuses    == {"idle", "running", "done", "error", "absent"}
RowStatuses == {"running", "done", "error", "cancelled"}
Row == [id : Nat, of : Entities, status : RowStatuses]

\* The awaits of processDeploymentJob and of what it calls, in order.
Steps == {"status", "retention", "insert", "insertError", "build", "rowDone",
          "statusDone", "notify", "report", "rowError", "statusError", "end"}
Phases == {"down", "listening", "selected", "cancelled", "composes", "up", "unswept"}

TypeOK ==
  /\ submitted \in Nat
  /\ queued \in [Partitions -> SUBSET Job]
  /\ building \in [Partitions -> SUBSET Job]
  /\ DOMAIN task \subseteq Job
  /\ task \in [DOMAIN task -> [at : Steps, row : Nat]]
  /\ status \in [Entities -> Statuses]
  /\ rows \subseteq Row
  /\ lastRow \in Nat
  /\ logs \subseteq Entities
  /\ boot \in Phases /\ toCancel \subseteq Nat /\ toIdle \subseteq Entities
  /\ crashes \in 0..MaxCrashes /\ requests \in 0..MaxRequests
  /\ stuck \subseteq Nat

Init ==
  /\ Queue!Init
  /\ task = [j \in {} |-> 0]
  /\ status = [e \in Entities |-> "idle"]
  /\ rows = {} /\ lastRow = 0 /\ logs = {}
  /\ boot = "down" /\ toCancel = {} /\ toIdle = {}
  /\ crashes = 0 /\ requests = 0 /\ stuck = {}

\* Mutant: the query forgets its WHERE.
rowsOfAll(e) == rows

rowsOf(e) == {r \in rows : r.of = e}

\* UPDATE ... WHERE: an absent service or row is left alone.
setStatus(E, s) ==
  status' = [e \in Entities |->
               IF e \in E /\ status[e] # "absent" THEN s ELSE status[e]]

setRows(ids, s) ==
  rows' = {IF r.id \in ids THEN [r EXCEPT !.status = s] ELSE r : r \in rows}

goto(j, step) == task' = [task EXCEPT ![j].at = step]

at(j, step) == j \in DOMAIN task /\ task[j].at = step

-----------------------------------------------------------------------------
(* A job, from the queue and back                                          *)

\* The queue may start jobs as soon as the server answers requests.
StartBuilds(p, S) ==
  /\ S # {}
  /\ Queue!Start(p, S)
  /\ task' = [j \in DOMAIN task \cup S |->
                IF j \in S THEN [at |-> "status", row |-> 0] ELSE task[j]]
  /\ UNCHANGED <<dbVars, bootVars>>

markRunning(j) ==
  /\ at(j, "status")
  /\ setStatus({entity(j.data)}, "running")
  /\ goto(j, "retention")
  /\ UNCHANGED <<queueVars, rows, lastRow, logs, bootVars>>

newer(r) == {n \in rowsOf(r.of) : n.id > r.id}

\* Mutant: one deployment too many is kept.
ExpiredOneLess(e) == {r \in rowsOf(e) : Cardinality(newer(r)) >= Keep + 1}

Expired(e) == {r \in rowsOf(e) : Cardinality(newer(r)) >= Keep}

\* Each removal has a catch of its own: a row whose rollback, log or own removal
\* fails is kept, and the caller is not told.
removeEach(E) ==
  \E F \in {F \in SUBSET E : F # {} => "remove" \in Faults} :
    rows' = rows \ (E \ F) /\ stuck' = stuck \cup {r.id : r \in F}

\* The service is looked up again; removeLastTenDeployments is outside the try
\* of createDeployment, so what it throws ends the job at once: the one command
\* that removes the logs on a remote host has no catch.
removeLastTenDeployments(j) ==
  LET e == entity(j.data) IN
  /\ at(j, "retention")
  /\ \/ status[e] = "absent" /\ goto(j, "end") /\ UNCHANGED <<rows, stuck>>
     \/ /\ status[e] # "absent"
        /\ removeEach(Expired(e))
        /\ \/ goto(j, "insert")
           \/ "retention" \in Faults /\ Expired(e) # {} /\ goto(j, "end")
  /\ UNCHANGED <<queueVars, status, lastRow, logs, boot, toCancel, toIdle, crashes,
                 requests>>

\* Mutant: every deployment is stored as one of an application.
insertApplication(j, s) ==
  /\ lastRow' = lastRow + 1
  /\ rows' = rows \cup {[id |-> lastRow + 1, status |-> s,
                         of |-> <<"application", j.data.service>>]}

insert(j, s) ==
  /\ lastRow' = lastRow + 1
  /\ rows' = rows \cup {[id |-> lastRow + 1, of |-> entity(j.data), status |-> s]}

\* Mutant: its catch forgets the status of the service.
createRowErrorOnly(j) ==
  LET e == entity(j.data) IN
  /\ at(j, "insert")
  /\ \/ status[e] = "absent" /\ goto(j, "end") /\ UNCHANGED <<rows, lastRow, logs>>
     \/ /\ status[e] # "absent"
        /\ insert(j, "running")
        /\ logs' = logs \cup {e}
        /\ task' = [task EXCEPT ![j] = [at |-> "build", row |-> lastRow + 1]]
     \/ /\ status[e] # "absent" /\ "prepare" \in Faults
        /\ insert(j, "error")
        /\ goto(j, "end")
        /\ UNCHANGED logs
  /\ UNCHANGED <<queueVars, status, bootVars>>

createDeployment(j) ==
  LET e == entity(j.data) IN
  /\ at(j, "insert")
  /\ \/ /\ status[e] = "absent"         \* a foreign key fails, twice
        /\ goto(j, "end")
        /\ UNCHANGED <<rows, lastRow, logs>>
     \/ /\ status[e] # "absent"
        /\ insert(j, "running")
        /\ logs' = logs \cup {e}
        /\ task' = [task EXCEPT ![j] = [at |-> "build", row |-> lastRow + 1]]
     \/ /\ status[e] # "absent" /\ "prepare" \in Faults
        /\ insert(j, "error")
        /\ goto(j, "insertError")
        /\ UNCHANGED logs
  /\ UNCHANGED <<queueVars, status, bootVars>>

\* Mutant: a failed build is not caught by the deploy function.
thrownPast(j) == {"end"}

\* Where a failure of the build leads: to the catch, except that the domain of
\* a preview is read between createDeploymentPreview and the try.
thrownTo(j) ==
  {"report"} \cup {step \in {"end"} :
                    "domain" \in Faults /\ isPreview(entity(j.data))}

\* The shell commands of the build; any of them may fail.
build(j) ==
  /\ at(j, "build")
  /\ \E step \in {"rowDone"} \cup thrownTo(j) : goto(j, step)
  /\ UNCHANGED <<queueVars, dbVars, bootVars>>

\* sendBuildSuccessNotifications is awaited inside the try; previews send none.
notify(j) ==
  /\ at(j, "notify")
  /\ \/ goto(j, "end")
     \/ "notify" \in Faults /\ ~ isPreview(entity(j.data)) /\ goto(j, "report")
  /\ UNCHANGED <<queueVars, dbVars, bootVars>>

\* The catch begins with a report, and nothing catches its error: it appends to
\* the log, whose directory or host may be gone, or edits the comment of a
\* preview on its pull request.
report(j) ==
  LET e    == entity(j.data)
      lost == ~ isPreview(e) /\ e \notin logs
  IN
  /\ at(j, "report")
  /\ \/ ~ lost /\ goto(j, "rowError")
     \/ ("report" \in Faults \/ lost) /\ goto(j, "end")
  /\ UNCHANGED <<queueVars, dbVars, bootVars>>

\* Mutant: the update is by service and not by deployment.
updateStatusOfAll(j, from, s, to) ==
  /\ at(j, from)
  /\ setRows({r.id : r \in rowsOf(entity(j.data))}, s)
  /\ goto(j, to)
  /\ UNCHANGED <<queueVars, status, lastRow, logs, bootVars>>

updateDeploymentStatus(j, from, s, to) ==
  /\ at(j, from)
  /\ setRows({task[j].row}, s)
  /\ goto(j, to)
  /\ UNCHANGED <<queueVars, status, lastRow, logs, bootVars>>

updateApplicationStatus(j, from, s, to) ==
  /\ at(j, from)
  /\ setStatus({entity(j.data)}, s)
  /\ goto(j, to)
  /\ UNCHANGED <<queueVars, rows, lastRow, logs, bootVars>>

\* The processor returns: processDeploymentJob catches whatever was thrown.
settle(p, j) ==
  /\ at(j, "end")
  /\ Queue!Finish(p, j)
  /\ task' = [k \in DOMAIN task \ {j} |-> task[k]]
  /\ UNCHANGED <<dbVars, bootVars>>

JobStep(j) ==
  \/ markRunning(j) \/ removeLastTenDeployments(j) \/ createDeployment(j)
  \/ build(j) \/ notify(j) \/ report(j)
  \/ updateApplicationStatus(j, "insertError", "error", "end")
  \/ updateDeploymentStatus(j, "rowDone", "done", "statusDone")
  \/ updateApplicationStatus(j, "statusDone", "done", "notify")
  \/ updateDeploymentStatus(j, "rowError", "error", "statusError")
  \/ updateApplicationStatus(j, "statusError", "error", "end")
  \/ \E p \in Partitions : settle(p, j)

-----------------------------------------------------------------------------
(* Requests: the server answers them from listen() on                      *)

Up == boot # "down"

\* Any other request than deploy; MaxRequests bounds their number.
Request ==
  /\ Up /\ requests < MaxRequests
  /\ requests' = requests + 1
  /\ UNCHANGED <<boot, toCancel, toIdle, crashes, stuck>>

\* The jobs that have not created their deployment yet; for the bound MaxRows.
Pending == UNION {queued[p] : p \in Partitions}
             \cup {j \in DOMAIN task :
                     task[j].at \in {"status", "retention", "insert"}}

\* The service was looked up before; it may have been deleted since.
deploy(d) ==
  /\ Up /\ submitted < MaxJobs /\ lastRow + Cardinality(Pending) < MaxRows
  /\ Queue!Submit(d)
  /\ UNCHANGED <<task, dbVars, bootVars>>

JobsOf(E) == {j \in UNION {queued[p] : p \in Partitions} : entity(j.data) \in E}

cleanQueues(e) ==
  /\ Request /\ ~ isPreview(e)
  /\ Queue!Withdraw(JobsOf(Owned(e)))
  /\ UNCHANGED <<task, dbVars>>

\* application.delete and compose.delete: the service with its previews, by
\* cascade their rows, its waiting jobs, its logs.  What builds goes on.
deleteService(e) ==
  /\ Request /\ ~ isPreview(e) /\ status[e] # "absent"
  /\ status' = [f \in Entities |-> IF f \in Owned(e) THEN "absent" ELSE status[f]]
  /\ rows' = {r \in rows : r.of \notin Owned(e)}
  /\ logs' = logs \ Owned(e)
  /\ Queue!Withdraw(JobsOf(Owned(e)))
  /\ UNCHANGED <<task, lastRow>>

\* The pull request is closed; the jobs of the preview stay in the queue.
removePreviewDeployment(e) ==
  /\ Request /\ isPreview(e) /\ status[e] # "absent"
  /\ status' = [status EXCEPT ![e] = "absent"]
  /\ rows' = {r \in rows : r.of # e}
  /\ logs' = logs \ {e}
  /\ UNCHANGED <<queueVars, task, lastRow>>

\* start, stop and reload write what docker answered, build or no build.
serviceCommand(e) ==
  /\ Request /\ ~ isPreview(e)
  /\ \E s \in {"idle", "done", "error"} : setStatus({e}, s)
  /\ UNCHANGED <<queueVars, task, rows, lastRow, logs>>

\* clearOldDeployments removes the log directory, whatever writes there.
clearDeployments(e) ==
  /\ Request /\ ~ isPreview(e)
  /\ "clear" \in Faults \/ \A j \in DOMAIN task : entity(j.data) # e
  /\ logs' = logs \ {e}
  /\ UNCHANGED <<queueVars, task, status, rows, lastRow>>

removeDeployment(id) ==
  /\ Request
  /\ rows' = {r \in rows : r.id # id}
  /\ UNCHANGED <<queueVars, task, status, lastRow, logs>>

-----------------------------------------------------------------------------
(* Crash and boot                                                          *)

crash ==
  /\ Up /\ crashes < MaxCrashes
  /\ crashes' = crashes + 1
  /\ submitted' = 0
  /\ queued' = [p \in Partitions |-> {}]
  /\ building' = [p \in Partitions |-> {}]
  /\ task' = [j \in {} |-> 0]
  /\ boot' = "down" /\ toCancel' = {} /\ toIdle' = {}
  /\ UNCHANGED <<dbVars, requests, stuck>>

listen ==
  /\ boot = "down"
  /\ boot' = "listening"
  /\ UNCHANGED <<queueVars, task, dbVars, toCancel, toIdle, crashes, requests,
                 stuck>>

\* Mutant: only the deployments of applications are selected.
selectApplications ==
  /\ boot = "listening"
  /\ toCancel' = {r.id : r \in {r \in rows : /\ r.status = "running"
                                             /\ r.of[1] = "application"}}
  /\ boot' = IF toCancel' = {} THEN "up" ELSE "selected"
  /\ UNCHANGED <<queueVars, task, dbVars, toIdle, crashes, requests, stuck>>

\* initCancelDeployments: select, update by id, then the services.
selectRunning ==
  /\ boot = "listening"
  /\ toCancel' = {r.id : r \in {r \in rows : r.status = "running"}}
  /\ boot' = IF toCancel' = {} THEN "up" ELSE "selected"
  /\ UNCHANGED <<queueVars, task, dbVars, toIdle, crashes, requests, stuck>>

cancelRows ==
  /\ boot = "selected"
  /\ setRows(toCancel, "cancelled")
  /\ toIdle' = {r.of : r \in {r \in rows : r.id \in toCancel}}
  /\ toCancel' = {}
  /\ boot' = "cancelled"
  /\ UNCHANGED <<queueVars, task, status, lastRow, logs, crashes, requests, stuck>>

idleApplications ==
  /\ boot = "cancelled"
  /\ setStatus({e \in toIdle : e[1] = "application"}, "idle")
  /\ boot' = "composes"
  /\ UNCHANGED <<queueVars, task, rows, lastRow, logs, toCancel, toIdle, crashes,
                 requests, stuck>>

idleComposes ==
  /\ boot = "composes"
  /\ setStatus({e \in toIdle : isCompose(e)}, "idle")
  /\ toIdle' = {}
  /\ boot' = "up"
  /\ UNCHANGED <<queueVars, task, rows, lastRow, logs, toCancel, crashes, requests,
                 stuck>>

\* Whatever is thrown is logged, and the start goes on.
sweepFails ==
  /\ "sweep" \in Faults /\ boot \in {"listening", "selected", "cancelled", "composes"}
  /\ boot' = IF boot \in {"listening", "selected"} THEN "unswept" ELSE "up"
  /\ toCancel' = {} /\ toIdle' = {}
  /\ UNCHANGED <<queueVars, task, dbVars, crashes, requests, stuck>>

Boot ==
  \/ listen \/ selectRunning \/ cancelRows \/ idleApplications \/ idleComposes
  \/ sweepFails

-----------------------------------------------------------------------------
Requests ==
  \/ \E d \in Payloads : deploy(d)
  \/ \E e \in Entities :
       \/ cleanQueues(e) \/ deleteService(e) \/ removePreviewDeployment(e)
       \/ serviceCommand(e) \/ clearDeployments(e)
  \/ \E r \in rows : removeDeployment(r.id)

Next ==
  \/ Requests
  \/ \E p \in Partitions : \E S \in SUBSET queued[p] : StartBuilds(p, S)
  \/ \E j \in DOMAIN task : JobStep(j)
  \/ crash
  \/ Boot

Spec == Init /\ [][Next]_vars

\* Boot goes on, and so does every promise of a job: the database answers, and
\* a build command ends.
Fairness ==
  /\ WF_vars(Boot)
  /\ WF_vars(\E j \in DOMAIN task : JobStep(j))

FairSpec == Spec /\ Fairness
-----------------------------------------------------------------------------
(* Properties                                                              *)

\* The steps at which a job will still write the status of its row.
Recording == {"build", "rowDone", "report", "rowError"}

Recorded(r) == \E j \in DOMAIN task : /\ task[j].row = r.id
                                      /\ task[j].at \in Recording

\* Unless reporting a failure fails itself, or a preview has no domain: once
\* initCancelDeployments has swept the table, which it may fail to do, a deployment
\* shown as running has a live job that will settle it.
NoOrphanRows ==
  boot \in {"cancelled", "composes", "up"} =>
    \A r \in rows : r.status = "running" => Recorded(r)

\* As long as nothing crashed, a service shown as running is being deployed:
\* every way a job may end has put its status back (without the faults "report",
\* "domain" and "retention", after which it stays "running").
QuietServicesSettled ==
  crashes = 0 =>
    \A e \in Entities : status[e] = "running" =>
      \E j \in DOMAIN task : entity(j.data) = e

\* A service has no deployments but the current one and those kept before it,
\* except for rows whose removal failed: only these may have more newer ones.
RowsBounded ==
  \A r \in rows : Cardinality(newer(r)) > Keep => r.id \in stuck

\* A finished deployment is only rewritten by its own job, still alive, or by
\* the sweep at boot; and it never runs again.
FinishedRowsStay ==
  [][\A r \in rows, s \in rows' :
       s.id = r.id /\ r.status # "running" /\ s.status # r.status =>
         /\ s.status # "running"
         /\ boot = "selected" \/ \E j \in DOMAIN task : task[j].row = r.id]_vars

\* A step of one job, its removal of old deployments included, leaves the rows of
\* other services as they are, and never takes a row that some job, itself
\* included, is about to settle.
JobsSpareRows ==
  [][\A j \in DOMAIN task \cap DOMAIN task' : task'[j] # task[j] =>
       \A r \in rows :
         /\ r.of # entity(j.data) => r \in rows'
         /\ Recorded(r) => \E s \in rows' : s.id = r.id]_vars

\* A deployment does not stay "running" for ever: its job settles it, or the
\* server crashes and the next boot does.
RowsSettle ==
  \A id \in 1..MaxRows :
    (\E r \in rows : r.id = id /\ r.status = "running")
      ~> (\A r \in rows : r.id = id => r.status # "running")

\* What the test of deployApplication expects of a build that fails
\* (application.real.test.ts:351-355), for every way a job may end: when it
\* does, its deployment no longer counts as running.
EndedBuildsRecorded ==
  \A j \in DOMAIN task : task[j].at = "end" =>
    \A r \in rows : r.id = task[j].row => r.status # "running"

-----------------------------------------------------------------------------
(* The inductive invariant behind NoOrphanRows                             *)

\* Jobs in the queue are numbered apart from the active ones.
JobsNumbered ==
  /\ \A j \in DOMAIN task : j.id <= submitted
  /\ \A p \in Partitions : \A j \in queued[p] :
       j.id <= submitted /\ getPartition(j.data) = p /\ j \notin DOMAIN task

\* Rows are numbered from 1, and the row of a job belongs to its service.
RowsNumbered ==
  /\ \A r \in rows : r.id \in 1..lastRow
  /\ \A j \in DOMAIN task :
       /\ task[j].row <= lastRow
       /\ \A r \in rows : r.id = task[j].row => r.of = entity(j.data)

\* While its row exists, a job that may have to report a failure finds the log.
LogsPresent ==
  \A j \in DOMAIN task :
    /\ task[j].at \in Recording \cup {"statusDone", "notify"}
    /\ \E r \in rows : r.id = task[j].row
    => entity(j.data) \in logs

\* A running row has its job, or waits for a sweep of initCancelDeployments.
RunningAccounted ==
  \A r \in rows : r.status = "running" =>
    \/ Recorded(r)
    \/ boot \in {"down", "listening", "unswept"}
    \/ boot = "selected" /\ r.id \in toCancel

IInv ==
  /\ TypeOK
  /\ JobsNumbered
  /\ RowsNumbered
  /\ LogsPresent
  /\ RunningAccounted
=============================================================================
