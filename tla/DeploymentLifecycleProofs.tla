--------------------- MODULE DeploymentLifecycleProofs ---------------------
(***************************************************************************)
(* Proofs about DeploymentLifecycle, for every set of services, servers    *)
(* and payloads, every number of rows kept and every bound.                *)
(***************************************************************************)
EXTENDS DeploymentLifecycle, TLAPS

\* The queue is instantiated over the same partitions.
LEMMA SharedPartitions ==
  /\ Queue!Partitions = Partitions
  /\ \A d : Queue!getPartition(d) = getPartition(d)
  /\ Queue!Job = Job
BY DEF Queue!Partitions, Partitions, Queue!LOCAL_PARTITION, LOCAL_PARTITION,
       Queue!getPartition, getPartition, Queue!Job, Job

LEMMA PartitionOf ==
  ASSUME NEW d \in Payloads
  PROVE  getPartition(d) \in Partitions
BY PayloadsAssumption DEF getPartition, Partitions, DeploymentJob

LEMMA EntityOf ==
  ASSUME NEW j \in Job
  PROVE  entity(j.data) \in Entities
BY DEF Job, Entities

-----------------------------------------------------------------------------
(* Types                                                                   *)

LEMMA SetStatusType ==
  ASSUME TypeOK, NEW E, NEW s \in Statuses, setStatus(E, s)
  PROVE  status' \in [Entities -> Statuses]
BY DEF TypeOK, setStatus

LEMMA SetRowsType ==
  ASSUME TypeOK, NEW ids, NEW s \in RowStatuses, setRows(ids, s)
  PROVE  rows' \subseteq Row
BY DEF TypeOK, setRows, Row

LEMMA GotoType ==
  ASSUME TypeOK, NEW j, NEW from, NEW step \in Steps, at(j, from), goto(j, step)
  PROVE  /\ DOMAIN task' = DOMAIN task
         /\ task' \in [DOMAIN task -> [at : Steps, row : Nat]]
         /\ task'[j].at = step
         /\ \A k \in DOMAIN task : /\ task'[k].row = task[k].row
                                   /\ k # j => task'[k] = task[k]
BY DEF TypeOK, goto, at

LEMMA TypeInit == Init => TypeOK
<1>. SUFFICES ASSUME Init PROVE TypeOK
  OBVIOUS
<1>1. queued \in [Partitions -> SUBSET Job] /\ building \in [Partitions -> SUBSET Job]
  BY SharedPartitions DEF Init, Queue!Init
<1>2. submitted \in Nat
  BY DEF Init, Queue!Init
<1>3. DOMAIN task = {}
  BY DEF Init
<1>4. /\ DOMAIN task \subseteq Job
      /\ task \in [DOMAIN task -> [at : Steps, row : Nat]]
  BY <1>3 DEF Init
<1>5. status \in [Entities -> Statuses]
  BY DEF Init, Statuses
<1>. QED
  BY <1>1, <1>2, <1>4, <1>5, NumbersAssumption DEF Init, TypeOK, Phases

\* What a job does to the queue and to the other jobs: nothing, but settle.
LEMMA JobStepType ==
  ASSUME TypeOK, NEW j \in DOMAIN task, JobStep(j)
  PROVE  TypeOK'
<1>0. j \in Job /\ entity(j.data) \in Entities
  BY EntityOf DEF TypeOK
<1>1. CASE markRunning(j)
  <2>1. status' \in [Entities -> Statuses]
    BY <1>1, SetStatusType DEF markRunning, Statuses
  <2>2. /\ DOMAIN task' = DOMAIN task
        /\ task' \in [DOMAIN task -> [at : Steps, row : Nat]]
    BY <1>1, GotoType DEF markRunning, Steps
  <2>. QED
    BY <1>1, <2>1, <2>2 DEF markRunning, TypeOK, queueVars, bootVars
<1>2. CASE removeLastTenDeployments(j)
  <2>1. rows' \subseteq Row /\ stuck' \subseteq Nat
    BY <1>2 DEF removeLastTenDeployments, removeEach, Expired, rowsOf, Row, TypeOK
  <2>2. /\ DOMAIN task' = DOMAIN task
        /\ task' \in [DOMAIN task -> [at : Steps, row : Nat]]
    BY <1>2, GotoType DEF removeLastTenDeployments, Steps
  <2>. QED
    BY <1>2, <2>1, <2>2 DEF removeLastTenDeployments, TypeOK, queueVars
<1>3. CASE createDeployment(j)
  <2>1. lastRow' \in Nat /\ lastRow + 1 \in Nat
    BY <1>3 DEF createDeployment, insert, TypeOK
  <2>2. rows' \subseteq Row
    <3>1. \A s \in RowStatuses :
            [id |-> lastRow + 1, of |-> entity(j.data), status |-> s] \in Row
      BY <1>0, <2>1 DEF Row
    <3>. QED
      BY <1>3, <3>1 DEF createDeployment, insert, TypeOK, RowStatuses
  <2>3. logs' \subseteq Entities
    BY <1>0, <1>3 DEF createDeployment, TypeOK
  <2>4. /\ DOMAIN task' = DOMAIN task
        /\ task' \in [DOMAIN task -> [at : Steps, row : Nat]]
    <3>1. CASE \/ goto(j, "end") \/ goto(j, "insertError")
      BY <1>3, <3>1, GotoType DEF createDeployment, Steps
    <3>2. CASE task' = [task EXCEPT ![j] = [at |-> "build", row |-> lastRow + 1]]
      BY <2>1, <3>2 DEF TypeOK, Steps
    <3>. QED
      BY <1>3, <3>1, <3>2 DEF createDeployment
  <2>. QED
    BY <1>3, <2>1, <2>2, <2>3, <2>4 DEF createDeployment, TypeOK, queueVars, bootVars
<1>4. CASE build(j) \/ notify(j) \/ report(j)
  <2>1. /\ DOMAIN task' = DOMAIN task
        /\ task' \in [DOMAIN task -> [at : Steps, row : Nat]]
    BY <1>4, GotoType DEF build, thrownTo, notify, report, Steps
  <2>. QED
    BY <1>4, <2>1 DEF build, thrownTo, notify, report, TypeOK, queueVars, dbVars, bootVars
<1>5. ASSUME NEW from, NEW s \in RowStatuses, NEW to \in Steps,
             updateDeploymentStatus(j, from, s, to)
      PROVE  TypeOK'
  <2>1. /\ DOMAIN task' = DOMAIN task
        /\ task' \in [DOMAIN task -> [at : Steps, row : Nat]]
    BY <1>5, GotoType DEF updateDeploymentStatus
  <2>2. rows' \subseteq Row
    BY <1>5, SetRowsType DEF updateDeploymentStatus
  <2>. QED
    BY <1>5, <2>1, <2>2 DEF updateDeploymentStatus, TypeOK, queueVars, bootVars
<1>6. ASSUME NEW from, NEW s \in Statuses, NEW to \in Steps,
             updateApplicationStatus(j, from, s, to)
      PROVE  TypeOK'
  <2>1. /\ DOMAIN task' = DOMAIN task
        /\ task' \in [DOMAIN task -> [at : Steps, row : Nat]]
    BY <1>6, GotoType DEF updateApplicationStatus
  <2>2. status' \in [Entities -> Statuses]
    BY <1>6, SetStatusType DEF updateApplicationStatus
  <2>. QED
    BY <1>6, <2>1, <2>2 DEF updateApplicationStatus, TypeOK, queueVars, bootVars
<1>7. ASSUME NEW p \in Partitions, settle(p, j) PROVE TypeOK'
  <2>1. building' \in [Partitions -> SUBSET Job]
    BY <1>7 DEF settle, Queue!Finish, TypeOK
  <2>2. /\ DOMAIN task' \subseteq DOMAIN task
        /\ task' \in [DOMAIN task' -> [at : Steps, row : Nat]]
    BY <1>7 DEF settle, TypeOK
  <2>. QED
    BY <1>7, <2>1, <2>2 DEF settle, Queue!Finish, TypeOK, dbVars, bootVars
<1>. QED
  BY <1>1, <1>2, <1>3, <1>4, <1>5, <1>6, <1>7
  DEF JobStep, Steps, Statuses, RowStatuses

LEMMA RequestType == ASSUME TypeOK, Requests PROVE TypeOK'
<1>1. ASSUME NEW d \in Payloads, deploy(d) PROVE TypeOK'
  <2>1. [id |-> submitted + 1, data |-> d] \in Job /\ submitted + 1 \in Nat
    BY DEF TypeOK, Job
  <2>2. queued' \in [Partitions -> SUBSET Job]
    BY <1>1, <2>1 DEF deploy, Queue!Submit, TypeOK
  <2>. QED
    BY <1>1, <2>1, <2>2 DEF deploy, Queue!Submit, TypeOK, dbVars, bootVars
<1>2. ASSUME NEW S, Queue!Withdraw(S)
      PROVE  /\ queued' \in [Partitions -> SUBSET Job]
             /\ building' = building /\ submitted' = submitted
  BY <1>2, SharedPartitions DEF Queue!Withdraw, TypeOK
<1>3. ASSUME Request
      PROVE  /\ requests' \in 0..MaxRequests
             /\ UNCHANGED <<boot, toCancel, toIdle, crashes, stuck>>
  BY <1>3, NumbersAssumption DEF Request, TypeOK
<1>4. ASSUME NEW e \in Entities, cleanQueues(e) PROVE TypeOK'
  BY <1>2, <1>3, <1>4 DEF cleanQueues, TypeOK, dbVars
<1>5. ASSUME NEW e \in Entities, deleteService(e) PROVE TypeOK'
  <2>1. status' \in [Entities -> Statuses]
    BY <1>5 DEF deleteService, TypeOK, Statuses
  <2>. QED
    BY <1>2, <1>3, <1>5, <2>1 DEF deleteService, TypeOK
<1>6. ASSUME NEW e \in Entities, removePreviewDeployment(e) PROVE TypeOK'
  <2>1. status' \in [Entities -> Statuses]
    BY <1>6 DEF removePreviewDeployment, TypeOK, Statuses
  <2>. QED
    BY <1>3, <1>6, <2>1 DEF removePreviewDeployment, TypeOK, queueVars
<1>7. ASSUME NEW e \in Entities, serviceCommand(e) PROVE TypeOK'
  <2>1. status' \in [Entities -> Statuses]
    BY <1>7, SetStatusType DEF serviceCommand, Statuses
  <2>. QED
    BY <1>3, <1>7, <2>1 DEF serviceCommand, TypeOK, queueVars
<1>8. ASSUME NEW e \in Entities, clearDeployments(e) PROVE TypeOK'
  BY <1>3, <1>8 DEF clearDeployments, TypeOK, queueVars
<1>9. ASSUME NEW id, removeDeployment(id) PROVE TypeOK'
  BY <1>3, <1>9 DEF removeDeployment, TypeOK, queueVars
<1>. QED
  BY <1>1, <1>4, <1>5, <1>6, <1>7, <1>8, <1>9 DEF Requests

LEMMA BootType == ASSUME TypeOK, Boot PROVE TypeOK'
<1>1. CASE listen
  BY <1>1 DEF listen, TypeOK, Phases, queueVars, dbVars
<1>2. CASE selectRunning
  <2>1. toCancel' \subseteq Nat
    BY <1>2 DEF selectRunning, TypeOK, Row
  <2>. QED
    BY <1>2, <2>1 DEF selectRunning, TypeOK, Phases, queueVars, dbVars
<1>3. CASE cancelRows
  <2>1. rows' \subseteq Row
    BY <1>3, SetRowsType DEF cancelRows, RowStatuses
  <2>2. toIdle' \subseteq Entities
    BY <1>3 DEF cancelRows, TypeOK, Row
  <2>. QED
    BY <1>3, <2>1, <2>2 DEF cancelRows, TypeOK, Phases, queueVars
<1>4. CASE idleApplications \/ idleComposes
  <2>1. status' \in [Entities -> Statuses]
    BY <1>4, SetStatusType DEF idleApplications, idleComposes, Statuses
  <2>. QED
    BY <1>4, <2>1 DEF idleApplications, idleComposes, TypeOK, Phases, queueVars
<1>5. CASE sweepFails
  BY <1>5 DEF sweepFails, TypeOK, Phases, queueVars, dbVars
<1>. QED
  BY <1>1, <1>2, <1>3, <1>4, <1>5 DEF Boot

LEMMA TypeStep == TypeOK /\ [Next]_vars => TypeOK'
<1>. SUFFICES ASSUME TypeOK, [Next]_vars PROVE TypeOK'
  OBVIOUS
<1>1. ASSUME NEW p \in Partitions, NEW S \in SUBSET queued[p], StartBuilds(p, S)
      PROVE  TypeOK'
  <2>1. S \subseteq Job
    BY DEF TypeOK
  <2>2. /\ queued' \in [Partitions -> SUBSET Job]
        /\ building' \in [Partitions -> SUBSET Job]
    BY <1>1, <2>1 DEF StartBuilds, Queue!Start, TypeOK
  <2>3. /\ DOMAIN task' \subseteq Job
        /\ task' \in [DOMAIN task' -> [at : Steps, row : Nat]]
    BY <1>1, <2>1 DEF StartBuilds, TypeOK, Steps
  <2>. QED
    BY <1>1, <2>2, <2>3 DEF StartBuilds, Queue!Start, TypeOK, dbVars, bootVars
<1>2. CASE crash
  <2>1. DOMAIN task' = {} /\ task' \in [DOMAIN task' -> [at : Steps, row : Nat]]
    BY <1>2 DEF crash
  <2>2. crashes' \in 0..MaxCrashes
    BY <1>2, NumbersAssumption DEF crash, TypeOK
  <2>. QED
    BY <1>2, <2>1, <2>2 DEF crash, TypeOK, Phases, dbVars
<1>3. CASE UNCHANGED vars
  BY <1>3 DEF vars, queueVars, dbVars, bootVars, TypeOK
<1>. QED
  BY <1>1, <1>2, <1>3, RequestType, JobStepType, BootType DEF Next

\* The variables always have their types: TypeOK.
THEOREM LifecycleTypeCorrect == Spec => []TypeOK
BY TypeInit, TypeStep, PTL DEF Spec

-----------------------------------------------------------------------------
(* Who may change what                                                     *)

\* A step of a job leaves the queue and the other jobs alone, until it settles.
LEMMA JobStepFrame ==
  ASSUME TypeOK, NEW j \in DOMAIN task, JobStep(j)
  PROVE  \/ /\ DOMAIN task' = DOMAIN task
            /\ UNCHANGED queueVars
            /\ \A k \in DOMAIN task : k # j => task'[k] = task[k]
         \/ /\ \E p \in Partitions : settle(p, j)
            /\ at(j, "end")
            /\ DOMAIN task' = DOMAIN task \ {j}
            /\ submitted' = submitted /\ queued' = queued
            /\ \A k \in DOMAIN task' : task'[k] = task[k]
            /\ UNCHANGED <<dbVars, bootVars>>
<1>1. ASSUME NEW p \in Partitions, settle(p, j)
      PROVE  /\ at(j, "end")
             /\ DOMAIN task' = DOMAIN task \ {j}
             /\ submitted' = submitted /\ queued' = queued
             /\ \A k \in DOMAIN task' : task'[k] = task[k]
             /\ UNCHANGED <<dbVars, bootVars>>
  BY <1>1 DEF settle, Queue!Finish
<1>2. ASSUME NEW step, goto(j, step)
      PROVE  /\ DOMAIN task' = DOMAIN task
             /\ \A k \in DOMAIN task : k # j => task'[k] = task[k]
  BY <1>2 DEF goto, TypeOK
<1>3. ASSUME createDeployment(j)
      PROVE  /\ DOMAIN task' = DOMAIN task
             /\ \A k \in DOMAIN task : k # j => task'[k] = task[k]
  BY <1>2, <1>3 DEF createDeployment, TypeOK
<1>. QED
  BY <1>1, <1>2, <1>3
  DEF JobStep, markRunning, removeLastTenDeployments, createDeployment, build,
      notify, report, updateDeploymentStatus, updateApplicationStatus

\* The other steps, but StartBuilds and crash, leave the jobs alone.
LEMMA RequestFrame ==
  ASSUME TypeOK, Requests
  PROVE  /\ UNCHANGED <<task, lastRow, boot, toCancel>>
         /\ \A r \in rows' : r \in rows
BY DEF Requests, deploy, cleanQueues, deleteService, removePreviewDeployment,
       serviceCommand, clearDeployments, removeDeployment, Request, dbVars,
       bootVars

LEMMA BootFrame ==
  ASSUME Boot
  PROVE  UNCHANGED <<queueVars, task, lastRow, logs>>
BY DEF Boot, listen, selectRunning, cancelRows, idleApplications, idleComposes, sweepFails,
       dbVars

\* A status written to the table adds no row and changes no number or service.
LEMMA SetRowsFrame ==
  ASSUME TypeOK, NEW ids, NEW s, setRows(ids, s)
  PROVE  \A r \in rows' : \E q \in rows :
           /\ r.id = q.id /\ r.of = q.of
           /\ r.id \in ids => r.status = s
           /\ r.id \notin ids => r = q
BY DEF TypeOK, setRows, Row

-----------------------------------------------------------------------------
(* Numbering                                                               *)

LEMMA JobsNumberedStep ==
  TypeOK /\ JobsNumbered /\ [Next]_vars => JobsNumbered'
<1>. SUFFICES ASSUME TypeOK, JobsNumbered, [Next]_vars
             PROVE  JobsNumbered'
  OBVIOUS
<1>1. ASSUME NEW j \in DOMAIN task, JobStep(j) PROVE JobsNumbered'
  BY <1>1, JobStepFrame DEF JobsNumbered, queueVars
<1>2. ASSUME NEW d \in Payloads, deploy(d) PROVE JobsNumbered'
  <2>1. \A p \in Partitions : \A j \in queued'[p] :
          j \in queued[p] \/ (/\ j = [id |-> submitted + 1, data |-> d]
                              /\ p = getPartition(d))
    BY <1>2, SharedPartitions DEF deploy, Queue!Submit, TypeOK
  <2>2. submitted' = submitted + 1 /\ UNCHANGED task
    BY <1>2 DEF deploy, Queue!Submit
  <2>3. [id |-> submitted + 1, data |-> d] \notin DOMAIN task
    BY DEF JobsNumbered, TypeOK
  <2>4. \A j \in DOMAIN task : j.id \in Nat
    BY DEF TypeOK, Job
  <2>5. \A p \in Partitions : \A j \in queued[p] : j.id \in Nat
    BY DEF TypeOK, Job
  <2>6. \A j \in DOMAIN task' : j.id <= submitted'
    BY <2>2, <2>4 DEF JobsNumbered, TypeOK
  <2>7. ASSUME NEW p \in Partitions, NEW j \in queued'[p]
        PROVE  j.id <= submitted' /\ getPartition(j.data) = p /\ j \notin DOMAIN task'
    BY <2>1, <2>2, <2>3, <2>5 DEF JobsNumbered, TypeOK
  <2>. QED
    BY <2>6, <2>7 DEF JobsNumbered
<1>3. ASSUME UNCHANGED <<submitted, task>>,
             \A p \in Partitions : queued'[p] \subseteq queued[p]
      PROVE  JobsNumbered'
  BY <1>3 DEF JobsNumbered
<1>4. ASSUME NEW S, Queue!Withdraw(S), UNCHANGED task PROVE JobsNumbered'
  BY <1>3, <1>4, SharedPartitions DEF Queue!Withdraw
<1>5. CASE Requests
  BY <1>2, <1>3, <1>4, <1>5
  DEF Requests, cleanQueues, deleteService, removePreviewDeployment,
      serviceCommand, clearDeployments, removeDeployment, queueVars
<1>6. ASSUME NEW p \in Partitions, NEW S \in SUBSET queued[p], StartBuilds(p, S)
      PROVE  JobsNumbered'
  <2>1. /\ DOMAIN task' = DOMAIN task \cup S
        /\ submitted' = submitted
        /\ \A q \in Partitions : queued'[q] = IF q = p THEN queued[p] \ S
                                                       ELSE queued[q]
    BY <1>6 DEF StartBuilds, Queue!Start, TypeOK
  <2>2. \A j \in DOMAIN task' : j.id <= submitted'
    BY <2>1 DEF JobsNumbered
  <2>3. ASSUME NEW q \in Partitions, NEW j \in queued'[q]
        PROVE  j.id <= submitted' /\ getPartition(j.data) = q /\ j \notin DOMAIN task'
    BY <2>1, <2>3 DEF JobsNumbered
  <2>. QED
    BY <2>2, <2>3 DEF JobsNumbered
<1>7. CASE crash
  BY <1>7 DEF crash, JobsNumbered
<1>8. CASE Boot \/ UNCHANGED vars
  BY <1>8, BootFrame DEF JobsNumbered, vars, queueVars
<1>. QED
  BY <1>1, <1>5, <1>6, <1>7, <1>8 DEF Next

LEMMA RowsNumberedStep ==
  TypeOK /\ JobsNumbered /\ RowsNumbered /\ [Next]_vars => RowsNumbered'
<1>. SUFFICES ASSUME TypeOK, JobsNumbered, RowsNumbered, [Next]_vars
             PROVE  RowsNumbered'
  OBVIOUS
<1>. USE DEF RowsNumbered
<1>1. ASSUME lastRow' = lastRow,
             \A r \in rows' : \E q \in rows : r.id = q.id /\ r.of = q.of,
             \A j \in DOMAIN task' : j \in DOMAIN task /\ task'[j].row = task[j].row
      PROVE  RowsNumbered'
  BY <1>1
<1>2. ASSUME NEW j \in DOMAIN task, createDeployment(j) PROVE RowsNumbered'
  <2>1. \A k \in DOMAIN task : task[k].row \in Nat
    BY DEF TypeOK
  <2>2. CASE lastRow' = lastRow
    <3>1. goto(j, "end") /\ rows' = rows
      BY <1>2, <2>2 DEF createDeployment, insert, TypeOK
    <3>. QED
      BY <1>1, <2>2, <3>1 DEF goto, TypeOK
  <2>3. ASSUME NEW s, insert(j, s) PROVE RowsNumbered'
    <3>1. /\ lastRow' = lastRow + 1
          /\ \A r \in rows' : r \in rows \/ (/\ r.id = lastRow + 1
                                             /\ r.of = entity(j.data))
      BY <2>3 DEF insert
    <3>2. \A r \in rows' : r.id \in 1..lastRow'
      BY <3>1 DEF TypeOK
    <3>3. \A k \in DOMAIN task' :
            /\ k \in DOMAIN task
            /\ \/ task'[k].row = task[k].row
               \/ k = j /\ task'[k].row = lastRow + 1
      BY <1>2, <2>3 DEF createDeployment, goto, TypeOK
    <3>4. \A k \in DOMAIN task' : task'[k].row <= lastRow'
      BY <2>1, <3>1, <3>3 DEF TypeOK
    <3>5. ASSUME NEW k \in DOMAIN task', NEW r \in rows', r.id = task'[k].row
          PROVE  r.of = entity(k.data)
      <4>1. CASE task'[k].row = task[k].row
        BY <2>1, <3>1, <3>3, <3>5, <4>1 DEF TypeOK
      <4>2. CASE k = j /\ task'[k].row = lastRow + 1
        BY <3>1, <3>5, <4>2 DEF TypeOK
      <4>. QED
        BY <3>3, <4>1, <4>2
    <3>. QED
      BY <3>2, <3>4, <3>5
  <2>. QED
    BY <1>2, <2>2, <2>3 DEF createDeployment
<1>3. ASSUME NEW j \in DOMAIN task, JobStep(j) PROVE RowsNumbered'
  <2>1. ASSUME NEW step, goto(j, step)
        PROVE  \A k \in DOMAIN task' : k \in DOMAIN task /\ task'[k].row = task[k].row
    BY <2>1 DEF goto, TypeOK
  <2>2. CASE markRunning(j) \/ removeLastTenDeployments(j) \/ build(j)
             \/ notify(j) \/ report(j)
    BY <1>1, <2>1, <2>2
    DEF markRunning, removeLastTenDeployments, removeEach, build, thrownTo, notify,
        report, dbVars
  <2>3. ASSUME NEW from, NEW s, NEW to, updateDeploymentStatus(j, from, s, to)
        PROVE  RowsNumbered'
    BY <1>1, <2>1, <2>3, SetRowsFrame DEF updateDeploymentStatus
  <2>4. ASSUME NEW from, NEW s, NEW to, updateApplicationStatus(j, from, s, to)
        PROVE  RowsNumbered'
    BY <1>1, <2>1, <2>4 DEF updateApplicationStatus
  <2>5. ASSUME NEW p \in Partitions, settle(p, j) PROVE RowsNumbered'
    BY <1>1, <2>5 DEF settle, dbVars
  <2>. QED
    BY <1>2, <1>3, <2>2, <2>3, <2>4, <2>5 DEF JobStep
<1>4. CASE Requests
  BY <1>1, <1>4, RequestFrame
<1>5. ASSUME NEW p \in Partitions, NEW S \in SUBSET queued[p], StartBuilds(p, S)
      PROVE  RowsNumbered'
  <2>1. /\ UNCHANGED <<rows, lastRow>>
        /\ \A k \in DOMAIN task' : \/ k \in DOMAIN task /\ task'[k].row = task[k].row
                                   \/ task'[k].row = 0
    BY <1>5 DEF StartBuilds, dbVars
  <2>. QED
    BY <2>1 DEF TypeOK
<1>6. CASE crash
  BY <1>6 DEF crash, dbVars
<1>7. CASE Boot
  <2>1. UNCHANGED <<task, lastRow>>
    BY <1>7, BootFrame
  <2>2. \A r \in rows' : \E q \in rows : r.id = q.id /\ r.of = q.of
    BY <1>7, SetRowsFrame
    DEF Boot, listen, selectRunning, cancelRows, idleApplications, idleComposes, sweepFails,
        dbVars
  <2>. QED
    BY <1>1, <2>1, <2>2
<1>8. CASE UNCHANGED vars
  BY <1>1, <1>8 DEF vars, dbVars
<1>. QED
  BY <1>3, <1>4, <1>5, <1>6, <1>7, <1>8 DEF Next

-----------------------------------------------------------------------------
(* The log of a job is there when its failure must be reported             *)

Logging == Recording \cup {"statusDone", "notify"}

LEMMA LogsPresentStep ==
  ASSUME "clear" \notin Faults
  PROVE  TypeOK /\ RowsNumbered /\ LogsPresent /\ [Next]_vars => LogsPresent'
<1>. SUFFICES ASSUME TypeOK, RowsNumbered, LogsPresent, [Next]_vars
             PROVE  LogsPresent'
  OBVIOUS
<1>1. ASSUME logs \subseteq logs',
             \A r \in rows' : \E q \in rows : r.id = q.id,
             \A j \in DOMAIN task' :
               /\ j \in DOMAIN task
               /\ task'[j].at \in Logging => /\ task[j].at \in Logging
                                             /\ task'[j].row = task[j].row
      PROVE  LogsPresent'
  BY <1>1 DEF LogsPresent, Logging
<1>2. ASSUME NEW j \in DOMAIN task, createDeployment(j) PROVE LogsPresent'
  <2>1. /\ logs \subseteq logs'
        /\ \A k \in DOMAIN task' : k # j => k \in DOMAIN task /\ task'[k] = task[k]
    BY <1>2 DEF createDeployment, goto, TypeOK
  <2>2. \A r \in rows' : r \in rows \/ r.id = lastRow + 1
    BY <1>2 DEF createDeployment, insert
  <2>3. ASSUME NEW k \in DOMAIN task', k # j, task'[k].at \in Logging,
               NEW r \in rows', r.id = task'[k].row
        PROVE  entity(k.data) \in logs'
    <3>1. task[k].row # lastRow + 1
      BY <2>1, <2>3 DEF RowsNumbered, TypeOK
    <3>2. r \in rows
      BY <2>1, <2>2, <2>3, <3>1
    <3>. QED
      BY <2>1, <2>3, <3>2 DEF LogsPresent, Logging
  <2>4. task'[j].at \in Logging => entity(j.data) \in logs'
    BY <1>2 DEF createDeployment, goto, TypeOK, Logging, Recording
  <2>. QED
    BY <2>3, <2>4 DEF LogsPresent, Logging
<1>3. ASSUME NEW j \in DOMAIN task, JobStep(j) PROVE LogsPresent'
  <2>1. ASSUME NEW from, NEW to, at(j, from), goto(j, to),
               to \in Logging => from \in Logging
        PROVE  \A k \in DOMAIN task' :
                 /\ k \in DOMAIN task
                 /\ task'[k].at \in Logging => /\ task[k].at \in Logging
                                               /\ task'[k].row = task[k].row
    BY <2>1 DEF goto, at, TypeOK
  <2>2. CASE markRunning(j)
    BY <1>1, <2>1, <2>2 DEF markRunning, Logging, Recording
  <2>3. CASE removeLastTenDeployments(j)
    BY <1>1, <2>1, <2>3 DEF removeLastTenDeployments, removeEach, Logging, Recording
  <2>4. CASE build(j)
    BY <1>1, <2>1, <2>4 DEF build, thrownTo, Logging, Recording, dbVars
  <2>5. CASE notify(j)
    BY <1>1, <2>1, <2>5 DEF notify, Logging, Recording, dbVars
  <2>6. CASE report(j)
    BY <1>1, <2>1, <2>6 DEF report, Logging, Recording, dbVars
  <2>7. ASSUME NEW from, NEW s, NEW to, updateDeploymentStatus(j, from, s, to),
               to \in Logging => from \in Logging
        PROVE  LogsPresent'
    BY <1>1, <2>1, <2>7, SetRowsFrame DEF updateDeploymentStatus
  <2>8. ASSUME NEW from, NEW s, NEW to, updateApplicationStatus(j, from, s, to),
               to \in Logging => from \in Logging
        PROVE  LogsPresent'
    BY <1>1, <2>1, <2>8 DEF updateApplicationStatus
  <2>9. ASSUME NEW p \in Partitions, settle(p, j) PROVE LogsPresent'
    BY <1>1, <2>9 DEF settle, dbVars
  <2>. QED
    BY <1>2, <1>3, <2>2, <2>3, <2>4, <2>5, <2>6, <2>7, <2>8, <2>9
    DEF JobStep, Logging, Recording
<1>4. CASE Requests
  <2>1. UNCHANGED task /\ \A r \in rows' : r \in rows
    BY <1>4, RequestFrame
  <2>2. CASE logs' = logs
    BY <1>1, <2>1, <2>2
  <2>3. ASSUME NEW e \in Entities, NEW F,
               logs' = logs \ F, \A r \in rows' : r.of \notin F
        PROVE  LogsPresent'
    BY <2>1, <2>3 DEF LogsPresent, RowsNumbered
  <2>4. ASSUME NEW e \in Entities, clearDeployments(e) PROVE LogsPresent'
    BY <2>1, <2>4 DEF clearDeployments, LogsPresent
  <2>5. ASSUME NEW e \in Entities, deleteService(e) PROVE LogsPresent'
    BY <2>3, <2>5 DEF deleteService
  <2>6. ASSUME NEW e \in Entities, removePreviewDeployment(e) PROVE LogsPresent'
    <3>1. logs' = logs \ {e} /\ \A r \in rows' : r.of \notin {e}
      BY <2>6 DEF removePreviewDeployment
    <3>. QED
      BY <2>3, <3>1
  <2>. QED
    BY <1>4, <2>2, <2>4, <2>5, <2>6
    DEF Requests, deploy, cleanQueues, serviceCommand, removeDeployment, dbVars
<1>5. ASSUME NEW p \in Partitions, NEW S \in SUBSET queued[p], StartBuilds(p, S)
      PROVE  LogsPresent'
  <2>1. /\ UNCHANGED <<rows, logs>>
        /\ \A k \in DOMAIN task' : \/ k \in DOMAIN task /\ task'[k] = task[k]
                                   \/ task'[k].at = "status"
    BY <1>5 DEF StartBuilds, dbVars
  <2>. QED
    BY <2>1 DEF LogsPresent, Recording
<1>6. CASE crash
  BY <1>6 DEF crash, LogsPresent
<1>7. CASE Boot
  <2>1. UNCHANGED <<task, logs>>
    BY <1>7, BootFrame
  <2>2. \A r \in rows' : \E q \in rows : r.id = q.id
    BY <1>7, SetRowsFrame
    DEF Boot, listen, selectRunning, cancelRows, idleApplications, idleComposes, sweepFails,
        dbVars
  <2>. QED
    BY <1>1, <2>1, <2>2
<1>8. CASE UNCHANGED vars
  BY <1>1, <1>8 DEF vars, dbVars
<1>. QED
  BY <1>3, <1>4, <1>5, <1>6, <1>7, <1>8 DEF Next

-----------------------------------------------------------------------------
(* Running rows                                                            *)

LEMMA RunningAccountedStep ==
  ASSUME {"report", "domain"} \cap Faults = {}
  PROVE  TypeOK /\ JobsNumbered /\ LogsPresent /\ RunningAccounted /\ [Next]_vars
           => RunningAccounted'
<1>. SUFFICES ASSUME TypeOK, JobsNumbered, LogsPresent, RunningAccounted,
                     [Next]_vars
             PROVE  RunningAccounted'
  OBVIOUS
\* Nothing happens to boot, and every row that still runs keeps its job.
<1>1. ASSUME UNCHANGED <<boot, toCancel>>,
             \A r \in rows' : r.status = "running" =>
               \/ Recorded(r)'
               \/ r \in rows /\ (Recorded(r) => Recorded(r)')
      PROVE  RunningAccounted'
  BY <1>1 DEF RunningAccounted
<1>2. ASSUME NEW j \in DOMAIN task, createDeployment(j) PROVE RunningAccounted'
  <2>1. UNCHANGED <<boot, toCancel>>
    BY <1>2 DEF createDeployment, bootVars
  <2>2. \A k \in DOMAIN task : k # j => k \in DOMAIN task' /\ task'[k] = task[k]
    BY <1>2 DEF createDeployment, goto, TypeOK
  <2>3. \A r \in rows : Recorded(r) => Recorded(r)'
    BY <1>2, <2>2 DEF Recorded, Recording, createDeployment, at
  <2>4. ASSUME NEW r \in rows', r \notin rows, r.status = "running"
        PROVE  Recorded(r)'
    <3>1. /\ r.id = lastRow + 1
          /\ j \in DOMAIN task' /\ task'[j] = [at |-> "build", row |-> lastRow + 1]
      BY <1>2, <2>4 DEF createDeployment, insert, TypeOK
    <3>. QED
      BY <3>1 DEF Recorded, Recording
  <2>. QED
    BY <1>1, <2>1, <2>3, <2>4
<1>3. ASSUME NEW j \in DOMAIN task, JobStep(j) PROVE RunningAccounted'
  <2>1. ASSUME NEW from, NEW to, at(j, from), goto(j, to), NEW r,
               from \in Recording => to \in Recording \/ r.id # task[j].row,
               Recorded(r)
        PROVE  Recorded(r)'
    <3>1. /\ DOMAIN task' = DOMAIN task
          /\ task'[j].at = to /\ task'[j].row = task[j].row
          /\ \A k \in DOMAIN task : k # j => task'[k] = task[k]
      BY <2>1 DEF goto, TypeOK
    <3>2. PICK k \in DOMAIN task : task[k].row = r.id /\ task[k].at \in Recording
      BY <2>1 DEF Recorded
    <3>. QED
      BY <2>1, <3>1, <3>2 DEF Recorded, at
  <2>2. CASE markRunning(j)
    BY <1>1, <2>1, <2>2 DEF markRunning, Recording, bootVars
  <2>3. CASE removeLastTenDeployments(j)
    BY <1>1, <2>1, <2>3 DEF removeLastTenDeployments, removeEach, Recording
  <2>4. CASE build(j)
    BY <1>1, <2>1, <2>4 DEF build, thrownTo, Recording, dbVars, bootVars
  <2>5. CASE notify(j)
    BY <1>1, <2>1, <2>5 DEF notify, Recording, dbVars, bootVars
  <2>6. CASE report(j)
    <3>1. CASE goto(j, "rowError")
      BY <1>1, <2>1, <2>6, <3>1 DEF report, Recording, dbVars, bootVars
    <3>2. CASE goto(j, "end") /\ entity(j.data) \notin logs
      <4>1. \A r \in rows : r.id # task[j].row
        BY <2>6, <3>2 DEF report, at, LogsPresent, Recording
      <4>. QED
        BY <1>1, <2>1, <2>6, <3>2, <4>1 DEF report, Recording, dbVars, bootVars
    <3>. QED
      BY <2>6, <3>1, <3>2 DEF report
  <2>7. ASSUME NEW from, NEW s, NEW to, updateDeploymentStatus(j, from, s, to),
               s # "running"
        PROVE  RunningAccounted'
    <3>1. \A r \in rows' : r.status = "running" => r \in rows /\ r.id # task[j].row
      BY <2>7, SetRowsFrame DEF updateDeploymentStatus
    <3>. QED
      BY <1>1, <2>1, <2>7, <3>1 DEF updateDeploymentStatus, bootVars
  <2>8. ASSUME NEW from, NEW s, NEW to, updateApplicationStatus(j, from, s, to),
               from \notin Recording
        PROVE  RunningAccounted'
    BY <1>1, <2>1, <2>8 DEF updateApplicationStatus, bootVars
  <2>9. ASSUME NEW p \in Partitions, settle(p, j) PROVE RunningAccounted'
    <3>1. /\ UNCHANGED <<rows, boot, toCancel>>
          /\ \A k \in DOMAIN task : k # j => k \in DOMAIN task' /\ task'[k] = task[k]
          /\ task[j].at \notin Recording
      BY <2>9 DEF settle, at, Recording, dbVars, bootVars
    <3>. QED
      BY <1>1, <3>1 DEF Recorded
  <2>. QED
    BY <1>2, <1>3, <2>2, <2>3, <2>4, <2>5, <2>6, <2>7, <2>8, <2>9
    DEF JobStep, Recording
<1>4. CASE Requests
  <2>1. UNCHANGED <<task, boot, toCancel>> /\ \A r \in rows' : r \in rows
    BY <1>4, RequestFrame
  <2>. QED
    BY <1>1, <2>1 DEF Recorded
<1>5. ASSUME NEW p \in Partitions, NEW S \in SUBSET queued[p], StartBuilds(p, S)
      PROVE  RunningAccounted'
  <2>1. UNCHANGED <<rows, boot, toCancel>>
    BY <1>5 DEF StartBuilds, dbVars, bootVars
  <2>2. \A k \in DOMAIN task : k \in DOMAIN task' /\ task'[k] = task[k]
    BY <1>5 DEF StartBuilds, JobsNumbered
  <2>. QED
    BY <1>1, <2>1, <2>2 DEF Recorded
<1>6. CASE crash
  BY <1>6 DEF crash, RunningAccounted
<1>7. CASE Boot
  <2>1. UNCHANGED task
    BY <1>7, BootFrame
  <2>2. CASE listen
    BY <2>2 DEF listen, RunningAccounted
  <2>3. CASE selectRunning
    BY <2>3 DEF selectRunning, RunningAccounted, dbVars
  <2>4. CASE cancelRows
    <3>1. \A r \in rows' : r.status = "running" => r \in rows /\ r.id \notin toCancel
      BY <2>4, SetRowsFrame DEF cancelRows
    <3>. QED
      BY <2>1, <2>4, <3>1 DEF cancelRows, RunningAccounted, Recorded
  <2>5. CASE idleApplications \/ idleComposes
    BY <2>1, <2>5 DEF idleApplications, idleComposes, RunningAccounted, Recorded
  <2>6. CASE sweepFails
    BY <2>1, <2>6 DEF sweepFails, RunningAccounted, Recorded, dbVars
  <2>. QED
    BY <1>7, <2>2, <2>3, <2>4, <2>5, <2>6 DEF Boot
<1>8. CASE UNCHANGED vars
  BY <1>1, <1>8 DEF vars, dbVars, bootVars, Recorded
<1>. QED
  BY <1>3, <1>4, <1>5, <1>6, <1>7, <1>8 DEF Next

-----------------------------------------------------------------------------
\* As long as reporting a failure does not fail itself, previews have their domain
\* and logs are not cleared under a build, IInv holds initially, is preserved by
\* every step, and so always holds.
THEOREM LifecycleInvariant ==
  ASSUME {"report", "domain", "clear"} \cap Faults = {}
  PROVE  Spec => []IInv
<1>1. Init => IInv
  <2>. SUFFICES ASSUME Init PROVE IInv
    OBVIOUS
  <2>1. JobsNumbered
    BY SharedPartitions DEF Init, Queue!Init, JobsNumbered
  <2>2. RowsNumbered /\ LogsPresent /\ RunningAccounted
    BY DEF Init, RowsNumbered, LogsPresent, RunningAccounted
  <2>. QED
    BY <2>1, <2>2, TypeInit DEF IInv
<1>2. IInv /\ [Next]_vars => IInv'
  BY TypeStep, JobsNumberedStep, RowsNumberedStep, LogsPresentStep,
     RunningAccountedStep DEF IInv
<1>. QED
  BY <1>1, <1>2, PTL DEF Spec

\* No deployment is left running without a job once the sweep at boot is over,
\* whatever crashed, failed or was requested: NoOrphanRows.
THEOREM NoOrphans ==
  ASSUME {"report", "domain", "clear"} \cap Faults = {}
  PROVE  Spec => []NoOrphanRows
<1>1. IInv => NoOrphanRows
  BY DEF IInv, RunningAccounted, NoOrphanRows
<1>. QED
  BY <1>1, LifecycleInvariant, PTL

-----------------------------------------------------------------------------
(* The queue of the lifecycle                                              *)

\* Between two crashes the queue is a ServiceQueue, and a crash leaves it as it
\* starts.
UsesQueue == Queue!Init /\ [][Queue!Next \/ (crash /\ Queue!Init')]_(Queue!vars)

\* A job occupies its place in the queue from its start to its end, and no longer:
\* no end, early or late, leaves a slot taken, or frees one that is in use.
SlotsAreTasks ==
  /\ \A p \in Partitions : \A j \in building[p] :
       j \in DOMAIN task /\ getPartition(j.data) = p
  /\ \A j \in DOMAIN task : j \in building[getPartition(j.data)]

LEMMA SlotsStep ==
  TypeOK /\ JobsNumbered /\ SlotsAreTasks /\ [Next]_vars => SlotsAreTasks'
<1>. SUFFICES ASSUME TypeOK, JobsNumbered, SlotsAreTasks, [Next]_vars
             PROVE  SlotsAreTasks'
  OBVIOUS
<1>1. ASSUME DOMAIN task' = DOMAIN task, UNCHANGED building PROVE SlotsAreTasks'
  BY <1>1 DEF SlotsAreTasks
<1>2. ASSUME NEW p \in Partitions, NEW S \in SUBSET queued[p], StartBuilds(p, S)
      PROVE  SlotsAreTasks'
  <2>1. /\ DOMAIN task' = DOMAIN task \cup S
        /\ building' = [building EXCEPT ![p] = @ \cup S]
    BY <1>2 DEF StartBuilds, Queue!Start
  <2>2. \A j \in S : getPartition(j.data) = p
    BY DEF JobsNumbered
  <2>3. \A q \in Partitions : building'[q] = IF q = p THEN building[p] \cup S ELSE building[q]
    BY <2>1 DEF TypeOK
  <2>4. \A j \in DOMAIN task : getPartition(j.data) \in Partitions
    BY PartitionOf DEF TypeOK, Job
  <2>. QED
    BY <2>1, <2>2, <2>3, <2>4 DEF SlotsAreTasks
<1>3. ASSUME NEW j \in DOMAIN task, JobStep(j) PROVE SlotsAreTasks'
  <2>1. ASSUME NEW p \in Partitions, settle(p, j) PROVE SlotsAreTasks'
    <3>1. /\ DOMAIN task' = DOMAIN task \ {j} /\ j \in building[p]
          /\ \A q \in Partitions : building'[q] = IF q = p THEN building[p] \ {j}
                                                            ELSE building[q]
      BY <2>1 DEF settle, Queue!Finish, TypeOK
    <3>2. \A k \in DOMAIN task : getPartition(k.data) \in Partitions
      BY PartitionOf DEF TypeOK, Job
    <3>. QED
      BY <3>1, <3>2 DEF SlotsAreTasks
  <2>. QED
    BY <1>1, <1>3, <2>1, JobStepFrame DEF queueVars
<1>4. CASE Requests
  <2>1. UNCHANGED building
    BY <1>4 DEF Requests, deploy, cleanQueues, deleteService, removePreviewDeployment,
       serviceCommand, clearDeployments, removeDeployment, queueVars, Queue!Submit,
       Queue!Withdraw
  <2>. QED
    BY <1>1, <1>4, <2>1, RequestFrame
<1>5. CASE crash
  BY <1>5 DEF crash, SlotsAreTasks
<1>6. CASE Boot \/ UNCHANGED vars
  BY <1>1, <1>6, BootFrame DEF vars, queueVars
<1>. QED
  BY <1>2, <1>3, <1>4, <1>5, <1>6 DEF Next

\* Whatever fails, a job has its place in the queue exactly while it runs: no end of
\* processDeploymentJob keeps a service from being deployed again.
THEOREM SlotsAreFreed == Spec => []SlotsAreTasks
<1>1. Init => TypeOK /\ JobsNumbered /\ SlotsAreTasks
  <2>. SUFFICES ASSUME Init PROVE JobsNumbered /\ SlotsAreTasks
    BY TypeInit
  <2>. QED
    BY SharedPartitions DEF Init, Queue!Init, JobsNumbered, SlotsAreTasks
<1>2. TypeOK /\ JobsNumbered /\ SlotsAreTasks /\ [Next]_vars
        => TypeOK' /\ JobsNumbered' /\ SlotsAreTasks'
  BY TypeStep, JobsNumberedStep, SlotsStep
<1>. QED
  BY <1>1, <1>2, PTL DEF Spec

\* Whatever fails, the lifecycle uses the queue as ServiceQueue specifies it: what
\* DeploymentQueue implements is what the lifecycle relies on.
THEOREM LifecycleUsesQueue == Spec => UsesQueue
<1>. USE SharedPartitions DEF Queue!vars
<1>1. Init => Queue!Init
  BY DEF Init
<1>2. ASSUME TypeOK, [Next]_vars
      PROVE  [Queue!Next \/ (crash /\ Queue!Init')]_(Queue!vars)
  <2>1. ASSUME NEW p \in Partitions, NEW S \in SUBSET queued[p], StartBuilds(p, S)
        PROVE  Queue!Next
    BY <2>1 DEF StartBuilds, Queue!Next
  <2>2. ASSUME NEW j \in DOMAIN task, JobStep(j), ~ UNCHANGED queueVars PROVE Queue!Next
    <3>1. PICK p \in Partitions : settle(p, j)
      BY <1>2, <2>2, JobStepFrame
    <3>2. Queue!Finish(p, j) /\ j \in building[p]
      BY <3>1 DEF settle, Queue!Finish
    <3>. QED
      BY <3>2 DEF Queue!Next
  <2>3. ASSUME NEW E, Queue!Withdraw(JobsOf(E)) PROVE Queue!Next
    <3>1. JobsOf(E) \in SUBSET UNION {queued[p] : p \in Partitions}
      BY DEF JobsOf
    <3>. QED
      BY <2>3, <3>1 DEF Queue!Next
  <2>4. ASSUME NEW d \in Payloads, deploy(d) PROVE Queue!Next
    BY <2>4 DEF deploy, Queue!Next
  <2>5. CASE Requests
    BY <2>3, <2>4, <2>5
    DEF Requests, cleanQueues, deleteService, removePreviewDeployment, serviceCommand,
        clearDeployments, removeDeployment, queueVars
  <2>6. CASE crash
    <3>1. Queue!Init'
      BY <2>6 DEF crash, Queue!Init
    <3>. QED
      BY <2>6, <3>1
  <2>7. CASE Boot \/ UNCHANGED vars
    BY <2>7, BootFrame DEF vars, queueVars
  <2>. QED
    BY <1>2, <2>1, <2>2, <2>5, <2>6, <2>7 DEF Next, queueVars
<1>. QED
  BY <1>1, <1>2, LifecycleTypeCorrect, PTL DEF Spec, UsesQueue
=============================================================================
