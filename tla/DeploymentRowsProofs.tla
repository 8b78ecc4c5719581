------------------------ MODULE DeploymentRowsProofs ------------------------
(***************************************************************************)
(* More theorems about DeploymentLifecycle: what becomes of rows that are  *)
(* finished, which rows retention may take, how many it leaves, and when a *)
(* service is shown as running.                                            *)
(***************************************************************************)
EXTENDS DeploymentLifecycleProofs, FiniteSetTheorems

\* Every client names the same server for a service. Routers and webhooks of a
\* self-hosted instance do so for the services of the local host only.
OneHome ==
  \A d, e \in Payloads : entity(d) = entity(e) => getPartition(d) = getPartition(e)

-----------------------------------------------------------------------------
(* A service has one active job                                            *)

JobsApart ==
  /\ \A p \in Partitions : \A j, k \in queued[p] : j.id = k.id => j = k
  /\ \A j \in DOMAIN task : j \in building[getPartition(j.data)]
  /\ \A p \in Partitions : \A j, k \in building[p] :
       SameService(j.data, k.data) => j = k

\* The queue and the lifecycle compare services alike.
LEMMA SharedServices ==
  /\ \A d, e : Queue!SameService(d, e) <=> SameService(d, e)
  /\ \A d, e : entity(d) = entity(e) => SameService(d, e)
  /\ \A d, e : SameService(d, e) <=> SameService(e, d)
BY DEF Queue!SameService, SameService, entity

\* Every job belongs to a partition.
LEMMA PartitionOfJob ==
  ASSUME NEW j \in Job
  PROVE  getPartition(j.data) \in Partitions
BY PartitionOf DEF Job

\* The queue starts no second build of a service beside the first.
LEMMA JobsApartStart ==
  ASSUME TypeOK, JobsNumbered, JobsApart,
         NEW p \in Partitions, NEW S \in SUBSET queued[p], StartBuilds(p, S)
  PROVE  JobsApart'
<1>1. /\ DOMAIN task' = DOMAIN task \cup S
      /\ \A q \in Partitions : queued'[q] = IF q = p THEN queued[p] \ S ELSE queued[q]
      /\ \A q \in Partitions : building'[q] = IF q = p THEN building[p] \cup S
                                                         ELSE building[q]
  BY DEF StartBuilds, Queue!Start, TypeOK
<1>2. \A j \in S :
        /\ \A k \in building[p] : ~ SameService(j.data, k.data)
        /\ \A k \in queued[p] : SameService(j.data, k.data) => k.id >= j.id
  BY SharedServices DEF StartBuilds, Queue!Start
<1>3. \A j \in S : getPartition(j.data) = p /\ j \in queued[p] /\ j \in Job
  BY DEF JobsNumbered, TypeOK
<1>4. \A q \in Partitions : \A j, k \in queued'[q] : j.id = k.id => j = k
  BY <1>1 DEF JobsApart
<1>5. \A j \in DOMAIN task' : j \in building'[getPartition(j.data)]
  <2>. TAKE j \in DOMAIN task'
  <2>1. j \in Job
    BY <1>1, <1>3 DEF TypeOK
  <2>. QED
    BY <1>1, <1>3, <2>1, PartitionOfJob DEF JobsApart
<1>6. ASSUME NEW j \in building[p] \cup S, NEW k \in building[p] \cup S,
             SameService(j.data, k.data)
      PROVE  j = k
  <2>1. CASE j \in building[p] /\ k \in building[p]
    BY <1>6, <2>1 DEF JobsApart
  <2>2. CASE j \in S /\ k \in S
    <3>1. SameService(k.data, j.data)
      BY <1>6, SharedServices
    <3>2. k.id >= j.id /\ j.id >= k.id /\ j.id \in Nat /\ k.id \in Nat
      BY <1>2, <1>3, <1>6, <2>2, <3>1 DEF Job
    <3>3. j.id = k.id
      BY <3>2
    <3>. QED
      BY <1>3, <2>2, <3>3 DEF JobsApart
  <2>3. CASE j \in S /\ k \in building[p]
    BY <1>2, <1>6, <2>3
  <2>4. CASE j \in building[p] /\ k \in S
    BY <1>2, <1>6, <2>4, SharedServices
  <2>. QED
    BY <2>1, <2>2, <2>3, <2>4
<1>7. \A q \in Partitions : \A j, k \in building'[q] : SameService(j.data, k.data) => j = k
  BY <1>1, <1>6 DEF JobsApart
<1>. QED
  BY <1>4, <1>5, <1>7 DEF JobsApart

\* No step gives a partition two active jobs of one service.
LEMMA JobsApartStep ==
  TypeOK /\ JobsNumbered /\ JobsApart /\ [Next]_vars => JobsApart'
<1>. SUFFICES ASSUME TypeOK, JobsNumbered, JobsApart, [Next]_vars
             PROVE  JobsApart'
  OBVIOUS
<1>1. ASSUME DOMAIN task' = DOMAIN task, UNCHANGED building,
             \A p \in Partitions : queued'[p] \subseteq queued[p]
      PROVE  JobsApart'
  BY <1>1 DEF JobsApart
<1>2. ASSUME NEW j \in DOMAIN task, JobStep(j) PROVE JobsApart'
  <2>1. ASSUME NEW p \in Partitions, settle(p, j) PROVE JobsApart'
    <3>1. /\ DOMAIN task' = DOMAIN task \ {j} /\ UNCHANGED queued
          /\ \A q \in Partitions : building'[q] = IF q = p THEN building[p] \ {j}
                                                            ELSE building[q]
      BY <2>1 DEF settle, Queue!Finish, TypeOK
    <3>2. \A k \in DOMAIN task' : getPartition(k.data) \in Partitions
      BY <3>1, PartitionOfJob DEF TypeOK
    <3>. QED
      BY <3>1, <3>2 DEF JobsApart
  <2>. QED
    BY <1>1, <1>2, <2>1, JobStepFrame DEF queueVars
<1>3. ASSUME NEW d \in Payloads, deploy(d) PROVE JobsApart'
  <2>1. /\ UNCHANGED <<building, task>>
        /\ \A p \in Partitions : \A j \in queued'[p] :
             j \in queued[p] \/ j = [id |-> submitted + 1, data |-> d]
    BY <1>3, SharedPartitions DEF deploy, Queue!Submit, TypeOK
  <2>2. \A p \in Partitions : \A j \in queued[p] : j.id \in Nat /\ j.id <= submitted
    BY DEF JobsNumbered, TypeOK, Job
  <2>. QED
    BY <2>1, <2>2 DEF JobsApart, TypeOK
<1>4. ASSUME NEW S, Queue!Withdraw(S), UNCHANGED task PROVE JobsApart'
  BY <1>1, <1>4, SharedPartitions DEF Queue!Withdraw
<1>5. CASE Requests
  BY <1>1, <1>3, <1>4, <1>5
  DEF Requests, cleanQueues, deleteService, removePreviewDeployment,
      serviceCommand, clearDeployments, removeDeployment, queueVars
<1>6. CASE crash
  BY <1>6 DEF crash, JobsApart
<1>7. CASE Boot \/ UNCHANGED vars
  BY <1>1, <1>7, BootFrame DEF vars, queueVars
<1>. QED
  BY <1>2, <1>5, <1>6, <1>7, JobsApartStart DEF Next

\* If clients agree on its server, two active jobs never deploy one service.
LEMMA OneActiveJob ==
  ASSUME OneHome, TypeOK, JobsApart,
         NEW j \in DOMAIN task, NEW k \in DOMAIN task,
         entity(j.data) = entity(k.data)
  PROVE  j = k
<1>1. j \in Job /\ k \in Job /\ j.data \in Payloads /\ k.data \in Payloads
  BY DEF TypeOK, Job
<1>2. getPartition(j.data) = getPartition(k.data)
  BY <1>1 DEF OneHome
<1>3. SameService(j.data, k.data)
  BY SharedServices
<1>. QED
  BY <1>1, <1>2, <1>3, PartitionOfJob DEF JobsApart

-----------------------------------------------------------------------------
(* Rows have numbers of their own                                          *)

RowsApart == \A r, s \in rows : r.id = s.id => r = s

\* What a step may do to the table.
Written(ids, s) == /\ setRows(ids, s) /\ s # "running"
                   /\ \/ boot = "selected" /\ UNCHANGED task
                      \/ \E j \in DOMAIN task : ids = {task[j].row}
Inserted == \E j \in DOMAIN task : \E s : insert(j, s)

\* A step removes rows, inserts one, or writes one status to some of them.
LEMMA RowsStep ==
  ASSUME TypeOK, [Next]_vars
  PROVE  \/ rows' \subseteq rows
         \/ Inserted
         \/ \E ids : \E s \in RowStatuses : Written(ids, s)
<1>1. ASSUME NEW j \in DOMAIN task, JobStep(j)
      PROVE  \/ rows' \subseteq rows
             \/ Inserted
             \/ \E ids : \E s \in RowStatuses : Written(ids, s)
  <2>1. CASE createDeployment(j)
    BY <1>1, <2>1 DEF createDeployment, Inserted
  <2>2. ASSUME NEW from, NEW s \in RowStatuses, s # "running", NEW to,
               updateDeploymentStatus(j, from, s, to)
        PROVE  Written({task[j].row}, s)
    BY <1>1, <2>2 DEF updateDeploymentStatus, Written
  <2>3. CASE \/ updateDeploymentStatus(j, "rowDone", "done", "statusDone")
             \/ updateDeploymentStatus(j, "rowError", "error", "statusError")
    BY <2>2, <2>3 DEF RowStatuses
  <2>. QED
    BY <1>1, <2>1, <2>3
    DEF JobStep, markRunning, removeLastTenDeployments, removeEach, build, notify,
        report, updateApplicationStatus, settle, dbVars
<1>2. CASE Requests
  BY <1>2, RequestFrame
<1>3. CASE Boot
  <2>1. CASE cancelRows
    <3>1. Written(toCancel, "cancelled")
      BY <2>1, BootFrame DEF cancelRows, Written, Boot
    <3>. QED
      BY <3>1 DEF RowStatuses
  <2>. QED
    BY <1>3, <2>1
    DEF Boot, listen, selectRunning, idleApplications, idleComposes, sweepFails, dbVars
<1>. QED
  BY <1>1, <1>2, <1>3 DEF Next, StartBuilds, crash, vars, dbVars

\* A fresh number is given to one row only.
LEMMA RowsApartStep ==
  TypeOK /\ RowsNumbered /\ RowsApart /\ [Next]_vars => RowsApart'
<1>. SUFFICES ASSUME TypeOK, RowsNumbered, RowsApart, [Next]_vars
             PROVE  RowsApart'
  OBVIOUS
<1>1. CASE rows' \subseteq rows
  BY <1>1 DEF RowsApart
<1>2. ASSUME NEW j, NEW s, insert(j, s) PROVE RowsApart'
  BY <1>2 DEF insert, RowsApart, RowsNumbered, TypeOK
<1>3. ASSUME NEW ids, NEW s, setRows(ids, s) PROVE RowsApart'
  BY <1>3 DEF setRows, RowsApart, TypeOK, Row
<1>. QED
  BY <1>1, <1>2, <1>3, RowsStep DEF Inserted, Written

\* What holds of jobs and rows whatever fails.
Apart == TypeOK /\ JobsNumbered /\ RowsNumbered /\ JobsApart /\ RowsApart

\* They hold always, without an assumption on failures or clients.
LEMMA ApartAlways == Spec => []Apart
<1>1. Init => Apart
  <2>. SUFFICES ASSUME Init PROVE Apart
    OBVIOUS
  <2>1. JobsNumbered /\ JobsApart
    BY SharedPartitions DEF Init, Queue!Init, JobsNumbered, JobsApart
  <2>2. RowsNumbered /\ RowsApart
    BY DEF Init, RowsNumbered, RowsApart
  <2>. QED
    BY <2>1, <2>2, TypeInit DEF Apart
<1>2. Apart /\ [Next]_vars => Apart'
  BY TypeStep, JobsNumberedStep, RowsNumberedStep, JobsApartStep, RowsApartStep
  DEF Apart
<1>. QED
  BY <1>1, <1>2, PTL DEF Spec

\* A finished deployment is rewritten by its own job or the sweep at boot only, and
\* never runs again, whatever fails and whoever builds: FinishedRowsStay.
THEOREM FinishedRowsAreFinal == Spec => FinishedRowsStay
<1>1. ASSUME Apart, [Next]_vars, NEW r \in rows, NEW s \in rows',
             s.id = r.id, r.status # "running", s.status # r.status
      PROVE  /\ s.status # "running"
             /\ boot = "selected" \/ \E j \in DOMAIN task : task[j].row = r.id
  <2>. USE DEF Apart
  <2>1. CASE rows' \subseteq rows
    BY <1>1, <2>1 DEF RowsApart
  <2>2. CASE Inserted
    BY <1>1, <2>2 DEF Inserted, insert, RowsApart, RowsNumbered, TypeOK
  <2>3. ASSUME NEW ids, NEW x \in RowStatuses, Written(ids, x)
        PROVE  /\ s.status # "running"
               /\ boot = "selected" \/ \E j \in DOMAIN task : task[j].row = r.id
    <3>1. PICK q \in rows : /\ s.id = q.id
                            /\ s.id \in ids => s.status = x
                            /\ s.id \notin ids => s = q
      BY <2>3, <1>1, SetRowsFrame DEF Written
    <3>2. q = r
      BY <1>1, <3>1 DEF RowsApart
    <3>. QED
      BY <1>1, <2>3, <3>1, <3>2 DEF Written
  <2>. QED
    BY <1>1, <2>1, <2>2, <2>3, RowsStep
<1>2. Apart /\ [Next]_vars =>
        [\A r \in rows, s \in rows' :
           s.id = r.id /\ r.status # "running" /\ s.status # r.status =>
             /\ s.status # "running"
             /\ boot = "selected" \/ \E j \in DOMAIN task : task[j].row = r.id]_vars
  BY <1>1
<1>. QED
  BY <1>2, ApartAlways, PTL DEF Spec, FinishedRowsStay

-----------------------------------------------------------------------------
(* What retention takes                                                    *)

\* No job is about to settle a row that the removal of another takes, since a job
\* that removes has no row yet and no other job deploys its service.
LEMMA ExpiredSettled ==
  ASSUME OneHome, Apart, NEW j \in DOMAIN task, at(j, "retention"),
         NEW r \in Expired(entity(j.data))
  PROVE  ~ Recorded(r)
<1>. SUFFICES ASSUME NEW k \in DOMAIN task,
                     task[k].row = r.id, task[k].at \in Recording
             PROVE  FALSE
  BY DEF Recorded
<1>1. r \in rows /\ r.of = entity(j.data)
  BY DEF Expired, rowsOf
<1>2. entity(k.data) = entity(j.data)
  BY <1>1 DEF Apart, RowsNumbered
<1>3. k = j
  BY <1>2, OneActiveJob DEF Apart
<1>. QED
  BY <1>3 DEF at, Recording

\* A step of a job leaves the rows of other services, and every row some job is
\* about to settle, provided clients agree on servers: JobsSpareRows.
THEOREM JobsSpareOthers ==
  ASSUME OneHome
  PROVE  Spec => JobsSpareRows
<1>1. ASSUME Apart, [Next]_vars, NEW j \in DOMAIN task \cap DOMAIN task',
             task'[j] # task[j], NEW r \in rows
      PROVE  /\ r.of # entity(j.data) => r \in rows'
             /\ Recorded(r) => \E s \in rows' : s.id = r.id
  <2>. USE DEF Apart
  <2>1. CASE JobStep(j)
    <3>1. CASE removeLastTenDeployments(j)
      <4>1. rows \ Expired(entity(j.data)) \subseteq rows' /\ at(j, "retention")
        BY <3>1 DEF removeLastTenDeployments, removeEach
      <4>2. r \in Expired(entity(j.data)) => r.of = entity(j.data) /\ ~ Recorded(r)
        BY <1>1, <4>1, ExpiredSettled DEF Expired, rowsOf
      <4>. QED
        BY <4>1, <4>2
    <3>2. ASSUME NEW from, NEW s, NEW to, updateDeploymentStatus(j, from, s, to)
          PROVE  /\ r.of # entity(j.data) => r \in rows'
                 /\ \E x \in rows' : x.id = r.id
      <4>1. r.id = task[j].row => r.of = entity(j.data)
        BY <1>1 DEF RowsNumbered
      <4>2. (IF r.id = task[j].row THEN [r EXCEPT !.status = s] ELSE r) \in rows'
        BY <3>2 DEF updateDeploymentStatus, setRows
      <4>3. [r EXCEPT !.status = s].id = r.id
        BY <1>1 DEF TypeOK, Row
      <4>. QED
        BY <4>1, <4>2, <4>3
    <3>3. CASE createDeployment(j)
      BY <3>3 DEF createDeployment, insert
    <3>. QED
      BY <2>1, <3>1, <3>2, <3>3
      DEF JobStep, markRunning, build, notify, report, updateApplicationStatus,
          settle, dbVars
  <2>2. ASSUME NEW k \in DOMAIN task, JobStep(k) PROVE k = j
    BY <1>1, <2>2, JobStepFrame
  <2>3. ~ UNCHANGED task
    BY <1>1
  <2>4. ASSUME NEW p \in Partitions, NEW S \in SUBSET queued[p], StartBuilds(p, S)
        PROVE  FALSE
    BY <1>1, <2>4 DEF StartBuilds, JobsNumbered
  <2>5. ~ crash
    BY <1>1 DEF crash
  <2>. QED
    BY <1>1, <2>1, <2>2, <2>3, <2>4, <2>5, RequestFrame, BootFrame DEF Next, vars
<1>2. Apart /\ [Next]_vars =>
        [\A j \in DOMAIN task \cap DOMAIN task' : task'[j] # task[j] =>
           \A r \in rows :
             /\ r.of # entity(j.data) => r \in rows'
             /\ Recorded(r) => \E s \in rows' : s.id = r.id]_vars
  BY <1>1
<1>. QED
  BY <1>2, ApartAlways, PTL DEF Spec, JobsSpareRows

-----------------------------------------------------------------------------
(* How many rows retention leaves                                          *)

\* A row that is not stuck has Keep newer ones at most, and fewer than Keep while a
\* job of its service, which has removed the others, is to insert one.
Kept(r, n) == r.id \in stuck \/ Cardinality(newer(r)) <= n

Room ==
  /\ IsFiniteSet(rows)
  /\ \A r \in rows : Kept(r, Keep)
  /\ \A j \in DOMAIN task : at(j, "insert") =>
       \A r \in rowsOf(entity(j.data)) : Kept(r, Keep - 1)

\* One more element makes a set larger by one at most.
LEMMA AddOne ==
  ASSUME NEW T, IsFiniteSet(T), NEW x
  PROVE  /\ IsFiniteSet(T \cup {x})
         /\ Cardinality(T \cup {x}) \in Nat
         /\ Cardinality(T) \in Nat
         /\ Cardinality(T \cup {x}) <= Cardinality(T) + 1
<1>1. IsFiniteSet(T \cup {x}) /\ (x \in T => Cardinality(T \cup {x}) = Cardinality(T))
                          /\ (x \notin T => Cardinality(T \cup {x}) = Cardinality(T) + 1)
  BY FS_AddElement
<1>2. Cardinality(T) \in Nat /\ Cardinality(T \cup {x}) \in Nat
  BY <1>1, FS_CardinalityType
<1>. QED
  BY <1>1, <1>2

\* The newer rows of a row are finite in number.
LEMMA NewerFinite ==
  ASSUME IsFiniteSet(rows), NEW r
  PROVE  IsFiniteSet(newer(r)) /\ Cardinality(newer(r)) \in Nat
<1>1. newer(r) \subseteq rows
  BY DEF newer, rowsOf
<1>. QED
  BY <1>1, FS_Subset, FS_CardinalityType

\* A row keeps its place if no row of its service is newer that was not before.
LEMMA KeptStays ==
  ASSUME IsFiniteSet(rows), IsFiniteSet(rows'), stuck \subseteq stuck',
         NEW r, newer(r)' \subseteq newer(r), NEW n \in Int, Kept(r, n)
  PROVE  r.id \in stuck' \/ Cardinality(newer(r)') <= n
<1>1. /\ Cardinality(newer(r)') <= Cardinality(newer(r))
      /\ Cardinality(newer(r)') \in Nat /\ Cardinality(newer(r)) \in Nat
  BY NewerFinite, FS_Subset, FS_CardinalityType
<1>. QED
  BY <1>1 DEF Kept

\* Writing a status leaves every row the newer rows it had.
LEMMA SetRowsKept ==
  ASSUME TypeOK, IsFiniteSet(rows), UNCHANGED stuck, NEW ids, NEW s, setRows(ids, s)
  PROVE  /\ IsFiniteSet(rows')
         /\ \A q \in rows' : \E r \in rows :
              /\ q.of = r.of
              /\ \A n \in Int : Kept(r, n) => Kept(q, n)'
<1>. DEFINE w(r) == IF r.id \in ids THEN [r EXCEPT !.status = s] ELSE r
            f    == [r \in rows |-> w(r)]
<1>1. rows' = {w(r) : r \in rows}
  BY DEF setRows
<1>2. \A r \in rows : w(r).of = r.of /\ w(r).id = r.id
  BY DEF TypeOK, Row
<1>3. IsFiniteSet(rows')
  <2>1. f \in Surjection(rows, rows')
    BY <1>1 DEF Surjection
  <2>. QED
    BY <2>1, FS_Surjection
<1>4. ASSUME NEW q \in rows'
      PROVE  \E r \in rows : q.of = r.of /\ \A n \in Int : Kept(r, n) => Kept(q, n)'
  <2>1. PICK r \in rows : q = w(r)
    BY <1>1
  <2>2. q.of = r.of /\ q.id = r.id
    BY <1>2, <2>1
  <2>. DEFINE g == [x \in newer(r) |-> w(x)]
  <2>. HIDE DEF w
  <2>3. newer(q)' = {w(x) : x \in newer(r)}
    BY <1>1, <1>2, <2>2 DEF newer, rowsOf
  <2>4. g \in Surjection(newer(r), newer(q)')
    BY <2>3 DEF Surjection
  <2>5. /\ Cardinality(newer(q)') <= Cardinality(newer(r))
        /\ Cardinality(newer(q)') \in Nat /\ Cardinality(newer(r)) \in Nat
    BY <2>4, NewerFinite, FS_Surjection, FS_CardinalityType
  <2>6. ASSUME NEW n \in Int, Kept(r, n) PROVE Kept(q, n)'
    BY <2>2, <2>5, <2>6 DEF Kept
  <2>. QED
    BY <2>2, <2>6
<1>. QED
  BY <1>3, <1>4

\* The jobs about to insert a row were so before, or have just removed the old ones.
NoneArrives ==
  \A k \in DOMAIN task' : task'[k].at = "insert" =>
    k \in DOMAIN task /\ task[k].at = "insert"

\* Removing rows leaves room.
LEMMA RoomLess ==
  ASSUME Room, NoneArrives, rows' \subseteq rows, UNCHANGED stuck
  PROVE  Room'
<1>1. IsFiniteSet(rows) /\ IsFiniteSet(rows')
  BY FS_Subset DEF Room
<1>2. \A r : newer(r)' \subseteq newer(r)
  BY DEF newer, rowsOf
<1>3. \A r : \A n \in Int : Kept(r, n) => Kept(r, n)'
  <2>1. \A r : \A n \in Int :
          Kept(r, n) => r.id \in stuck' \/ Cardinality(newer(r)') <= n
    BY <1>1, <1>2, KeptStays
  <2>. QED
    BY <2>1 DEF Kept
<1>4. Keep \in Int /\ Keep - 1 \in Int
  BY NumbersAssumption
<1>. QED
  BY <1>1, <1>3, <1>4 DEF Room, at, NoneArrives, rowsOf

\* So does writing a status.
LEMMA RoomWritten ==
  ASSUME TypeOK, Room, NoneArrives, NEW ids, NEW s, setRows(ids, s), UNCHANGED stuck
  PROVE  Room'
<1>1. /\ IsFiniteSet(rows')
      /\ \A q \in rows' : \E r \in rows :
           /\ q.of = r.of
           /\ \A n \in Int : Kept(r, n) => Kept(q, n)'
  BY SetRowsKept DEF Room
<1>2. Keep \in Int /\ Keep - 1 \in Int
  BY NumbersAssumption
<1>3. \A q \in rows' : Kept(q, Keep)'
  BY <1>1, <1>2 DEF Room
<1>4. ASSUME NEW k \in DOMAIN task', task'[k].at = "insert",
             NEW q \in rows', q.of = entity(k.data)
      PROVE  Kept(q, Keep - 1)'
  <2>1. PICK r \in rows : q.of = r.of /\ \A n \in Int : Kept(r, n) => Kept(q, n)'
    BY <1>1
  <2>2. Kept(r, Keep - 1)
    BY <1>4, <2>1 DEF Room, NoneArrives, at, rowsOf
  <2>. QED
    BY <1>2, <2>1, <2>2
<1>. QED
  BY <1>1, <1>3, <1>4 DEF Room, at, rowsOf

\* A job that goes on to insert has left its service no row with Keep newer ones or
\* more, but those it failed to remove.
LEMMA RoomRetention ==
  ASSUME Apart, Room, NEW j \in DOMAIN task, removeLastTenDeployments(j)
  PROVE  Room'
<1>. USE DEF Apart
<1>. DEFINE d == entity(j.data)
<1>1. CASE NoneArrives /\ UNCHANGED <<rows, stuck>>
  BY <1>1, RoomLess
<1>2. ASSUME NEW F \in SUBSET Expired(d),
             rows' = rows \ (Expired(d) \ F),
             stuck' = stuck \cup {r.id : r \in F},
             NEW step, goto(j, step)
      PROVE  Room'
  <2>1. IsFiniteSet(rows) /\ IsFiniteSet(rows')
    BY <1>2, FS_Subset DEF Room
  <2>2. rows' \subseteq rows /\ \A r : newer(r)' \subseteq newer(r)
    BY <1>2 DEF newer, rowsOf
  <2>3. \A r : \A n \in Int : Kept(r, n) => Kept(r, n)'
    <3>1. \A r : \A n \in Int :
            Kept(r, n) => r.id \in stuck' \/ Cardinality(newer(r)') <= n
      BY <1>2, <2>1, <2>2, KeptStays
    <3>. QED
      BY <3>1 DEF Kept
  <2>4. Keep \in Int /\ Keep - 1 \in Int
    BY NumbersAssumption
  <2>5. ASSUME NEW r \in rows', r.of = d PROVE Kept(r, Keep - 1)'
    <3>1. r \in rowsOf(d) /\ Cardinality(newer(r)) \in Nat
      BY <2>1, <2>2, <2>5, NewerFinite DEF rowsOf
    <3>2. CASE r \in Expired(d)
      BY <1>2, <2>5, <3>2 DEF Kept
    <3>3. CASE r \notin Expired(d)
      <4>1. Kept(r, Keep - 1)
        BY <2>4, <3>1, <3>3 DEF Expired, Kept
      <4>. QED
        BY <2>3, <2>4, <4>1
    <3>. QED
      BY <3>2, <3>3
  <2>6. ASSUME NEW k \in DOMAIN task', task'[k].at = "insert",
               NEW r \in rows', r.of = entity(k.data)
        PROVE  Kept(r, Keep - 1)'
    <3>1. k \in DOMAIN task /\ (k # j => task'[k] = task[k])
      BY <1>2, <2>6 DEF goto
    <3>2. CASE k = j
      BY <2>5, <2>6, <3>2
    <3>3. CASE k # j
      <4>1. Kept(r, Keep - 1)
        BY <2>2, <2>6, <3>1, <3>3 DEF Room, at, rowsOf
      <4>. QED
        BY <2>3, <2>4, <4>1
    <3>. QED
      BY <3>2, <3>3
  <2>7. \A r \in rows' : Kept(r, Keep)'
    BY <2>2, <2>3, <2>4 DEF Room
  <2>. QED
    BY <2>1, <2>6, <2>7 DEF Room, at, rowsOf
<1>3. ASSUME goto(j, "end") PROVE NoneArrives
  BY <1>3 DEF goto, NoneArrives, TypeOK
<1>. QED
  BY <1>1, <1>2, <1>3 DEF removeLastTenDeployments, removeEach

\* The row a job inserts is the last there is room for: no other job of the service
\* has made room as well.
LEMMA RoomInsert ==
  ASSUME OneHome, Apart, Room, NEW j \in DOMAIN task, at(j, "insert"),
         NEW s, insert(j, s), UNCHANGED stuck, DOMAIN task' = DOMAIN task,
         \A k \in DOMAIN task : k # j => task'[k] = task[k],
         task'[j].at # "insert"
  PROVE  Room'
<1>. USE DEF Apart
<1>. DEFINE d == entity(j.data)
<1>0. PICK x : x = [id |-> lastRow + 1, of |-> d, status |-> s]
  OBVIOUS
<1>1. rows' = rows \cup {x} /\ IsFiniteSet(rows)
  BY <1>0 DEF insert, Room
<1>2. IsFiniteSet(rows')
  BY <1>1, AddOne
<1>3. \A r \in rows : newer(r)' \subseteq newer(r) \cup {x}
  BY <1>1 DEF newer, rowsOf
<1>4. \A r \in rows : r.of # d => newer(r)' = newer(r)
  BY <1>0, <1>1 DEF newer, rowsOf
<1>5. newer(x)' = {}
  BY <1>0, <1>1 DEF newer, rowsOf, RowsNumbered, TypeOK
<1>6. ASSUME NEW r \in rows PROVE Kept(r, Keep)'
  <2>1. CASE r.of # d
    BY <1>4, <2>1 DEF Room, Kept
  <2>2. CASE r.of = d
    <3>1. Kept(r, Keep - 1)
      BY <2>2 DEF Room, rowsOf
    <3>2. IsFiniteSet(newer(r)) /\ Cardinality(newer(r)) \in Nat
      BY <1>1, NewerFinite
    <3>3. /\ IsFiniteSet(newer(r) \cup {x})
          /\ Cardinality(newer(r) \cup {x}) \in Nat
          /\ Cardinality(newer(r) \cup {x}) <= Cardinality(newer(r)) + 1
      BY <3>2, AddOne, Zenon
    <3>4. /\ Cardinality(newer(r)') \in Nat
          /\ Cardinality(newer(r)') <= Cardinality(newer(r) \cup {x})
      BY <1>3, <3>3, FS_Subset, FS_CardinalityType
    <3>. QED
      BY <3>1, <3>2, <3>3, <3>4, NumbersAssumption DEF Kept
  <2>. QED
    BY <2>1, <2>2
<1>7. Kept(x, Keep)'
  BY <1>5, FS_EmptySet, NumbersAssumption DEF Kept
<1>8. ASSUME NEW k \in DOMAIN task', task'[k].at = "insert",
             NEW r \in rows', r.of = entity(k.data)
      PROVE  Kept(r, Keep - 1)'
  <2>1. k # j /\ at(k, "insert") /\ k \in DOMAIN task
    BY <1>8 DEF at
  <2>2. entity(k.data) # d
    BY <2>1, OneActiveJob
  <2>3. r \in rows /\ r.of # d
    BY <1>0, <1>1, <1>8, <2>2
  <2>4. Kept(r, Keep - 1)
    BY <1>8, <2>1, <2>3 DEF Room, rowsOf
  <2>. QED
    BY <1>4, <2>3, <2>4 DEF Kept
<1>. QED
  BY <1>1, <1>2, <1>6, <1>7, <1>8 DEF Room, at, rowsOf

\* Every step preserves Room, if clients agree on servers.
LEMMA RoomStep ==
  ASSUME OneHome, Apart, Room, [Next]_vars
  PROVE  Room'
<1>. USE DEF Apart
<1>1. ASSUME NEW j \in DOMAIN task, JobStep(j) PROVE Room'
  <2>1. CASE removeLastTenDeployments(j)
    BY <2>1, RoomRetention
  <2>2. CASE createDeployment(j)
    <3>1. at(j, "insert")
      BY <2>2 DEF createDeployment
    <3>2. /\ DOMAIN task' = DOMAIN task
          /\ \A k \in DOMAIN task : k # j => task'[k] = task[k]
          /\ task'[j].at # "insert"
      BY <2>2 DEF createDeployment, goto, TypeOK
    <3>3. CASE UNCHANGED rows
      BY <2>2, <3>2, <3>3, RoomLess DEF createDeployment, bootVars, NoneArrives
    <3>4. ASSUME NEW s, insert(j, s) PROVE Room'
      BY <2>2, <3>1, <3>2, <3>4, RoomInsert DEF createDeployment, bootVars
    <3>. QED
      BY <2>2, <3>3, <3>4 DEF createDeployment
  <2>3. ASSUME NEW from, NEW s, NEW to, to # "insert",
               updateDeploymentStatus(j, from, s, to)
        PROVE  Room'
    <3>1. NoneArrives
      BY <2>3 DEF updateDeploymentStatus, goto, NoneArrives, TypeOK
    <3>. QED
      BY <2>3, <3>1, RoomWritten DEF updateDeploymentStatus, bootVars
  <2>4. ASSUME UNCHANGED <<rows, stuck>>, NEW step, step # "insert", goto(j, step)
        PROVE  Room'
    <3>1. NoneArrives
      BY <2>4 DEF goto, NoneArrives, TypeOK
    <3>. QED
      BY <2>4, <3>1, RoomLess
  <2>5. ASSUME NEW p \in Partitions, settle(p, j) PROVE Room'
    BY <2>5, RoomLess DEF settle, NoneArrives, dbVars, bootVars
  <2>. QED
    BY <1>1, <2>1, <2>2, <2>3, <2>4, <2>5
    DEF JobStep, markRunning, build, notify, report, updateApplicationStatus,
        thrownTo, dbVars, bootVars
<1>2. CASE Requests
  <2>1. UNCHANGED stuck
    BY <1>2
    DEF Requests, deploy, cleanQueues, deleteService, removePreviewDeployment,
        serviceCommand, clearDeployments, removeDeployment, Request, bootVars
  <2>. QED
    BY <1>2, <2>1, RequestFrame, RoomLess DEF NoneArrives
<1>3. ASSUME NEW p \in Partitions, NEW S \in SUBSET queued[p], StartBuilds(p, S)
      PROVE  Room'
  <2>1. NoneArrives
    BY <1>3 DEF StartBuilds, NoneArrives
  <2>. QED
    BY <1>3, <2>1, RoomLess DEF StartBuilds, dbVars, bootVars
<1>4. CASE crash
  BY <1>4, RoomLess DEF crash, NoneArrives, dbVars
<1>5. CASE Boot
  <2>1. NoneArrives
    BY <1>5, BootFrame DEF NoneArrives
  <2>2. CASE cancelRows
    BY <2>1, <2>2, RoomWritten DEF cancelRows
  <2>3. CASE UNCHANGED <<rows, stuck>>
    BY <2>1, <2>3, RoomLess
  <2>. QED
    BY <1>5, <2>2, <2>3
    DEF Boot, listen, selectRunning, idleApplications, idleComposes, sweepFails, dbVars
<1>6. CASE UNCHANGED vars
  BY <1>6, RoomLess DEF NoneArrives, vars, dbVars, bootVars
<1>. QED
  BY <1>1, <1>2, <1>3, <1>4, <1>5, <1>6 DEF Next

\* Retention leaves a service the deployments kept and the current one, but for the
\* rows it failed to remove, whatever else fails and however often the server
\* crashes: RowsBounded.
THEOREM RowsAreBounded ==
  ASSUME OneHome
  PROVE  Spec => []RowsBounded
<1>1. Init => Room
  <2>. SUFFICES ASSUME Init PROVE Room
    OBVIOUS
  <2>1. rows = {} /\ DOMAIN task = {}
    BY DEF Init
  <2>2. IsFiniteSet({}) /\ Cardinality({}) = 0
    BY FS_EmptySet
  <2>. QED
    BY <2>1, <2>2 DEF Room, rowsOf
<1>2. Apart /\ Room /\ [Next]_vars => Room'
  BY RoomStep
<1>3. Room => RowsBounded
  <2>. SUFFICES ASSUME Room, NEW r \in rows, Cardinality(newer(r)) > Keep
               PROVE  r.id \in stuck
    BY DEF RowsBounded
  <2>. QED
    BY NewerFinite, NumbersAssumption DEF Room, Kept
<1>. QED
  BY <1>1, <1>2, <1>3, ApartAlways, PTL DEF Spec

-----------------------------------------------------------------------------
(* When a service is shown as running                                      *)

\* The failures after which a service may stay "running" do not happen.
Settling == {"report", "domain", "retention", "clear"} \cap Faults = {}

\* A job that may have to report a failure finds the log, if its service is there.
LogsOrGone ==
  \A j \in DOMAIN task : task[j].at \in Recording \cup {"statusDone", "notify"} =>
    entity(j.data) \in logs \/ status[entity(j.data)] = "absent"

\* The steps of a job that will still write the status of its service.
Unsettled == Steps \ {"status", "notify", "end"}

Settles(e) == \E j \in DOMAIN task : entity(j.data) = e /\ task[j].at \in Unsettled

Quiet == crashes = 0 => \A e \in Entities : status[e] = "running" => Settles(e)

QuietInv == TypeOK /\ JobsNumbered /\ LogsOrGone /\ Quiet

\* Nothing brings a deleted service back.
LEMMA GoneStays ==
  ASSUME TypeOK, [Next]_vars, NEW e \in Entities, status[e] = "absent"
  PROVE  status'[e] = "absent"
<1>1. ASSUME NEW E, NEW s, setStatus(E, s) PROVE status'[e] = "absent"
  BY <1>1 DEF setStatus
<1>2. ASSUME NEW j \in DOMAIN task, JobStep(j) PROVE status'[e] = "absent"
  BY <1>1, <1>2
  DEF JobStep, markRunning, removeLastTenDeployments, createDeployment, build,
      notify, report, updateApplicationStatus, updateDeploymentStatus, settle, dbVars
<1>3. CASE Requests
  BY <1>1, <1>3
  DEF Requests, deploy, cleanQueues, deleteService, removePreviewDeployment,
      serviceCommand, clearDeployments, removeDeployment, dbVars, TypeOK
<1>4. CASE Boot
  BY <1>1, <1>4
  DEF Boot, listen, selectRunning, cancelRows, idleApplications, idleComposes, sweepFails, dbVars
<1>. QED
  BY <1>2, <1>3, <1>4 DEF Next, StartBuilds, crash, vars, dbVars

\* The log of a service outlives its jobs, unless the service goes as well.
LEMMA LogsStep ==
  ASSUME Settling, TypeOK, JobsNumbered, LogsOrGone, [Next]_vars
  PROVE  LogsOrGone'
<1>. DEFINE Log == Recording \cup {"statusDone", "notify"}
            Safe(e) == e \in logs \/ status[e] = "absent"
<1>1. ASSUME \A j \in DOMAIN task' : task'[j].at \in Log =>
               \/ j \in DOMAIN task /\ task[j].at \in Log
               \/ entity(j.data) \in logs',
             \A j \in DOMAIN task : entity(j.data) \in logs =>
               entity(j.data) \in logs' \/ status'[entity(j.data)] = "absent"
      PROVE  LogsOrGone'
  <2>1. \A j \in DOMAIN task : entity(j.data) \in Entities
    BY EntityOf DEF TypeOK
  <2>. QED
    BY <1>1, <2>1, GoneStays DEF LogsOrGone
<1>2. ASSUME NEW j \in DOMAIN task, JobStep(j) PROVE LogsOrGone'
  <2>1. \A e : e \in logs => e \in logs'
    BY <1>2
    DEF JobStep, markRunning, removeLastTenDeployments, createDeployment, build,
        notify, report, updateApplicationStatus, updateDeploymentStatus, settle, dbVars
  <2>2. ASSUME NEW k \in DOMAIN task', k # j PROVE k \in DOMAIN task /\ task'[k] = task[k]
    BY <1>2, <2>2, JobStepFrame DEF settle
  <2>3. ASSUME j \in DOMAIN task', task'[j].at \in Log
        PROVE  task[j].at \in Log \/ entity(j.data) \in logs'
    BY <1>2, <2>3
    DEF JobStep, markRunning, removeLastTenDeployments, createDeployment, build,
        notify, report, updateApplicationStatus, updateDeploymentStatus, settle,
        at, goto, thrownTo, Recording, TypeOK
  <2>4. \A k \in DOMAIN task' : task'[k].at \in Log =>
          (k \in DOMAIN task /\ task[k].at \in Log) \/ entity(k.data) \in logs'
    BY <1>2, <2>2, <2>3
  <2>. QED
    BY <1>1, <2>1, <2>4
<1>3. CASE Requests
  <2>1. UNCHANGED task
    BY <1>3, RequestFrame
  <2>2. \A j \in DOMAIN task : entity(j.data) \in logs =>
          entity(j.data) \in logs' \/ status'[entity(j.data)] = "absent"
    <3>1. \A j \in DOMAIN task : entity(j.data) \in Entities
      BY EntityOf DEF TypeOK
    <3>2. ASSUME NEW e \in Entities, clearDeployments(e)
          PROVE  \A j \in DOMAIN task : entity(j.data) \in logs => entity(j.data) \in logs'
      BY <3>2 DEF clearDeployments, Settling
    <3>3. ASSUME NEW e \in Entities, deleteService(e) \/ removePreviewDeployment(e),
                 NEW f \in Entities, f \in logs
          PROVE  f \in logs' \/ status'[f] = "absent"
      BY <3>3 DEF deleteService, removePreviewDeployment, TypeOK
    <3>. QED
      BY <1>3, <3>1, <3>2, <3>3
      DEF Requests, deploy, cleanQueues, serviceCommand, removeDeployment, dbVars
  <2>. QED
    BY <1>1, <2>1, <2>2
<1>4. ASSUME NEW p \in Partitions, NEW S \in SUBSET queued[p], StartBuilds(p, S)
      PROVE  LogsOrGone'
  <2>1. \A j \in DOMAIN task' : task'[j].at \in Log =>
          j \in DOMAIN task /\ task[j].at \in Log
    BY <1>4 DEF StartBuilds, Recording
  <2>. QED
    BY <1>1, <1>4, <2>1 DEF StartBuilds, dbVars
<1>5. CASE crash
  BY <1>5 DEF crash, LogsOrGone
<1>6. CASE Boot
  BY <1>1, <1>6, BootFrame
<1>7. CASE UNCHANGED vars
  BY <1>1, <1>7 DEF vars, dbVars
<1>. QED
  BY <1>2, <1>3, <1>4, <1>5, <1>6, <1>7 DEF Next

\* Before a job ends, it has put back the status of its service.
LEMMA QuietStep ==
  ASSUME Settling, QuietInv, [Next]_vars
  PROVE  Quiet'
<1>. USE DEF QuietInv
<1>. SUFFICES ASSUME crashes' = 0, NEW e \in Entities, status'[e] = "running"
             PROVE  Settles(e)'
  BY DEF Quiet
<1>0. crashes = 0
  <2>1. crashes' = crashes \/ crashes' = crashes + 1
    BY DEF Next, Requests, deploy, cleanQueues, deleteService,
       removePreviewDeployment, serviceCommand, clearDeployments, removeDeployment,
       Request, StartBuilds, JobStep, markRunning, removeLastTenDeployments,
       createDeployment, build, notify, report, updateApplicationStatus,
       updateDeploymentStatus, settle, crash, Boot, listen, selectRunning,
       cancelRows, idleApplications, idleComposes, sweepFails, bootVars, vars
  <2>. QED
    BY <2>1 DEF TypeOK
<1>1. ASSUME NEW E, NEW s, s # "running", setStatus(E, s) PROVE status[e] = "running"
  BY <1>1 DEF setStatus
<1>2. ASSUME status[e] = "running",
             \A j \in DOMAIN task : j \in DOMAIN task' /\ task'[j] = task[j]
      PROVE  Settles(e)'
  BY <1>0, <1>2 DEF Quiet, Settles
<1>3. ASSUME NEW j \in DOMAIN task, JobStep(j) PROVE Settles(e)'
  <2>0. j \in Job /\ entity(j.data) \in Entities
    BY EntityOf DEF TypeOK
  <2>1. CASE markRunning(j)
    <3>1. CASE e = entity(j.data)
      BY <2>1, <3>1 DEF markRunning, goto, at, Settles, Unsettled, Steps, TypeOK
    <3>2. CASE e # entity(j.data)
      <4>1. status[e] = "running"
        BY <2>1, <3>2 DEF markRunning, setStatus
      <4>2. PICK k \in DOMAIN task : entity(k.data) = e /\ task[k].at \in Unsettled
        BY <1>0, <4>1 DEF Quiet, Settles
      <4>3. k # j /\ k \in DOMAIN task' /\ task'[k] = task[k]
        BY <2>1, <3>2, <4>2 DEF markRunning, goto
      <4>. QED
        BY <4>2, <4>3 DEF Settles
    <3>. QED
      BY <3>1, <3>2
  <2>2. CASE ~ markRunning(j)
    <3>1. status[e] = "running"
      BY <1>1, <1>3, <2>2
      DEF JobStep, removeLastTenDeployments, createDeployment, build, notify,
          report, updateApplicationStatus, updateDeploymentStatus, settle, dbVars
    <3>2. PICK k \in DOMAIN task : entity(k.data) = e /\ task[k].at \in Unsettled
      BY <1>0, <3>1 DEF Quiet, Settles
    <3>3. CASE k # j
      BY <1>3, <3>2, <3>3, JobStepFrame DEF Settles, settle
    <3>4. CASE k = j
      <4>1. j \in DOMAIN task' /\ task'[j].at \in Unsettled
        <5>1. task[j].at \in Unsettled /\ status[entity(j.data)] = "running"
          BY <3>1, <3>2, <3>4
        <5>2. CASE removeLastTenDeployments(j)
          BY <5>1, <5>2
          DEF removeLastTenDeployments, goto, Settling, Unsettled, Steps, TypeOK
        <5>3. CASE createDeployment(j)
          BY <5>1, <5>3 DEF createDeployment, goto, Unsettled, Steps, TypeOK
        <5>4. CASE build(j)
          BY <5>1, <5>4 DEF build, goto, thrownTo, Settling, Unsettled, Steps, TypeOK
        <5>5. CASE report(j)
          <6>1. entity(j.data) \in logs
            BY <5>1, <5>5 DEF report, at, LogsOrGone, Recording
          <6>. QED
            BY <5>1, <5>5, <6>1 DEF report, goto, Settling, Unsettled, Steps, TypeOK
        <5>6. CASE \/ updateDeploymentStatus(j, "rowDone", "done", "statusDone")
                   \/ updateDeploymentStatus(j, "rowError", "error", "statusError")
          BY <5>1, <5>6 DEF updateDeploymentStatus, goto, Unsettled, Steps, TypeOK
        <5>7. ASSUME NEW from, NEW s, s # "running", NEW to,
                     updateApplicationStatus(j, from, s, to)
              PROVE  FALSE
          BY <2>0, <3>2, <3>4, <5>1, <5>7 DEF updateApplicationStatus, setStatus
        <5>. QED
          BY <1>3, <2>2, <5>1, <5>2, <5>3, <5>4, <5>5, <5>6, <5>7
          DEF JobStep, notify, settle, at, Unsettled
      <4>. QED
        BY <3>2, <3>4, <4>1 DEF Settles
    <3>. QED
      BY <3>3, <3>4
  <2>. QED
    BY <2>1, <2>2
<1>4. CASE Requests
  <2>1. status[e] = "running"
    <3>1. ASSUME NEW f \in Entities, serviceCommand(f) PROVE status[e] = "running"
      BY <1>1, <3>1 DEF serviceCommand
    <3>2. ASSUME NEW f \in Entities, deleteService(f) \/ removePreviewDeployment(f)
          PROVE  status[e] = "running"
      BY <3>2 DEF deleteService, removePreviewDeployment, TypeOK
    <3>. QED
      BY <1>4, <3>1, <3>2
      DEF Requests, deploy, cleanQueues, clearDeployments, removeDeployment, dbVars
  <2>. QED
    BY <1>2, <1>4, <2>1, RequestFrame
<1>5. ASSUME NEW p \in Partitions, NEW S \in SUBSET queued[p], StartBuilds(p, S)
      PROVE  Settles(e)'
  BY <1>2, <1>5 DEF StartBuilds, JobsNumbered, dbVars
<1>6. CASE crash
  BY <1>0, <1>6 DEF crash
<1>7. CASE Boot
  <2>1. status[e] = "running"
    BY <1>1, <1>7
    DEF Boot, listen, selectRunning, cancelRows, idleApplications, idleComposes, sweepFails,
        dbVars
  <2>. QED
    BY <1>2, <1>7, <2>1, BootFrame
<1>8. CASE UNCHANGED vars
  BY <1>2, <1>8 DEF vars, dbVars
<1>. QED
  BY <1>3, <1>4, <1>5, <1>6, <1>7, <1>8 DEF Next

\* Without the four failures named and until the first crash, a service shown as
\* running has a job that deploys it: QuietServicesSettled.
THEOREM RunningServicesHaveJobs ==
  ASSUME Settling
  PROVE  Spec => []QuietServicesSettled
<1>1. Init => QuietInv
  <2>. SUFFICES ASSUME Init PROVE QuietInv
    OBVIOUS
  <2>1. JobsNumbered
    BY SharedPartitions DEF Init, Queue!Init, JobsNumbered
  <2>2. LogsOrGone /\ Quiet
    BY DEF Init, LogsOrGone, Quiet
  <2>. QED
    BY <2>1, <2>2, TypeInit DEF QuietInv
<1>2. QuietInv /\ [Next]_vars => QuietInv'
  BY TypeStep, JobsNumberedStep, LogsStep, QuietStep DEF QuietInv
<1>3. QuietInv => QuietServicesSettled
  BY DEF QuietInv, Quiet, Settles, QuietServicesSettled
<1>. QED
  BY <1>1, <1>2, <1>3, PTL DEF Spec
=============================================================================
