---------------------- MODULE DeploymentRequestsProofs ----------------------
(***************************************************************************)
(* What the routers and webhooks of a self-hosted instance may rely on,    *)
(* for every set of services, limits and bounds: one build per service if  *)
(* all of them are local, and no idle slot while limits do not change.     *)
(***************************************************************************)
EXTENDS DeploymentRequests, DeploymentQueueProofs

\* The requests are operations of the queue.
LEMMA RequestsUseQueue == NextRequests => Next
<1>1. ASSUME NEW s \in Services, NEW type \in Kinds[s]
      PROVE  routerJob(type, s) \in Payloads /\ webhookJob(type, s) \in Payloads
  BY RequestsAssumption
<1>. QED
  BY <1>1 DEF NextRequests, routerDeploy, webhookDeploy, Next, Clients

\* What is proved of the queue holds under these requests.
LEMMA QueueInvariant == SpecRequests => []IInv
<1>1. [NextRequests]_vars => [Next]_vars
  BY RequestsUseQueue
<1>. QED
  BY <1>1, InductiveInvariant, PTL DEF SpecRequests, Spec

\* What routers and webhooks do to the queue of a self-hosted instance is what
\* ServiceQueue allows.
THEOREM RequestsImplementQueue == SpecRequests => ImplementsServiceQueue
<1>1. [NextRequests]_vars => [Next]_vars
  BY RequestsUseQueue
<1>. QED
  BY <1>1, Refinement, PTL DEF SpecRequests, Spec

-----------------------------------------------------------------------------
(* One build of a service                                                  *)

AllLocal == \A s \in Services : Home[s] = NoServer

\* The jobs of the other partitions: there are none.
LocalJobs ==
  \A p \in Partitions : p # LOCAL_PARTITION => waiting[p] = {} /\ active[p] = {}

\* No request of a local service leads to another partition.
LEMMA LocalJobsStep ==
  ASSUME AllLocal, TypeOK, LocalJobs, [NextRequests]_vars
  PROVE  LocalJobs'
<1>1. ASSUME UNCHANGED active,
             \A p \in Partitions : waiting'[p] \subseteq waiting[p]
      PROVE  LocalJobs'
  BY <1>1 DEF LocalJobs
<1>2. ASSUME NEW s \in Services, routerDeploy(s) \/ webhookDeploy(s)
      PROVE  LocalJobs'
  <2>1. PICK d \in DeploymentJob : d.serverId = NoServer /\ add(d)
    <3>1. ASSUME NEW type \in Kinds[s]
          PROVE  /\ routerJob(type, s) \in DeploymentJob
                 /\ webhookJob(type, s) \in DeploymentJob
                 /\ routerJob(type, s).serverId = NoServer
                 /\ webhookJob(type, s).serverId = NoServer
      BY RequestsAssumption, PayloadsAssumption DEF routerJob, webhookJob, AllLocal
    <3>. QED
      BY <1>2, <3>1 DEF routerDeploy, webhookDeploy
  <2>2. getPartition(d) = LOCAL_PARTITION
    BY <2>1 DEF getPartition
  <2>. QED
    BY <2>1, <2>2 DEF add, LocalJobs, TypeOK
<1>3. ASSUME NEW S, withdraw(S) PROVE LocalJobs'
  BY <1>1, <1>3 DEF withdraw
<1>4. ASSUME NEW p \in Partitions, NEW c \in Concurrency, DrainPartition(p, c)
      PROVE  LocalJobs'
  <2>1. Admitted(p, c) \subseteq waiting[p]
    BY CandidatesWait
  <2>. QED
    BY <1>4, <2>1 DEF DrainPartition, LocalJobs, TypeOK
<1>5. ASSUME NEW p \in Partitions, NEW j \in active[p], JobSettles(p, j)
      PROVE  LocalJobs'
  BY <1>5 DEF JobSettles, LocalJobs, TypeOK
<1>. QED
  BY <1>1, <1>2, <1>3, <1>4, <1>5
  DEF NextRequests, Worker, process, ResolveConcurrency, cleanQueuesByApplication,
      cleanQueuesByCompose, clearWaiting, jobVars, vars

\* With every service on the local host, two builds of one service never overlap
\* on the instance, whoever asks for them: OneBuildPerService.
THEOREM OneBuild ==
  ASSUME AllLocal
  PROVE  SpecRequests => []OneBuildPerService
<1>1. Init => LocalJobs
  BY DEF Init, LocalJobs
<1>2. IInv /\ LocalJobs /\ [NextRequests]_vars => LocalJobs'
  BY LocalJobsStep DEF IInv
<1>3. IInv /\ LocalJobs => OneBuildPerService
  BY GroupIsService DEF IInv, GroupsTrackActive, LocalJobs, OneBuildPerService
<1>. QED
  BY <1>1, <1>2, <1>3, QueueInvariant, PTL DEF SpecRequests

-----------------------------------------------------------------------------
(* No idle slot                                                            *)

\* A drain in flight has read the limit that is configured.
LimitsRead ==
  \A p \in Partitions : \A c \in Concurrency :
    resolved[p][c] > 0 => c = normalize(limit[p])

\* A partition with a free slot and a job for it.
Idle(p) ==
  Candidates(p) # {} /\ Cardinality(active[p]) < normalize(limit[p])

NoIdleSlot ==
  running /\ processor => \A p \in Partitions : Idle(p) => DrainInFlight(p)

\* Limits are numbers the drains may read.
LEMMA LimitsConcurrency ==
  ASSUME TypeOK, NEW p \in Partitions
  PROVE  normalize(limit[p]) \in Concurrency /\ normalize(limit[p]) \in Nat
BY ConcurrencyPositive DEF TypeOK, Concurrency

\* A job is admitted only where a slot is free.
LEMMA AdmittedNeedsSlot ==
  ASSUME IInv, NEW p \in Partitions, Admitted(p, normalize(limit[p])) # {}
  PROVE  Idle(p)
<1>. USE DEF IInv
<1>1. PICK j \in Admitted(p, normalize(limit[p])) : TRUE
  OBVIOUS
<1>2. IsFiniteSet({k \in Candidates(p) : k.id < j.id})
  BY CandidatesWait, FS_Subset DEF FiniteJobs
<1>3. /\ Cardinality({k \in Candidates(p) : k.id < j.id}) \in Nat
      /\ Cardinality(active[p]) \in Nat
  BY <1>2, FS_CardinalityType DEF FiniteJobs
<1>. QED
  BY <1>1, <1>3, LimitsConcurrency DEF Admitted, Idle

\* A drain fills the slots or takes every candidate: the oldest one it leaves has
\* found the limit reached by the active jobs and the older candidates together.
LEMMA DrainFills ==
  ASSUME IInv, NEW p \in Partitions, NEW c \in Concurrency,
         Candidates(p) \ Admitted(p, c) # {}
  PROVE  Cardinality(active[p] \cup Admitted(p, c)) >= c
<1>. USE DEF IInv
<1>. DEFINE Left     == Candidates(p) \ Admitted(p, c)
            Older(j) == {k \in Candidates(p) : k.id < j.id}
<1>1. \A j \in Candidates(p) : j.id \in Nat /\ j \in waiting[p]
  BY CandidatesWait DEF TypeOK, Job
<1>2. {j.id : j \in Left} \in SUBSET Nat /\ {j.id : j \in Left} # {}
  BY <1>1
<1>3. PICK i \in {j.id : j \in Left} : \A x \in {j.id : j \in Left} : i <= x
  BY <1>2, LeastNatural
<1>4. PICK m \in Left : m.id = i
  BY <1>3
<1>5. Older(m) \subseteq Admitted(p, c)
  BY <1>1, <1>3, <1>4
<1>6. Older(m) \cap active[p] = {}
  BY DEF Candidates, GroupsTrackActive
<1>7. /\ IsFiniteSet(Older(m)) /\ IsFiniteSet(Admitted(p, c))
      /\ IsFiniteSet(active[p])
  BY CandidatesWait, FS_Subset DEF FiniteJobs
<1>8. /\ IsFiniteSet(active[p] \cup Older(m))
      /\ Cardinality(active[p] \cup Older(m))
           = Cardinality(active[p]) + Cardinality(Older(m))
                                    - Cardinality(active[p] \cap Older(m))
      /\ IsFiniteSet(active[p] \cup Admitted(p, c))
  BY <1>7, FS_Union
<1>9. Cardinality(active[p] \cap Older(m)) = 0
  BY <1>6, FS_EmptySet
<1>10. Cardinality(active[p] \cup Older(m))
         <= Cardinality(active[p] \cup Admitted(p, c))
  <2>1. active[p] \cup Older(m) \subseteq active[p] \cup Admitted(p, c)
    BY <1>5
  <2>. QED
    BY <1>8, <2>1, FS_Subset
<1>11. /\ Cardinality(active[p]) \in Nat /\ Cardinality(Older(m)) \in Nat
       /\ Cardinality(active[p] \cup Admitted(p, c)) \in Nat /\ c \in Nat
  BY <1>7, <1>8, FS_CardinalityType, ConcurrencyPositive
<1>12. ~ (Cardinality(active[p]) + Cardinality(Older(m)) < c)
  BY <1>4 DEF Admitted
<1>. QED
  BY <1>8, <1>9, <1>10, <1>11, <1>12

\* Reading limits is the only step that resumes drains.
LEMMA LimitsReadStep ==
  ASSUME ~ QueryMayFail, TypeOK, LimitsRead, [NextRequests]_vars
  PROVE  LimitsRead' /\ UNCHANGED limit
<1>1. CASE UNCHANGED <<limit, resolved>>
  BY <1>1 DEF LimitsRead
<1>2. ASSUME NEW p \in Partitions, ResolveConcurrency(p)
      PROVE  LimitsRead' /\ UNCHANGED limit
  BY <1>2 DEF ResolveConcurrency, LimitsRead, TypeOK
<1>3. ASSUME NEW p \in Partitions, NEW c \in Concurrency, DrainPartition(p, c)
      PROVE  LimitsRead' /\ UNCHANGED limit
  <2>1. \A q \in Partitions : \A e \in Concurrency :
          resolved'[q][e] > 0 => resolved[q][e] > 0
    BY <1>3 DEF DrainPartition, TypeOK
  <2>. QED
    BY <1>3, <2>1 DEF DrainPartition, LimitsRead
<1>. QED
  BY <1>1, <1>2, <1>3
  DEF NextRequests, routerDeploy, webhookDeploy, Worker, process, add, withdraw,
      JobSettles, cleanQueuesByApplication, cleanQueuesByCompose, clearWaiting,
      drainVars, vars

\* A schedule leaves a drain wherever a job waits, with or without a free slot.
LEMMA ScheduleFills ==
  ASSUME TypeOK, WaitingKnown', schedule
  PROVE  NoIdleSlot'
<1>. SUFFICES ASSUME running', processor', NEW p \in Partitions, Candidates(p)' # {}
              PROVE  resolving'[p] > 0
  BY DEF NoIdleSlot, Idle, DrainInFlight
<1>1. p \in partitions'
  BY DEF WaitingKnown, Candidates
<1>2. resolving'[p] = resolving[p] + 1
  BY <1>1 DEF schedule
<1>. QED
  BY <1>2 DEF TypeOK

\* Requests withdraw the jobs of whole services: no other becomes a candidate.
LEMMA WithdrawnServices ==
  ASSUME NEW S, withdraw(S), NEW p \in Partitions,
         \A j, k \in waiting[p] :
           getGroup(j.data) = getGroup(k.data) /\ j \in S => k \in S
  PROVE  Candidates(p)' \subseteq Candidates(p)
BY DEF withdraw, Candidates

\* Whatever frees a slot or brings a candidate starts a drain, and a drain fills up.
LEMMA NoIdleSlotStep ==
  ASSUME ~ QueryMayFail, IInv, IInv', LimitsRead, NoIdleSlot, [NextRequests]_vars
  PROVE  NoIdleSlot'
<1>. USE DEF IInv
<1>0. UNCHANGED limit
  BY LimitsReadStep
<1>1. CASE process
  BY <1>1, ScheduleFills DEF process
<1>2. ASSUME NEW s \in Services, routerDeploy(s) \/ webhookDeploy(s)
      PROVE  NoIdleSlot'
  BY <1>2, ScheduleFills DEF routerDeploy, webhookDeploy, add
<1>3. ASSUME NEW S, withdraw(S),
             \A p \in Partitions : \A j, k \in waiting[p] :
               getGroup(j.data) = getGroup(k.data) /\ j \in S => k \in S
      PROVE  NoIdleSlot'
  <2>1. \A p \in Partitions : Candidates(p)' \subseteq Candidates(p)
    BY <1>3, WithdrawnServices
  <2>2. UNCHANGED <<active, running, processor, limit, resolving, resolved>>
    BY <1>3 DEF withdraw, drainVars
  <2>. QED
    BY <2>1, <2>2 DEF NoIdleSlot, Idle, DrainInFlight
<1>4. ASSUME NEW s \in Services, cleanQueuesByApplication(s) PROVE NoIdleSlot'
  BY <1>3, <1>4 DEF cleanQueuesByApplication, AllWaiting, getGroup
<1>5. ASSUME NEW s \in Services, cleanQueuesByCompose(s) PROVE NoIdleSlot'
  BY <1>3, <1>5 DEF cleanQueuesByCompose, AllWaiting, getGroup
<1>6. CASE clearWaiting
  BY <1>3, <1>6 DEF clearWaiting, AllWaiting
<1>7. ASSUME NEW p \in Partitions, ResolveConcurrency(p) PROVE NoIdleSlot'
  <2>1. PICK c \in Concurrency : resolved' = [resolved EXCEPT ![p][c] = @ + 1]
    BY <1>7 DEF ResolveConcurrency
  <2>2. resolved'[p][c] = resolved[p][c] + 1 /\ resolved[p][c] \in Nat
    BY <2>1 DEF TypeOK
  <2>3. DrainInFlight(p)'
    BY <2>2 DEF DrainInFlight
  <2>4. ASSUME NEW q \in Partitions \ {p}
        PROVE  resolving'[q] = resolving[q] /\ resolved'[q] = resolved[q]
    BY <1>7, <2>1 DEF ResolveConcurrency, TypeOK
  <2>5. UNCHANGED <<waiting, active, activeGroups, running, processor>>
    BY <1>7 DEF ResolveConcurrency, jobVars
  <2>. QED
    BY <1>0, <2>3, <2>4, <2>5 DEF NoIdleSlot, Idle, Candidates, DrainInFlight
<1>8. ASSUME NEW p \in Partitions, NEW c \in Concurrency, DrainPartition(p, c)
      PROVE  NoIdleSlot'
  <2>1. /\ active'[p] = active[p] \cup Admitted(p, c)
        /\ waiting'[p] = waiting[p] \ Admitted(p, c)
        /\ activeGroups'[p] = activeGroups[p] \cup {getGroup(j.data) : j \in Admitted(p, c)}
        /\ UNCHANGED <<running, processor, resolving>>
    BY <1>8 DEF DrainPartition, TypeOK
  <2>2. \A q \in Partitions \ {p} :
          /\ waiting'[q] = waiting[q] /\ active'[q] = active[q]
          /\ activeGroups'[q] = activeGroups[q] /\ resolved'[q] = resolved[q]
    BY <1>8 DEF DrainPartition, TypeOK
  <2>3. c = normalize(limit[p])
    BY <1>8 DEF DrainPartition, LimitsRead
  <2>4. Candidates(p)' \subseteq Candidates(p) \ Admitted(p, c)
    <3>1. SUFFICES ASSUME NEW j \in Candidates(p)' PROVE j \in Candidates(p) \ Admitted(p, c)
      OBVIOUS
    <3>2. /\ j \in waiting[p] \ Admitted(p, c) /\ getGroup(j.data) \notin activeGroups[p]
          /\ \A k \in Admitted(p, c) : getGroup(k.data) # getGroup(j.data)
          /\ \A k \in waiting[p] \ Admitted(p, c) :
               getGroup(k.data) = getGroup(j.data) => k.id >= j.id
      BY <2>1 DEF Candidates
    <3>. QED
      BY <3>2 DEF Candidates
  <2>5. ~ Idle(p)'
    <3>1. CASE Candidates(p) \ Admitted(p, c) = {}
      BY <2>4, <3>1 DEF Idle
    <3>2. CASE Candidates(p) \ Admitted(p, c) # {}
      <4>1. Cardinality(active'[p]) >= c /\ c \in Nat
        BY <2>1, <3>2, DrainFills, ConcurrencyPositive
      <4>2. Cardinality(active'[p]) \in Nat
        BY FS_CardinalityType DEF FiniteJobs
      <4>. QED
        BY <1>0, <2>3, <4>1, <4>2 DEF Idle
    <3>. QED
      BY <3>1, <3>2
  <2>. QED
    BY <1>0, <2>1, <2>2, <2>5 DEF NoIdleSlot, Idle, Candidates, DrainInFlight
<1>9. ASSUME NEW p \in Partitions, NEW j \in active[p], JobSettles(p, j)
      PROVE  NoIdleSlot'
  <2>1. resolving'[p] > 0
    BY <1>9 DEF JobSettles, TypeOK
  <2>2. \A q \in Partitions \ {p} :
          /\ resolving'[q] = resolving[q] /\ active'[q] = active[q]
          /\ activeGroups'[q] = activeGroups[q]
    BY <1>9 DEF JobSettles, TypeOK
  <2>3. UNCHANGED <<waiting, running, processor, resolved>>
    BY <1>9 DEF JobSettles
  <2>. QED
    BY <1>0, <2>1, <2>2, <2>3 DEF NoIdleSlot, Idle, Candidates, DrainInFlight
<1>10. CASE UNCHANGED vars
  BY <1>10 DEF vars, NoIdleSlot, Idle, Candidates, DrainInFlight
<1>. QED
  BY <1>1, <1>2, <1>4, <1>5, <1>6, <1>7, <1>8, <1>9, <1>10 DEF NextRequests, Worker

\* While limits neither change nor fail to be read, a free slot and a job for it
\* come with a drain on its way, whatever the limits: WorkConserving.
THEOREM SlotsAreFilled ==
  ASSUME ~ QueryMayFail
  PROVE  SpecRequests => []WorkConserving
<1>1. Init => LimitsRead /\ NoIdleSlot
  BY DEF Init, LimitsRead, NoIdleSlot
<1>2. IInv /\ IInv' /\ LimitsRead /\ NoIdleSlot /\ [NextRequests]_vars
        => LimitsRead' /\ NoIdleSlot'
  BY LimitsReadStep, NoIdleSlotStep DEF IInv
<1>3. IInv /\ NoIdleSlot => WorkConserving
  BY AdmittedNeedsSlot DEF NoIdleSlot, WorkConserving
<1>. QED
  BY <1>1, <1>2, <1>3, QueueInvariant, PTL DEF SpecRequests
=============================================================================
