----------------------- MODULE DeploymentQueueProofs -----------------------
(***************************************************************************)
(* Proofs about InMemoryQueue for every set of servers, services and       *)
(* payloads, every set of limits and every bound.                          *)
(***************************************************************************)
EXTENDS DeploymentQueue, FiniteSetTheorems, WellFoundedInduction, TLAPS

\* A non-empty set of natural numbers has a least element: among the jobs of
\* an array there is a first one.
LEMMA LeastNatural ==
  ASSUME NEW T \in SUBSET Nat, T # {}
  PROVE  \E x \in T : \A y \in T : x <= y
<1>1. IsWellFoundedOn(OpToRel(<, Nat), Nat)
  BY NatLessThanWellFounded
<1>2. PICK x \in T : \A y \in T : ~ (<<y, x>> \in OpToRel(<, Nat))
  BY <1>1, WFMin, Zenon
<1>3. \A y \in T : ~ (y < x)
  BY <1>2 DEF OpToRel
<1>. QED
  BY <1>3

\* Two payloads have the same group exactly when they build the same service.
LEMMA GroupIsService ==
  ASSUME NEW d, NEW e
  PROVE  getGroup(d) = getGroup(e) <=> SameService(d, e)
BY DEF getGroup, SameService

\* Every limit a drain resumes with is at least 1.
LEMMA ConcurrencyPositive ==
  /\ Concurrency \subseteq Nat
  /\ \A c \in Concurrency : c >= 1
BY LimitsAssumption DEF Concurrency, normalize

LEMMA PartitionOf ==
  ASSUME NEW d \in Payloads
  PROVE  getPartition(d) \in Partitions
BY PayloadsAssumption DEF getPartition, Partitions, DeploymentJob

LEMMA CandidatesWait ==
  ASSUME NEW p, NEW c
  PROVE  /\ Admitted(p, c) \subseteq Candidates(p)
         /\ Candidates(p) \subseteq waiting[p]
BY DEF Admitted, Candidates

-----------------------------------------------------------------------------
\* Every step preserves the type invariant, method by method.
LEMMA TypeStep == TypeOK /\ [Next]_vars => TypeOK'
<1>. SUFFICES ASSUME TypeOK, [Next]_vars
              PROVE  TypeOK'
  OBVIOUS
<1>. USE BoundsAssumption, ConcurrencyPositive DEF TypeOK
<1>1. CASE process
  BY <1>1 DEF process, schedule, jobVars
<1>2. CASE run
  BY <1>2 DEF run, schedule, jobVars
<1>3. CASE close
  BY <1>3 DEF close, jobVars, drainVars
<1>4. ASSUME NEW d \in Payloads, add(d)
      PROVE  TypeOK'
  <2>. DEFINE q == getPartition(d)
              job == [id |-> seq + 1, data |-> d]
  <2>1. q \in Partitions
    BY PartitionOf
  <2>2. job \in Job
    BY DEF Job
  <2>3. waiting' \in [Partitions -> SUBSET Job]
    BY <1>4, <2>1, <2>2 DEF add
  <2>4. resolving' \in [Partitions -> Nat]
    BY <1>4 DEF add, schedule
  <2>. QED
    BY <1>4, <2>1, <2>3, <2>4 DEF add
<1>5. ASSUME NEW S, withdraw(S)
      PROVE  TypeOK'
  BY <1>5 DEF withdraw, drainVars
<1>6. ASSUME NEW p \in Partitions, UpdateLimit(p)
      PROVE  TypeOK'
  BY <1>6 DEF UpdateLimit, jobVars, drainVars
<1>7. ASSUME NEW p \in Partitions, ResolveConcurrency(p)
      PROVE  TypeOK'
  <2>1. resolving' \in [Partitions -> Nat]
    BY <1>7 DEF ResolveConcurrency
  <2>2. resolved' \in [Partitions -> [Concurrency -> Nat]]
    BY <1>7 DEF ResolveConcurrency
  <2>. QED
    BY <1>7, <2>1, <2>2 DEF ResolveConcurrency, jobVars
<1>8. ASSUME NEW p \in Partitions, NEW c \in Concurrency, DrainPartition(p, c)
      PROVE  TypeOK'
  <2>1. Admitted(p, c) \in SUBSET Job
    BY CandidatesWait
  <2>2. {getGroup(j.data) : j \in Admitted(p, c)}
          \in SUBSET {getGroup(d) : d \in Payloads}
    BY <2>1 DEF Job
  <2>3. /\ waiting' \in [Partitions -> SUBSET Job]
        /\ active' \in [Partitions -> SUBSET Job]
    BY <1>8, <2>1 DEF DrainPartition
  <2>4. activeGroups' \in [Partitions -> SUBSET {getGroup(d) : d \in Payloads}]
    BY <1>8, <2>2 DEF DrainPartition
  <2>5. resolved' \in [Partitions -> [Concurrency -> Nat]]
    BY <1>8 DEF DrainPartition
  <2>. QED
    BY <1>8, <2>3, <2>4, <2>5 DEF DrainPartition
<1>9. ASSUME NEW p \in Partitions, NEW j \in active[p], JobSettles(p, j)
      PROVE  TypeOK'
  BY <1>9 DEF JobSettles
<1>10. CASE UNCHANGED vars
  BY <1>10 DEF vars
<1>. QED
  BY <1>1, <1>2, <1>3, <1>4, <1>5, <1>6, <1>7, <1>8, <1>9, <1>10
  DEF Next, Clients, Worker, remove, cleanQueuesByApplication,
      cleanQueuesByCompose, clearWaiting

LEMMA TypeInit == Init => TypeOK
<1>. SUFFICES ASSUME Init
              PROVE  TypeOK
  OBVIOUS
<1>1. /\ resolving \in [Partitions -> Nat]
      /\ resolved \in [Partitions -> [Concurrency -> Nat]]
  BY DEF Init
<1>2. /\ waiting \in [Partitions -> SUBSET Job]
      /\ active \in [Partitions -> SUBSET Job]
      /\ activeGroups \in
           [Partitions -> SUBSET {getGroup(d) : d \in Payloads}]
  BY DEF Init
<1>3. /\ seq \in 0..MaxJobs
      /\ partitions \in SUBSET Partitions
      /\ limit \in [Partitions -> Limits]
  BY BoundsAssumption DEF Init
<1>4. running \in BOOLEAN /\ processor \in BOOLEAN
  BY Zenon DEF Init
<1>. QED
  BY <1>1, <1>2, <1>3, <1>4 DEF TypeOK

\* Every variable of the queue keeps its type: the step by step part is TypeStep.
THEOREM TypeCorrect == Spec => []TypeOK
BY TypeInit, TypeStep, PTL DEF Spec

-----------------------------------------------------------------------------
\* A drain that resumes on a partition where nothing runs starts a job if one
\* waits: its oldest one.
LEMMA IdlePartitionStarts ==
  ASSUME TypeOK, NEW p \in Partitions, NEW c \in Concurrency,
         activeGroups[p] = {}, active[p] = {}, waiting[p] # {}
  PROVE  Admitted(p, c) # {}
<1>. DEFINE Ids == {j.id : j \in waiting[p]}
<1>1. waiting[p] \in SUBSET Job
  BY DEF TypeOK
<1>2. Ids \in SUBSET Nat /\ Ids # {}
  BY <1>1 DEF Job
<1>3. PICK n \in Ids : \A m \in Ids : n <= m
  BY <1>2, LeastNatural
<1>4. PICK j \in waiting[p] : j.id = n
  BY <1>3
<1>5. \A k \in waiting[p] : k.id >= j.id /\ ~ (k.id < j.id)
  BY <1>1, <1>2, <1>3, <1>4
<1>6. j \in Candidates(p)
  BY <1>5 DEF Candidates
<1>7. {k \in Candidates(p) : k.id < j.id} = {}
  BY <1>5, CandidatesWait
<1>8. /\ Cardinality(active[p]) = 0
      /\ Cardinality({k \in Candidates(p) : k.id < j.id}) = 0
  BY <1>7, FS_EmptySet
<1>9. c \in Nat /\ c >= 1
  BY ConcurrencyPositive
<1>. QED
  BY <1>6, <1>8, <1>9 DEF Admitted

\* The candidates of a partition belong to distinct idle groups.
LEMMA CandidatesDistinct ==
  ASSUME TypeOK, WaitingNumbered, NEW p \in Partitions,
         NEW j \in Candidates(p), NEW k \in Candidates(p),
         getGroup(j.data) = getGroup(k.data)
  PROVE  j = k
<1>1. j \in Job /\ k \in Job /\ j \in waiting[p] /\ k \in waiting[p]
  BY DEF TypeOK, Candidates
<1>2. j.id >= k.id /\ k.id >= j.id
  BY <1>1 DEF Candidates
<1>3. j.id = k.id
  BY <1>1, <1>2 DEF Job
<1>. QED
  BY <1>1, <1>3 DEF WaitingNumbered

LEMMA GroupsStep ==
  TypeOK /\ WaitingNumbered /\ GroupsTrackActive /\ [Next]_vars
    => GroupsTrackActive'
<1>. SUFFICES ASSUME TypeOK, WaitingNumbered, GroupsTrackActive, [Next]_vars
              PROVE  GroupsTrackActive'
  OBVIOUS
<1>1. ASSUME UNCHANGED <<active, activeGroups>>
      PROVE  GroupsTrackActive'
  BY <1>1 DEF GroupsTrackActive
<1>2. ASSUME NEW p \in Partitions, NEW c \in Concurrency, DrainPartition(p, c)
      PROVE  GroupsTrackActive'
  <2>. DEFINE A == Admitted(p, c)
  <2>1. /\ \A j \in A : getGroup(j.data) \notin activeGroups[p]
        /\ \A j, k \in A : getGroup(j.data) = getGroup(k.data) => j = k
    BY CandidatesDistinct, CandidatesWait DEF Candidates
  <2>2. /\ active'[p] = active[p] \cup A
        /\ activeGroups'[p] =
             activeGroups[p] \cup {getGroup(j.data) : j \in A}
        /\ \A q \in Partitions \ {p} :
             active'[q] = active[q] /\ activeGroups'[q] = activeGroups[q]
    BY <1>2 DEF DrainPartition, TypeOK
  <2>. HIDE DEF A
  <2>3. /\ activeGroups'[p] = {getGroup(j.data) : j \in active'[p]}
        /\ \A j, k \in active'[p] : getGroup(j.data) = getGroup(k.data) => j = k
    BY <2>1, <2>2 DEF GroupsTrackActive
  <2>. QED
    BY <2>2, <2>3 DEF GroupsTrackActive
<1>3. ASSUME NEW p \in Partitions, NEW j \in active[p], JobSettles(p, j)
      PROVE  GroupsTrackActive'
  <2>1. /\ active'[p] = active[p] \ {j}
        /\ activeGroups'[p] = activeGroups[p] \ {getGroup(j.data)}
        /\ \A q \in Partitions \ {p} :
             active'[q] = active[q] /\ activeGroups'[q] = activeGroups[q]
    BY <1>3 DEF JobSettles, TypeOK
  <2>2. /\ activeGroups'[p] = {getGroup(k.data) : k \in active'[p]}
        /\ \A i, k \in active'[p] : getGroup(i.data) = getGroup(k.data) => i = k
    BY <2>1 DEF GroupsTrackActive
  <2>. QED
    BY <2>1, <2>2 DEF GroupsTrackActive
<1>. QED
  BY <1>1, <1>2, <1>3
  DEF Next, Clients, Worker, vars, jobVars, process, run, close, add, withdraw,
      UpdateLimit, ResolveConcurrency, remove, cleanQueuesByApplication,
      cleanQueuesByCompose, clearWaiting

LEMMA WaitingStep ==
  TypeOK /\ WaitingNumbered /\ WaitingKnown /\ [Next]_vars
    => WaitingNumbered' /\ WaitingKnown'
<1>. SUFFICES ASSUME TypeOK, WaitingNumbered, WaitingKnown, [Next]_vars
              PROVE  WaitingNumbered' /\ WaitingKnown'
  OBVIOUS
<1>. USE DEF TypeOK
<1>1. ASSUME UNCHANGED <<seq, partitions>>,
             \A p \in Partitions : waiting'[p] \subseteq waiting[p]
      PROVE  WaitingNumbered' /\ WaitingKnown'
  BY <1>1 DEF WaitingNumbered, WaitingKnown
<1>2. ASSUME NEW d \in Payloads, add(d)
      PROVE  WaitingNumbered' /\ WaitingKnown'
  <2>. DEFINE q == getPartition(d)
              job == [id |-> seq + 1, data |-> d]
  <2>1. q \in Partitions
    BY PartitionOf
  <2>2. /\ seq' = seq + 1
        /\ partitions' = partitions \cup {q}
        /\ waiting'[q] = waiting[q] \cup {job}
        /\ \A p \in Partitions \ {q} : waiting'[p] = waiting[p]
    BY <1>2, <2>1 DEF add
  <2>3. \A p \in Partitions : \A j \in waiting[p] : j.id \in Nat
    BY DEF Job
  <2>4. job.id = seq + 1
    OBVIOUS
  <2>. HIDE DEF job, q
  <2>5. seq \in Nat
    BY BoundsAssumption
  <2>6. ASSUME NEW p \in Partitions, NEW j \in waiting'[p]
        PROVE  /\ j.id <= seq'
               /\ \A k \in waiting'[p] : j.id = k.id => j = k
    <3>1. CASE p # q
      BY <2>2, <2>3, <2>5, <2>6, <3>1 DEF WaitingNumbered
    <3>2. CASE p = q
      <4>1. \A k \in waiting[q] : k.id \in Nat /\ k.id <= seq
        BY <2>1, <2>3 DEF WaitingNumbered
      <4>2. \A i, k \in waiting[q] : i.id = k.id => i = k
        BY <2>1 DEF WaitingNumbered
      <4>3. \A k \in waiting[q] : k.id # job.id
        BY <2>4, <2>5, <4>1
      <4>4. j \in waiting[q] \/ j = job
        BY <2>2, <2>6, <3>2
      <4>5. j.id <= seq'
        BY <2>2, <2>4, <2>5, <4>1, <4>4
      <4>6. \A k \in waiting'[p] : j.id = k.id => j = k
        BY <2>2, <3>2, <4>2, <4>3, <4>4
      <4>. QED
        BY <4>5, <4>6
    <3>. QED
      BY <3>1, <3>2
  <2>7. WaitingNumbered'
    BY <2>6 DEF WaitingNumbered
  <2>8. WaitingKnown'
    BY <2>2 DEF WaitingKnown
  <2>. QED
    BY <2>7, <2>8
<1>3. ASSUME NEW p \in Partitions, NEW c \in Concurrency, DrainPartition(p, c)
      PROVE  WaitingNumbered' /\ WaitingKnown'
  BY <1>1, <1>3 DEF DrainPartition
<1>4. ASSUME NEW S, withdraw(S)
      PROVE  WaitingNumbered' /\ WaitingKnown'
  BY <1>1, <1>4 DEF withdraw
<1>. QED
  BY <1>1, <1>2, <1>3, <1>4
  DEF Next, Clients, Worker, vars, jobVars, process, run, close, UpdateLimit,
      ResolveConcurrency, JobSettles, remove, cleanQueuesByApplication,
      cleanQueuesByCompose, clearWaiting

LEMMA FiniteStep ==
  TypeOK /\ FiniteJobs /\ [Next]_vars => FiniteJobs'
<1>. SUFFICES ASSUME TypeOK, FiniteJobs, [Next]_vars
              PROVE  FiniteJobs'
  OBVIOUS
<1>1. ASSUME NEW p \in Partitions,
             waiting'[p] \subseteq waiting[p], active'[p] \subseteq active[p]
      PROVE  IsFiniteSet(waiting'[p]) /\ IsFiniteSet(active'[p])
  BY <1>1, FS_Subset DEF FiniteJobs
<1>2. ASSUME \A p \in Partitions : /\ waiting'[p] \subseteq waiting[p]
                                  /\ active'[p] \subseteq active[p]
      PROVE  FiniteJobs'
  BY <1>1, <1>2 DEF FiniteJobs
<1>3. ASSUME NEW d \in Payloads, add(d)
      PROVE  FiniteJobs'
  <2>. DEFINE job == [id |-> seq + 1, data |-> d]
  <2>1. \A p \in Partitions :
          /\ waiting'[p] = waiting[p] \/ waiting'[p] = waiting[p] \cup {job}
          /\ active'[p] = active[p]
    BY <1>3 DEF add, TypeOK
  <2>2. \A p \in Partitions : IsFiniteSet(waiting[p] \cup {job})
    BY FS_AddElement DEF FiniteJobs
  <2>. QED
    BY <2>1, <2>2 DEF FiniteJobs
<1>4. ASSUME NEW p \in Partitions, NEW c \in Concurrency, DrainPartition(p, c)
      PROVE  FiniteJobs'
  <2>1. IsFiniteSet(Admitted(p, c))
    BY CandidatesWait, FS_Subset DEF FiniteJobs
  <2>2. IsFiniteSet(active[p] \cup Admitted(p, c))
    BY <2>1, FS_Union DEF FiniteJobs
  <2>3. /\ active'[p] = active[p] \cup Admitted(p, c)
        /\ waiting'[p] \subseteq waiting[p]
        /\ \A q \in Partitions \ {p} :
             active'[q] = active[q] /\ waiting'[q] = waiting[q]
    BY <1>4 DEF DrainPartition, TypeOK
  <2>4. IsFiniteSet(waiting'[p])
    BY <2>3, FS_Subset DEF FiniteJobs
  <2>. QED
    BY <2>2, <2>3, <2>4 DEF FiniteJobs
<1>5. ASSUME NEW p \in Partitions, NEW j \in active[p], JobSettles(p, j)
      PROVE  FiniteJobs'
  BY <1>2, <1>5 DEF JobSettles, TypeOK
<1>6. ASSUME NEW S, withdraw(S)
      PROVE  FiniteJobs'
  BY <1>2, <1>6 DEF withdraw
<1>7. CASE UNCHANGED <<waiting, active>>
  BY <1>7 DEF FiniteJobs
<1>. QED
  BY <1>3, <1>4, <1>5, <1>6, <1>7
  DEF Next, Clients, Worker, vars, jobVars, process, run, close, UpdateLimit,
      ResolveConcurrency, remove, cleanQueuesByApplication,
      cleanQueuesByCompose, clearWaiting

-----------------------------------------------------------------------------
\* Every call of schedule() leaves a drain in flight wherever a job waits.
LEMMA ScheduleCovers ==
  ASSUME TypeOK, WaitingKnown', schedule
  PROVE  NoStall'
<1>. SUFFICES ASSUME running', processor', NEW p \in Partitions, waiting'[p] # {}
              PROVE  resolving'[p] > 0
  BY DEF NoStall, DrainInFlight
<1>1. p \in partitions'
  BY DEF WaitingKnown
<1>2. resolving'[p] = resolving[p] + 1
  BY <1>1 DEF schedule
<1>. QED
  BY <1>2 DEF TypeOK

LEMMA NoStallStep ==
  TypeOK /\ GroupsTrackActive /\ NoStall /\ WaitingKnown' /\ [Next]_vars
    => NoStall'
<1>. SUFFICES ASSUME TypeOK, GroupsTrackActive, NoStall, WaitingKnown', [Next]_vars
              PROVE  NoStall'
  OBVIOUS
\* A step that adds no waiting job, keeps the active ones and their drains.
<1>1. ASSUME UNCHANGED <<active, running, processor, resolving, resolved>>,
             \A p \in Partitions : waiting'[p] \subseteq waiting[p]
      PROVE  NoStall'
  BY <1>1 DEF NoStall, DrainInFlight
<1>2. CASE process
  BY <1>2, ScheduleCovers DEF process
<1>3. CASE run
  BY <1>3, ScheduleCovers DEF run
<1>4. CASE close
  BY <1>4 DEF close, NoStall
<1>5. ASSUME NEW d \in Payloads, add(d)
      PROVE  NoStall'
  BY <1>5, ScheduleCovers DEF add
<1>6. ASSUME NEW S, withdraw(S)
      PROVE  NoStall'
  BY <1>1, <1>6 DEF withdraw, drainVars
<1>7. ASSUME NEW p \in Partitions, UpdateLimit(p)
      PROVE  NoStall'
  BY <1>1, <1>7 DEF UpdateLimit, jobVars, drainVars
<1>8. ASSUME NEW p \in Partitions, ResolveConcurrency(p)
      PROVE  NoStall'
  <2>1. PICK c \in Concurrency : resolved' = [resolved EXCEPT ![p][c] = @ + 1]
    BY <1>8 DEF ResolveConcurrency
  <2>2. resolved'[p][c] = resolved[p][c] + 1 /\ resolved[p][c] \in Nat
    BY <2>1 DEF TypeOK
  <2>3. DrainInFlight(p)'
    BY <2>2 DEF DrainInFlight
  <2>4. ASSUME NEW q \in Partitions \ {p}
        PROVE  resolving'[q] = resolving[q] /\ resolved'[q] = resolved[q]
    BY <1>8, <2>1 DEF ResolveConcurrency, TypeOK
  <2>5. UNCHANGED <<waiting, active, running, processor>>
    BY <1>8 DEF ResolveConcurrency, jobVars
  <2>. QED
    BY <2>3, <2>4, <2>5 DEF NoStall, DrainInFlight
<1>9. ASSUME NEW p \in Partitions, NEW c \in Concurrency, DrainPartition(p, c)
      PROVE  NoStall'
  <2>1. /\ waiting'[p] = waiting[p] \ Admitted(p, c)
        /\ active'[p] = active[p] \cup Admitted(p, c)
        /\ UNCHANGED <<running, processor, resolving>>
    BY <1>9 DEF DrainPartition, TypeOK
  <2>2. \A q \in Partitions \ {p} :
          /\ waiting'[q] = waiting[q]
          /\ active'[q] = active[q]
          /\ resolved'[q] = resolved[q]
    BY <1>9 DEF DrainPartition, TypeOK
  <2>3. ASSUME waiting'[p] # {}, active[p] = {}
        PROVE  active'[p] # {}
    <3>1. waiting[p] # {} /\ activeGroups[p] = {}
      BY <2>1, <2>3 DEF GroupsTrackActive
    <3>. QED
      BY <2>1, <2>3, <3>1, IdlePartitionStarts
  <2>. QED
    BY <2>1, <2>2, <2>3 DEF NoStall, DrainInFlight
<1>10. ASSUME NEW p \in Partitions, NEW j \in active[p], JobSettles(p, j)
       PROVE  NoStall'
  <2>1. resolving'[p] > 0
    BY <1>10 DEF JobSettles, TypeOK
  <2>2. \A q \in Partitions \ {p} :
          resolving'[q] = resolving[q] /\ active'[q] = active[q]
    BY <1>10 DEF JobSettles, TypeOK
  <2>3. UNCHANGED <<waiting, running, processor, resolved>>
    BY <1>10 DEF JobSettles
  <2>. QED
    BY <2>1, <2>2, <2>3 DEF NoStall, DrainInFlight
<1>11. CASE UNCHANGED vars
  BY <1>1, <1>11 DEF vars
<1>. QED
  BY <1>2, <1>3, <1>4, <1>5, <1>6, <1>7, <1>8, <1>9, <1>10, <1>11
  DEF Next, Clients, Worker, remove, cleanQueuesByApplication,
      cleanQueuesByCompose, clearWaiting

-----------------------------------------------------------------------------
\* IInv holds initially, is preserved by every step, and so always holds.
THEOREM InductiveInvariant == Spec => []IInv
<1>1. Init => IInv
  <2>. SUFFICES ASSUME Init
                PROVE  IInv
    OBVIOUS
  <2>1. GroupsTrackActive /\ WaitingNumbered /\ WaitingKnown /\ NoStall
    BY DEF Init, GroupsTrackActive, WaitingNumbered, WaitingKnown, NoStall
  <2>2. FiniteJobs
    BY FS_EmptySet DEF Init, FiniteJobs
  <2>. QED
    BY <2>1, <2>2, TypeInit DEF IInv
<1>2. IInv /\ [Next]_vars => IInv'
  BY TypeStep, GroupsStep, WaitingStep, FiniteStep, NoStallStep DEF IInv
<1>. QED
  BY <1>1, <1>2, PTL DEF Spec

\* Builds of one service never overlap in a partition (in-memory-queue.ts:12-15).
THEOREM ServicesAreExclusive == Spec => []ServiceExclusive
<1>1. IInv => ServiceExclusive
  BY GroupIsService DEF IInv, GroupsTrackActive, ServiceExclusive
<1>. QED
  BY <1>1, InductiveInvariant, PTL

\* A job that waits in an open queue is never forgotten.
THEOREM NeverStalls == Spec => []NoStall
<1>1. IInv => NoStall
  BY DEF IInv
<1>. QED
  BY <1>1, InductiveInvariant, PTL

-----------------------------------------------------------------------------
\* Every service with a waiting job has an oldest one.
LEMMA OldestOfGroup ==
  ASSUME TypeOK, NEW p \in Partitions, NEW k \in waiting[p]
  PROVE  \E m \in waiting[p] :
           /\ getGroup(m.data) = getGroup(k.data)
           /\ m.id <= k.id
           /\ \A i \in waiting[p] :
                getGroup(i.data) = getGroup(m.data) => i.id >= m.id
<1>. DEFINE Same == {i \in waiting[p] : getGroup(i.data) = getGroup(k.data)}
            Ids  == {i.id : i \in Same}
<1>1. waiting[p] \subseteq Job
  BY DEF TypeOK
<1>2. k \in Same /\ Ids \in SUBSET Nat /\ Ids # {}
  BY <1>1 DEF Job
<1>3. PICK n \in Ids : \A x \in Ids : n <= x
  BY <1>2, LeastNatural
<1>4. PICK m \in Same : m.id = n
  BY <1>3
<1>5. \A i \in Same : m.id <= i.id /\ i.id >= m.id
  BY <1>1, <1>2, <1>3, <1>4
<1>. QED
  BY <1>2, <1>4, <1>5

\* Ranks: the older of two candidates is admitted whenever the younger is.
LEMMA OlderIsAdmitted ==
  ASSUME TypeOK, FiniteJobs, NEW p \in Partitions, NEW c \in Concurrency,
         NEW j \in Admitted(p, c), NEW m \in Candidates(p), m.id <= j.id
  PROVE  m \in Admitted(p, c)
<1>. DEFINE Below(i) == {k \in Candidates(p) : k.id < i.id}
<1>1. \A i \in Candidates(p) : i.id \in Nat
  BY CandidatesWait DEF TypeOK, Job
<1>2. j \in Candidates(p)
  BY DEF Admitted
<1>3. Below(m) \subseteq Below(j)
  BY <1>1, <1>2
<1>4. IsFiniteSet(Candidates(p))
  BY CandidatesWait, FS_Subset DEF FiniteJobs
<1>5. IsFiniteSet(Below(j))
  BY <1>4, FS_Subset
<1>6. Cardinality(Below(m)) <= Cardinality(Below(j)) /\ IsFiniteSet(Below(m))
  BY <1>3, <1>5, FS_Subset
<1>7. /\ Cardinality(Below(m)) \in Nat
      /\ Cardinality(Below(j)) \in Nat
      /\ Cardinality(active[p]) \in Nat
  BY <1>5, <1>6, FS_CardinalityType DEF FiniteJobs
<1>8. c \in Nat
  BY ConcurrencyPositive
<1>9. Cardinality(active[p]) + Cardinality(Below(j)) < c
  BY DEF Admitted
<1>10. Cardinality(active[p]) + Cardinality(Below(m)) < c
  BY <1>6, <1>7, <1>8, <1>9
<1>. QED
  BY <1>10 DEF Admitted

\* The only step that starts jobs is a drain.
LEMMA OnlyDrainsStart ==
  ASSUME TypeOK, [Next]_vars, NEW p \in Partitions, Started(p) # {}
  PROVE  \E c \in Concurrency : DrainPartition(p, c)
<1>1. ASSUME UNCHANGED active
      PROVE  FALSE
  BY <1>1 DEF Started
<1>2. ASSUME NEW q \in Partitions, NEW j \in active[q], JobSettles(q, j)
      PROVE  FALSE
  BY <1>2 DEF JobSettles, TypeOK, Started
<1>3. ASSUME NEW q \in Partitions, NEW c \in Concurrency, DrainPartition(q, c),
             q # p
      PROVE  FALSE
  BY <1>3 DEF DrainPartition, TypeOK, Started
<1>. QED
  BY <1>1, <1>2, <1>3
  DEF Next, Clients, Worker, vars, jobVars, process, run, close, add, withdraw,
      UpdateLimit, ResolveConcurrency, remove, cleanQueuesByApplication,
      cleanQueuesByCompose, clearWaiting

\* Jobs start in the order of the array, past the services that are building.
THEOREM StartsOldestFirst == Spec => OldestFirst
<1>1. ASSUME IInv, [Next]_vars, NEW p \in Partitions, NEW j \in Started(p),
             NEW k \in waiting'[p], k.id < j.id
      PROVE  \E b \in active'[p] \ {j} : SameService(b.data, k.data)
  <2>. USE DEF IInv
  <2>1. PICK c \in Concurrency : DrainPartition(p, c)
    BY <1>1, OnlyDrainsStart
  <2>2. /\ waiting'[p] = waiting[p] \ Admitted(p, c)
        /\ active'[p] = active[p] \cup Admitted(p, c)
        /\ k \in waiting[p]
        /\ j \in Admitted(p, c)
    BY <1>1, <2>1 DEF DrainPartition, TypeOK, Started
  <2>3. CASE getGroup(k.data) \in activeGroups[p]
    <3>1. PICK b \in active[p] : getGroup(b.data) = getGroup(k.data)
      BY <1>1, <2>3 DEF GroupsTrackActive
    <3>2. b # j
      BY <1>1, <3>1 DEF Started
    <3>. QED
      BY <2>2, <3>1, <3>2, GroupIsService
  <2>4. CASE getGroup(k.data) \notin activeGroups[p]
    <3>1. PICK m \in waiting[p] :
            /\ getGroup(m.data) = getGroup(k.data)
            /\ m.id <= k.id
            /\ \A i \in waiting[p] :
                 getGroup(i.data) = getGroup(m.data) => i.id >= m.id
      BY <1>1, <2>2, OldestOfGroup
    <3>2. m \in Candidates(p)
      BY <2>4, <3>1 DEF Candidates
    <3>3. m.id \in Nat /\ k.id \in Nat /\ j.id \in Nat
      BY <1>1, <2>2, CandidatesWait DEF TypeOK, Job
    <3>4. m.id <= j.id
      BY <1>1, <3>1, <3>3
    <3>5. m \in Admitted(p, c)
      BY <1>1, <2>2, <3>2, <3>4, OlderIsAdmitted
    <3>6. m # j
      BY <1>1, <3>1, <3>3
    <3>. QED
      BY <2>2, <3>1, <3>5, <3>6, GroupIsService
  <2>. QED
    BY <2>3, <2>4
<1>2. IInv /\ [Next]_vars =>
        [\A p \in Partitions : \A j \in Started(p) : \A k \in waiting'[p] :
           k.id < j.id =>
             \E b \in active'[p] \ {j} : SameService(b.data, k.data)]_vars
  BY <1>1
<1>. QED
  BY <1>2, InductiveInvariant, PTL DEF Spec, OldestFirst

-----------------------------------------------------------------------------
\* However many jobs one drain starts, it fills no more slots than its limit.
LEMMA AdmittedBound ==
  ASSUME IInv, NEW p \in Partitions, NEW c \in Concurrency, Admitted(p, c) # {}
  PROVE  Cardinality(active[p] \cup Admitted(p, c)) <= c
<1>. DEFINE A        == Admitted(p, c)
            Below(i) == {k \in Candidates(p) : k.id < i.id}
            Gaps     == {seq - i.id : i \in A}
<1>. USE DEF IInv
<1>1. /\ A \subseteq waiting[p] /\ A \subseteq Candidates(p)
      /\ seq \in Nat
      /\ \A i \in A : i.id \in Nat /\ i.id <= seq
      /\ \A i, k \in A : i.id = k.id => i = k
  BY CandidatesWait, BoundsAssumption DEF TypeOK, Job, WaitingNumbered
<1>2. Gaps \in SUBSET Nat /\ Gaps # {}
  BY <1>1
<1>3. PICK g \in Gaps : \A x \in Gaps : g <= x
  BY <1>2, LeastNatural
<1>4. PICK m \in A : seq - m.id = g
  BY <1>3
<1>5. \A k \in A : k.id <= m.id
  <2>. TAKE k \in A
  <2>1. seq - m.id <= seq - k.id
    BY <1>3, <1>4
  <2>2. k.id \in Nat /\ m.id \in Nat
    BY <1>1
  <2>. QED
    BY <1>1, <2>1, <2>2
<1>6. A \subseteq Below(m) \cup {m}
  BY <1>1, <1>5
<1>7. /\ IsFiniteSet(active[p])
      /\ IsFiniteSet(Below(m))
      /\ IsFiniteSet(A)
  <2>1. IsFiniteSet(waiting[p]) /\ IsFiniteSet(active[p])
    BY DEF FiniteJobs
  <2>2. Below(m) \subseteq waiting[p]
    BY CandidatesWait
  <2>. QED
    BY <1>1, <2>1, <2>2, FS_Subset
<1>8. IsFiniteSet(Below(m) \cup {m})
      /\ Cardinality(Below(m) \cup {m}) = Cardinality(Below(m)) + 1
  <2>1. m \notin Below(m)
    BY <1>1
  <2>. QED
    BY <1>7, <2>1, FS_AddElement
<1>9. Cardinality(A) <= Cardinality(Below(m)) + 1
  BY <1>6, <1>8, FS_Subset
<1>10. /\ Cardinality(A) \in Nat
       /\ Cardinality(Below(m)) \in Nat
       /\ Cardinality(active[p]) \in Nat
       /\ Cardinality(active[p] \cap A) \in Nat
  BY <1>7, FS_CardinalityType, FS_Subset
<1>11. Cardinality(active[p]) + Cardinality(Below(m)) < c /\ c \in Nat
  BY <1>4, ConcurrencyPositive DEF Admitted
<1>12. Cardinality(active[p] \cup A)
         = Cardinality(active[p]) + Cardinality(A) - Cardinality(active[p] \cap A)
  BY <1>7, FS_Union
<1>. QED
  BY <1>9, <1>10, <1>11, <1>12

\* A drain never starts more builds than the limit it carries allows.
THEOREM StartsWithinLimit == Spec => BuildsWithinLimit
<1>1. ASSUME IInv, [Next]_vars, NEW p \in Partitions, Started(p) # {}
      PROVE  \E c \in Concurrency :
               /\ c = normalize(limit[p]) \/ resolved[p][c] > 0
               /\ Cardinality(active'[p]) <= c
  <2>1. PICK c \in Concurrency : DrainPartition(p, c)
    BY <1>1, OnlyDrainsStart DEF IInv
  <2>2. active'[p] = active[p] \cup Admitted(p, c) /\ resolved[p][c] > 0
    BY <1>1, <2>1 DEF DrainPartition, IInv, TypeOK
  <2>3. Admitted(p, c) # {}
    BY <1>1, <2>2 DEF Started
  <2>. QED
    BY <1>1, <2>2, <2>3, AdmittedBound
<1>2. IInv /\ [Next]_vars =>
        [\A p \in Partitions :
           Started(p) # {} =>
             \E c \in Concurrency :
               /\ c = normalize(limit[p]) \/ resolved[p][c] > 0
               /\ Cardinality(active'[p]) <= c]_vars
  BY <1>1
<1>. QED
  BY <1>2, InductiveInvariant, PTL DEF Spec, BuildsWithinLimit

-----------------------------------------------------------------------------
\* Both specifications speak of the same partitions and services.
LEMMA SharedVocabulary ==
  /\ Abstract!Partitions = Partitions
  /\ \A d : Abstract!getPartition(d) = getPartition(d)
  /\ \A d, e : Abstract!SameService(d, e) <=> SameService(d, e)
BY DEF Abstract!Partitions, Partitions, Abstract!LOCAL_PARTITION,
       LOCAL_PARTITION, Abstract!getPartition, getPartition,
       Abstract!SameService, SameService

\* The in-memory queue implements the abstract service queue.
THEOREM Refinement == Spec => ImplementsServiceQueue
<1>. USE SharedVocabulary DEF Abstract!Next, Abstract!vars
<1>1. Init => Abstract!Init
  BY DEF Init, Abstract!Init
<1>2. ASSUME IInv, [Next]_vars
      PROVE  [Abstract!Next]_(Abstract!vars)
  <2>1. CASE UNCHANGED <<seq, waiting, active>>
    BY <2>1
  <2>2. ASSUME NEW d \in Payloads, add(d)
        PROVE  Abstract!Next
    <3>1. Abstract!Submit(d)
      BY <2>2 DEF add, Abstract!Submit
    <3>. QED
      BY <3>1
  <2>3. ASSUME NEW p \in Partitions, NEW c \in Concurrency, DrainPartition(p, c)
        PROVE  Abstract!Next
    <3>1. Admitted(p, c) \subseteq waiting[p]
      BY CandidatesWait
    <3>2. \A j \in Admitted(p, c) :
            /\ \A k \in active[p] : ~ SameService(j.data, k.data)
            /\ \A k \in waiting[p] : SameService(j.data, k.data) => k.id >= j.id
      <4>1. \A j \in Admitted(p, c) :
              /\ getGroup(j.data) \notin activeGroups[p]
              /\ \A k \in waiting[p] :
                   getGroup(k.data) = getGroup(j.data) => k.id >= j.id
        BY CandidatesWait DEF Candidates
      <4>2. \A k \in active[p] : getGroup(k.data) \in activeGroups[p]
        BY <1>2 DEF IInv, GroupsTrackActive
      <4>. QED
        BY <4>1, <4>2, GroupIsService
    <3>3. Abstract!Start(p, Admitted(p, c))
      BY <2>3, <3>1, <3>2 DEF DrainPartition, Abstract!Start
    <3>. QED
      BY <3>1, <3>3
  <2>4. ASSUME NEW p \in Partitions, NEW j \in active[p], JobSettles(p, j)
        PROVE  Abstract!Next
    <3>1. Abstract!Finish(p, j)
      BY <2>4 DEF JobSettles, Abstract!Finish
    <3>. QED
      BY <3>1
  <2>5. ASSUME NEW S \in SUBSET AllWaiting, withdraw(S)
        PROVE  Abstract!Next
    <3>1. Abstract!Withdraw(S)
      BY <2>5 DEF withdraw, Abstract!Withdraw
    <3>. QED
      BY <3>1 DEF AllWaiting
  <2>. QED
    BY <1>2, <2>1, <2>2, <2>3, <2>4, <2>5
    DEF Next, Clients, Worker, vars, jobVars, process, run, close, UpdateLimit,
        ResolveConcurrency, remove, cleanQueuesByApplication,
        cleanQueuesByCompose, clearWaiting
<1>3. IInv /\ [Next]_vars => [Abstract!Next]_(Abstract!vars)
  BY <1>2
<1>. QED
  BY <1>1, <1>3, InductiveInvariant, PTL
  DEF Spec, ImplementsServiceQueue, Abstract!Spec

-----------------------------------------------------------------------------
(* The loop of drainPartition, iteration by iteration                      *)

goesOn(p, c, S) == Cardinality(active[p]) + Cardinality(S) < c /\ free(p, S) # {}

\* An iteration that starts a job starts the oldest that is free.
iterates(p, c, S, T) ==
  /\ goesOn(p, c, S)
  /\ \E j \in free(p, S) : (\A k \in free(p, S) : j.id <= k.id) /\ T = S \cup {j}

\* The jobs the loop has started: admitted ones, none passed over.
begun(p, c, S) ==
  /\ S \subseteq Admitted(p, c)
  /\ \A j \in S : \A k \in Candidates(p) : k.id < j.id => k \in S

\* A candidate that has not been started is free.
LEMMA CandidatesFree ==
  ASSUME TypeOK, WaitingNumbered, NEW p \in Partitions, NEW S \in SUBSET Candidates(p),
         NEW k \in Candidates(p) \ S
  PROVE  k \in free(p, S)
<1>1. k \in waiting[p] /\ getGroup(k.data) \notin activeGroups[p]
  BY DEF Candidates
<1>2. \A m \in S : getGroup(m.data) # getGroup(k.data)
  BY CandidatesDistinct
<1>. QED
  BY <1>1, <1>2 DEF free

LEMMA LoopIterates ==
  ASSUME TypeOK, WaitingNumbered, NEW p \in Partitions, NEW c \in Nat,
         NEW S, begun(p, c, S), NEW T, iterates(p, c, S, T)
  PROVE  begun(p, c, T)
<1>1. PICK j \in free(p, S) : (\A k \in free(p, S) : j.id <= k.id) /\ T = S \cup {j}
  BY DEF iterates
<1>2. /\ S \subseteq Candidates(p) /\ Candidates(p) \subseteq waiting[p]
      /\ waiting[p] \subseteq Job /\ j \in waiting[p] /\ j \notin S
      /\ getGroup(j.data) \notin activeGroups[p]
      /\ \A k \in S : getGroup(k.data) # getGroup(j.data)
  BY <1>1, CandidatesWait DEF begun, free, TypeOK
<1>3. \A k \in waiting[p] : k.id \in Nat
  BY <1>2 DEF Job
<1>4. j \in Candidates(p)
  <2>1. ASSUME NEW k \in waiting[p], getGroup(k.data) = getGroup(j.data)
        PROVE  k.id >= j.id
    <3>1. k \in free(p, S)
      BY <1>2, <2>1 DEF free
    <3>. QED
      BY <1>1, <1>2, <1>3, <3>1
  <2>. QED
    BY <1>2, <2>1 DEF Candidates
<1>5. ASSUME NEW k \in Candidates(p) PROVE k.id < j.id <=> k \in S
  <2>1. ASSUME k \in S PROVE k.id < j.id
    <3>1. k.id # j.id
      BY <1>2, <2>1 DEF WaitingNumbered
    <3>2. ~ (j.id < k.id)
      BY <1>2, <1>4, <2>1 DEF begun
    <3>. QED
      BY <1>2, <1>3, <3>1, <3>2
  <2>2. ASSUME k \notin S PROVE ~ (k.id < j.id)
    <3>1. k \in free(p, S)
      BY <1>2, <2>2, CandidatesFree
    <3>. QED
      BY <1>1, <1>2, <1>3, <3>1
  <2>. QED
    BY <2>1, <2>2
<1>6. j \in Admitted(p, c)
  <2>1. {k \in Candidates(p) : k.id < j.id} = S
    BY <1>2, <1>5
  <2>. QED
    BY <1>4, <2>1 DEF Admitted, iterates, goesOn
<1>7. \A i \in T : \A k \in Candidates(p) : k.id < i.id => k \in T
  BY <1>1, <1>5 DEF begun
<1>. QED
  BY <1>1, <1>6, <1>7 DEF begun

\* The loop has stopped only when all that is admitted is started.
LEMMA LoopStops ==
  ASSUME TypeOK, WaitingNumbered, FiniteJobs, NEW p \in Partitions, NEW c \in Nat,
         NEW S, begun(p, c, S), ~ goesOn(p, c, S)
  PROVE  S = Admitted(p, c)
<1>. SUFFICES ASSUME NEW j \in Admitted(p, c), j \notin S PROVE FALSE
  BY DEF begun
<1>. DEFINE Below == {k \in Candidates(p) : k.id < j.id}
<1>1. /\ S \subseteq Candidates(p) /\ Candidates(p) \subseteq waiting[p]
      /\ waiting[p] \subseteq Job /\ j \in Candidates(p)
  BY CandidatesWait DEF begun, TypeOK
<1>2. free(p, S) # {}
  BY <1>1, CandidatesFree
<1>3. S \subseteq Below
  <2>. SUFFICES ASSUME NEW k \in S PROVE k.id < j.id
    BY <1>1
  <2>1. k.id \in Nat /\ j.id \in Nat
    BY <1>1 DEF Job
  <2>2. k.id # j.id
    BY <1>1 DEF WaitingNumbered
  <2>3. ~ (j.id < k.id)
    BY <1>1 DEF begun
  <2>. QED
    BY <2>1, <2>2, <2>3
<1>4. IsFiniteSet(Below) /\ IsFiniteSet(S) /\ Cardinality(S) <= Cardinality(Below)
  <2>1. IsFiniteSet(waiting[p])
    BY DEF FiniteJobs
  <2>2. IsFiniteSet(Below)
    BY <1>1, <2>1, FS_Subset
  <2>. QED
    BY <1>3, <2>2, FS_Subset
<1>5. /\ Cardinality(S) \in Nat /\ Cardinality(Below) \in Nat
      /\ Cardinality(active[p]) \in Nat
  BY <1>4, FS_CardinalityType DEF FiniteJobs
<1>6. Cardinality(active[p]) + Cardinality(Below) < c
  BY DEF Admitted
<1>. QED
  BY <1>2, <1>4, <1>5, <1>6 DEF goesOn

\* An iteration starts the oldest free job, or changes nothing.
LEMMA IterationIs ==
  ASSUME TypeOK, WaitingNumbered, FiniteJobs, NEW p \in Partitions, NEW c \in Nat,
         NEW S, IsFiniteSet(S)
  PROVE  IF goesOn(p, c, S) THEN iterates(p, c, S, iterate(p, c, S))
                            ELSE iterate(p, c, S) = S
<1>. DEFINE Least == {j \in free(p, S) : \A k \in free(p, S) : j.id <= k.id}
<1>1. /\ Cardinality(active[p]) \in Nat /\ Cardinality(S) \in Nat
  BY FS_CardinalityType DEF FiniteJobs
<1>2. free(p, S) \subseteq waiting[p] /\ waiting[p] \subseteq Job
  BY DEF free, TypeOK
<1>5. iterate(p, c, S) = IF Cardinality(active[p]) + Cardinality(S) >= c
                          THEN S ELSE S \cup Least
  BY DEF iterate
<1>3. CASE goesOn(p, c, S)
  <2>1. PICK j \in free(p, S) : \A k \in free(p, S) : j.id <= k.id
    <3>. DEFINE Ids == {k.id : k \in free(p, S)}
    <3>1. Ids \in SUBSET Nat /\ Ids # {}
      BY <1>2, <1>3 DEF goesOn, Job
    <3>2. PICK x \in Ids : \A y \in Ids : x <= y
      <4>. HIDE DEF Ids
      <4>. QED
        BY <3>1, LeastNatural
    <3>. QED
      BY <3>2
  <2>2. ASSUME NEW k \in Least PROVE k = j
    <3>1. k.id \in Nat /\ j.id \in Nat /\ k.id <= j.id /\ j.id <= k.id
      BY <1>2, <2>1, <2>2 DEF Job
    <3>2. k.id = j.id
      BY <3>1
    <3>. QED
      BY <1>2, <2>2, <3>2 DEF WaitingNumbered
  <2>3. Least = {j}
    BY <2>1, <2>2
  <2>4. iterate(p, c, S) = S \cup Least
    BY <1>1, <1>5, <1>3 DEF goesOn
  <2>. QED
    BY <1>3, <2>1, <2>3, <2>4 DEF iterates
<1>4. CASE ~ goesOn(p, c, S)
  <2>. SUFFICES iterate(p, c, S) = S
    BY <1>4
  <2>1. CASE free(p, S) = {}
    <3>1. Least = {}
      BY <2>1
    <3>. HIDE DEF Least
    <3>. QED
      BY <1>5, <3>1
  <2>2. CASE free(p, S) # {}
    <3>1. Cardinality(active[p]) + Cardinality(S) >= c
      BY <1>1, <1>4, <2>2 DEF goesOn
    <3>. QED
      BY <1>5, <3>1
  <2>. QED
    BY <2>1, <2>2
<1>. QED
  BY <1>3, <1>4

\* A recursive function is one only if there is such a function: the iterations
\* up to n, and then all of them.
upTo(p, c, n, s) ==
  s = [i \in 0..n |-> IF i = 0 THEN {} ELSE iterate(p, c, s[i - 1])]

LEMMA IterationsExist ==
  ASSUME NEW p, NEW c, NEW n \in Nat
  PROVE  \E s : upTo(p, c, n, s)
<1>. DEFINE Bad == {m \in Nat : ~ \E s : upTo(p, c, m, s)}
<1>1. SUFFICES ASSUME Bad # {} PROVE FALSE
  OBVIOUS
<1>2. PICK m \in Bad : \A k \in Bad : m <= k
  <2>1. Bad \in SUBSET Nat
    OBVIOUS
  <2>. HIDE DEF Bad
  <2>. QED
    BY <1>1, <2>1, LeastNatural
<1>3. m # 0
  <2>1. upTo(p, c, 0, [i \in 0..0 |-> {}])
    BY DEF upTo
  <2>. QED
    BY <1>2, <2>1
<1>4. m \in Nat /\ m - 1 \in Nat /\ m - 1 \notin Bad
  BY <1>2, <1>3
<1>5. PICK s : upTo(p, c, m - 1, s)
  BY <1>4
<1>. DEFINE t == [i \in 0..m |-> IF i = m THEN iterate(p, c, s[m - 1]) ELSE s[i]]
<1>6. ASSUME NEW i \in 0..m
      PROVE  t[i] = IF i = 0 THEN {} ELSE iterate(p, c, t[i - 1])
  <2>1. CASE i = m
    <3>1. t[i] = iterate(p, c, s[m - 1]) /\ m - 1 \in 0..m /\ m - 1 # m
      BY <1>4, <2>1
    <3>2. t[m - 1] = s[m - 1]
      BY <3>1
    <3>. QED
      BY <1>3, <2>1, <3>1, <3>2
  <2>2. CASE i # m
    <3>1. i \in 0..(m - 1) /\ t[i] = s[i]
      BY <1>4, <2>2
    <3>2. s[i] = IF i = 0 THEN {} ELSE iterate(p, c, s[i - 1])
      BY <1>5, <3>1 DEF upTo
    <3>3. i # 0 => i - 1 \in 0..m /\ i - 1 # m
      BY <1>4, <3>1
    <3>4. i # 0 => t[i - 1] = s[i - 1]
      BY <3>3
    <3>. HIDE DEF t
    <3>. QED
      BY <3>1, <3>2, <3>4
  <2>. QED
    BY <2>1, <2>2
<1>7. t = [i \in 0..m |-> t[i]]
  OBVIOUS
<1>8. upTo(p, c, m, t)
  <2>. HIDE DEF t
  <2>1. [i \in 0..m |-> t[i]] =
          [i \in 0..m |-> IF i = 0 THEN {} ELSE iterate(p, c, t[i - 1])]
    BY <1>6
  <2>. QED
    BY <1>7, <2>1 DEF upTo
<1>. QED
  BY <1>2, <1>8

LEMMA IterationsAgree ==
  ASSUME NEW p, NEW c, NEW m \in Nat, NEW n \in Nat, NEW s, NEW t,
         upTo(p, c, m, s), upTo(p, c, n, t), NEW i \in Nat, i <= m, i <= n
  PROVE  s[i] = t[i]
<1>. DEFINE Bad == {k \in 0..i : s[k] # t[k]}
<1>1. SUFFICES ASSUME Bad # {} PROVE FALSE
  OBVIOUS
<1>2. PICK k \in Bad : \A l \in Bad : k <= l
  <2>1. Bad \in SUBSET Nat
    OBVIOUS
  <2>. HIDE DEF Bad
  <2>. QED
    BY <1>1, <2>1, LeastNatural
<1>3. k \in 0..m /\ k \in 0..n /\ k \in 0..i
  BY <1>2
<1>4. /\ s[k] = IF k = 0 THEN {} ELSE iterate(p, c, s[k - 1])
      /\ t[k] = IF k = 0 THEN {} ELSE iterate(p, c, t[k - 1])
  BY <1>3 DEF upTo
<1>5. k # 0 => s[k - 1] = t[k - 1]
  <2>. SUFFICES ASSUME k # 0 PROVE k - 1 \notin Bad /\ k - 1 \in 0..i
    OBVIOUS
  <2>. QED
    BY <1>2, <1>3
<1>. QED
  BY <1>2, <1>4, <1>5

LEMMA LoopDefined ==
  ASSUME NEW p, NEW c
  PROVE  /\ Loop(p, c)[0] = {}
         /\ \A n \in Nat : Loop(p, c)[n + 1] = iterate(p, c, Loop(p, c)[n])
<1>. DEFINE upto(n) == CHOOSE s : upTo(p, c, n, s)
            all == [n \in Nat |-> upto(n)[n]]
<1>1. \A n \in Nat : upTo(p, c, n, upto(n))
  BY IterationsExist
<1>2. ASSUME NEW n \in Nat
      PROVE  all[n] = IF n = 0 THEN {} ELSE iterate(p, c, all[n - 1])
  <2>1. upto(n)[n] = IF n = 0 THEN {} ELSE iterate(p, c, upto(n)[n - 1])
    <3>1. PICK s : s = upto(n)
      OBVIOUS
    <3>2. upTo(p, c, n, s) /\ n \in 0..n
      BY <1>1, <3>1
    <3>3. s[n] = IF n = 0 THEN {} ELSE iterate(p, c, s[n - 1])
      BY <3>2 DEF upTo
    <3>. QED
      BY <3>1, <3>3
  <2>2. n # 0 => upto(n)[n - 1] = upto(n - 1)[n - 1]
    <3>. SUFFICES ASSUME n # 0 PROVE upto(n)[n - 1] = upto(n - 1)[n - 1]
      OBVIOUS
    <3>1. n - 1 \in Nat /\ n - 1 <= n /\ n - 1 <= n - 1
      OBVIOUS
    <3>2. upTo(p, c, n, upto(n)) /\ upTo(p, c, n - 1, upto(n - 1))
      BY <1>1, <3>1
    <3>. HIDE DEF upto
    <3>. QED
      BY <3>1, <3>2, IterationsAgree
  <2>3. n # 0 => n - 1 \in Nat
    OBVIOUS
  <2>. HIDE DEF upto
  <2>. QED
    BY <2>1, <2>2, <2>3
<1>3. all = [n \in Nat |-> IF n = 0 THEN {} ELSE iterate(p, c, all[n - 1])]
  <2>1. all = [n \in Nat |-> all[n]]
    OBVIOUS
  <2>. HIDE DEF all
  <2>. QED
    BY <1>2, <2>1
<1>4. Loop(p, c) =
        [n \in Nat |-> IF n = 0 THEN {} ELSE iterate(p, c, Loop(p, c)[n - 1])]
  <2>. HIDE DEF all
  <2>. QED
    BY <1>3 DEF Loop
<1>5. \A n \in Nat : n + 1 \in Nat /\ n + 1 # 0 /\ (n + 1) - 1 = n
  OBVIOUS
<1>. QED
  BY <1>4, <1>5

\* After n iterations n jobs have been started, or all that are admitted, and
\* none was passed over.
LEMMA LoopInvariant ==
  ASSUME TypeOK, WaitingNumbered, FiniteJobs, NEW p \in Partitions, NEW c \in Nat,
         NEW n \in Nat
  PROVE  LET S == Loop(p, c)[n] IN
         /\ begun(p, c, S) /\ IsFiniteSet(S)
         /\ Cardinality(S) = n \/ S = Admitted(p, c)
<1>. DEFINE good(k) == LET S == Loop(p, c)[k] IN
                       /\ begun(p, c, S) /\ IsFiniteSet(S)
                       /\ Cardinality(S) = k \/ S = Admitted(p, c)
            Bad == {k \in Nat : ~ good(k)}
<1>1. SUFFICES ASSUME Bad # {} PROVE FALSE
  OBVIOUS
<1>2. PICK m \in Bad : \A k \in Bad : m <= k
  <2>1. Bad \in SUBSET Nat
    OBVIOUS
  <2>. HIDE DEF Bad
  <2>. QED
    BY <1>1, <2>1, LeastNatural
<1>3. m # 0
  <2>1. good(0)
    BY FS_EmptySet, LoopDefined DEF begun
  <2>. QED
    BY <1>2, <2>1
<1>4. m - 1 \in Nat /\ m \in Nat /\ (m - 1) + 1 = m /\ m - 1 \notin Bad
  BY <1>2, <1>3
<1>5. PICK S : S = Loop(p, c)[m - 1]
  OBVIOUS
<1>6. PICK T : T = Loop(p, c)[m]
  OBVIOUS
<1>7. /\ begun(p, c, S) /\ IsFiniteSet(S)
      /\ Cardinality(S) = m - 1 \/ S = Admitted(p, c)
  BY <1>4, <1>5
<1>8. T = iterate(p, c, S)
  BY <1>4, <1>5, <1>6, LoopDefined
<1>9. CASE goesOn(p, c, S)
  <2>1. iterates(p, c, S, T)
    BY <1>7, <1>8, <1>9, IterationIs
  <2>2. begun(p, c, T)
    BY <1>7, <2>1, LoopIterates
  <2>3. PICK j : j \notin S /\ T = S \cup {j}
    BY <2>1 DEF iterates, free
  <2>4. S # Admitted(p, c)
    BY <2>2, <2>3 DEF begun
  <2>5. IsFiniteSet(T) /\ Cardinality(T) = Cardinality(S) + 1
    BY <1>7, <2>3, FS_AddElement
  <2>6. Cardinality(T) = m
    BY <1>4, <1>7, <2>4, <2>5
  <2>. QED
    BY <1>2, <1>6, <2>2, <2>5, <2>6
<1>10. CASE ~ goesOn(p, c, S)
  <2>1. T = S
    BY <1>7, <1>8, <1>10, IterationIs
  <2>2. S = Admitted(p, c)
    BY <1>7, <1>10, LoopStops
  <2>. QED
    BY <1>2, <1>6, <1>7, <2>1, <2>2
<1>. QED
  BY <1>9, <1>10

\* The set a drain starts in the specification is the one the loop of
\* drainPartition starts, whatever waits, whatever runs, for every limit.
THEOREM DrainsRunTheLoop == Spec => []AdmittedIsTheLoop
<1>1. ASSUME IInv PROVE AdmittedIsTheLoop
  <2>. SUFFICES ASSUME NEW p \in Partitions, NEW c \in Concurrency
                PROVE  Loop(p, c)[Cardinality(waiting[p])] = Admitted(p, c)
    BY DEF AdmittedIsTheLoop
  <2>1. TypeOK /\ WaitingNumbered /\ FiniteJobs /\ c \in Nat
    BY <1>1, ConcurrencyPositive DEF IInv
  <2>. DEFINE N == Cardinality(waiting[p])
  <2>2. IsFiniteSet(waiting[p]) /\ N \in Nat
    BY <2>1, FS_CardinalityType DEF FiniteJobs
  <2>3. PICK S : S = Loop(p, c)[N]
    OBVIOUS
  <2>4. begun(p, c, S) /\ IsFiniteSet(S) /\ (Cardinality(S) = N \/ S = Admitted(p, c))
    <3>. HIDE DEF N
    <3>. QED
      BY <2>1, <2>2, <2>3, LoopInvariant
  <2>5. S \subseteq Admitted(p, c) /\ Admitted(p, c) \subseteq waiting[p]
    BY <2>4, CandidatesWait DEF begun, Admitted
  <2>6. CASE Cardinality(S) = N
    <3>1. S = waiting[p]
      BY <2>2, <2>5, <2>6, FS_Subset
    <3>. QED
      BY <2>3, <2>5, <3>1
  <2>. QED
    BY <2>3, <2>4, <2>6
<1>. QED
  BY <1>1, InductiveInvariant, PTL
=============================================================================
