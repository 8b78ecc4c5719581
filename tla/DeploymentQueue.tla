-------------------------- MODULE DeploymentQueue --------------------------
(***************************************************************************)
(* InMemoryQueue, the deployment queue of a self-hosted instance           *)
(* (apps/dokploy/server/queues/in-memory-queue.ts).                        *)
(*                                                                         *)
(* JavaScript runs a function without interruption up to its next await,   *)
(* so every method of the class is one step, and drainPartition is two:    *)
(* everything before `await this.resolveConcurrency(key)` belongs to its   *)
(* caller, which leaves one more drain in flight, and everything after it  *)
(* is the step DrainPartition.  Between the two, resolveConcurrency reads  *)
(* the configured limit from the database, a step of its own because the   *)
(* value it returns may be stale when the drain resumes.                   *)
(*                                                                         *)
(* A partition's `waiting` array is pushed at the end, only filtered and   *)
(* spliced otherwise, and numbered by the counter seq: it is the set of    *)
(* its jobs ordered by id.  `active` is only searched by id and counted.   *)
(***************************************************************************)
EXTENDS DeploymentJobs, FiniteSets

CONSTANTS
  Limits,    \* the values buildsConcurrency may be configured with
  QueryMayFail, \* the query of buildsConcurrency may fail or find no row
  MaxJobs,   \* bound of the model: how many jobs are ever added
  MaxDrains  \* bound of the model: run() and process() are called only while
             \* fewer drains than this are in flight (see DrainsBounded)

ASSUME LimitsAssumption == Limits \subseteq Nat /\ Limits # {}
ASSUME QueryAssumption == QueryMayFail \in BOOLEAN
ASSUME BoundsAssumption == MaxJobs \in Nat /\ MaxDrains \in Nat

VARIABLES
  seq,           \* the id of the last job added
  partitions,    \* the keys of the Map: the partitions that ever got a job
  waiting,       \* waiting[p]: the jobs that wait in partition p
  active,        \* active[p]: the jobs that run in partition p
  activeGroups,  \* activeGroups[p]: the groups of those jobs
  running,       \* the queue accepts to schedule: process()/run() .. close()
  processor,     \* a processor has been registered
  limit,         \* limit[p]: buildsConcurrency in the database
  resolving,     \* resolving[p]: drains of p whose limit is not yet read
  resolved       \* resolved[p][c]: drains of p about to resume with limit c

vars == <<seq, partitions, waiting, active, activeGroups, running, processor,
          limit, resolving, resolved>>

jobVars   == <<seq, partitions, waiting, active, activeGroups>>
drainVars == <<resolving, resolved>>

\* A limit as resolveBuildsConcurrency returns it and drainPartition clamps it.
normalize(value) == IF value < 1 THEN 1 ELSE value

Concurrency == {normalize(v) : v \in Limits} \cup {1}

TypeOK ==
  /\ seq \in 0..MaxJobs
  /\ partitions \in SUBSET Partitions
  /\ waiting \in [Partitions -> SUBSET Job]
  /\ active \in [Partitions -> SUBSET Job]
  /\ activeGroups \in [Partitions -> SUBSET {getGroup(d) : d \in Payloads}]
  /\ running \in BOOLEAN /\ processor \in BOOLEAN
  /\ limit \in [Partitions -> Limits]
  /\ resolving \in [Partitions -> Nat]
  /\ resolved \in [Partitions -> [Concurrency -> Nat]]

Init ==
  /\ seq = 0 /\ partitions = {}
  /\ waiting      = [p \in Partitions |-> {}]
  /\ active       = [p \in Partitions |-> {}]
  /\ activeGroups = [p \in Partitions |-> {}]
  /\ running = FALSE /\ processor = FALSE
  /\ limit \in [Partitions -> Limits]
  /\ resolving = [p \in Partitions |-> 0]
  /\ resolved  = [p \in Partitions |-> [c \in Concurrency |-> 0]]

-----------------------------------------------------------------------------
(* Scheduling                                                              *)

\* schedule() starts one drain in every existing partition, or none.
schedule ==
  resolving' = [p \in Partitions |->
                  IF running' /\ processor' /\ p \in partitions'
                  THEN resolving[p] + 1 ELSE resolving[p]]

\* Mutant: the array is searched from its end.
CandidatesNewest(p) ==
  {j \in waiting[p] :
     /\ getGroup(j.data) \notin activeGroups[p]
     /\ \A k \in waiting[p] :
          getGroup(k.data) = getGroup(j.data) => k.id <= j.id}

\* The jobs the drain loop may take: the oldest waiting job of every group
\* that runs nothing.  Younger jobs of such a group are skipped, because
\* taking the oldest makes the group active.
Candidates(p) ==
  {j \in waiting[p] :
     /\ getGroup(j.data) \notin activeGroups[p]
     /\ \A k \in waiting[p] :
          getGroup(k.data) = getGroup(j.data) => k.id >= j.id}

\* Mutants of Admitted: one build too many; the builds that already run are
\* not counted; an `if` in the place of the loop.
AdmittedOneMore(p, c) ==
  {j \in Candidates(p) :
     Cardinality(active[p])
       + Cardinality({k \in Candidates(p) : k.id < j.id}) <= c}

AdmittedPerDrain(p, c) ==
  {j \in Candidates(p) : Cardinality({k \in Candidates(p) : k.id < j.id}) < c}

AdmittedOnlyOne(p, c) ==
  {j \in Candidates(p) : /\ Cardinality(active[p]) < c
                         /\ \A k \in Candidates(p) : k.id >= j.id}

\* What the loop of drainPartition starts with limit c: the candidates in the
\* order of the array while a slot is free.
Admitted(p, c) ==
  {j \in Candidates(p) :
     Cardinality(active[p])
       + Cardinality({k \in Candidates(p) : k.id < j.id}) < c}

\* The while loop of drainPartition: the jobs started so far, S, make their groups
\* active; an iteration starts the first job of the array whose group is not.
free(p, S) ==
  {j \in waiting[p] \ S :
     getGroup(j.data) \notin activeGroups[p] \cup {getGroup(k.data) : k \in S}}

iterate(p, c, S) ==
  IF Cardinality(active[p]) + Cardinality(S) >= c THEN S
  ELSE S \cup {j \in free(p, S) : \A k \in free(p, S) : j.id <= k.id}

\* What it has started after n iterations.
Loop(p, c) ==
  LET loop[n \in Nat] == IF n = 0 THEN {} ELSE iterate(p, c, loop[n - 1])
  IN  loop

\* resolveBuildsConcurrency reads the limit; a missing row or a failing query
\* gives 1.
ResolveConcurrency(p) ==
  /\ resolving[p] > 0
  /\ resolving' = [resolving EXCEPT ![p] = @ - 1]
  /\ \E c \in Concurrency :
       /\ c = normalize(limit[p]) \/ (QueryMayFail /\ c = 1)
       /\ resolved' = [resolved EXCEPT ![p][c] = @ + 1]
  /\ UNCHANGED <<jobVars, running, processor, limit>>

\* Mutant: the jobs started are not spliced out of the array.
DrainWithoutSplice(p, c) ==
  /\ resolved[p][c] > 0
  /\ resolved' = [resolved EXCEPT ![p][c] = @ - 1]
  /\ active'   = [active EXCEPT ![p] = @ \cup Admitted(p, c)]
  /\ activeGroups' = [activeGroups EXCEPT
                        ![p] = @ \cup {getGroup(j.data) : j \in Admitted(p, c)}]
  /\ UNCHANGED <<seq, partitions, waiting, running, processor, limit, resolving>>

DrainPartition(p, c) ==
  /\ resolved[p][c] > 0
  /\ resolved' = [resolved EXCEPT ![p][c] = @ - 1]
  /\ waiting'  = [waiting EXCEPT ![p] = @ \ Admitted(p, c)]
  /\ active'   = [active EXCEPT ![p] = @ \cup Admitted(p, c)]
  /\ activeGroups' = [activeGroups EXCEPT
                        ![p] = @ \cup {getGroup(j.data) : j \in Admitted(p, c)}]
  /\ UNCHANGED <<seq, partitions, running, processor, limit, resolving>>

\* Mutants of JobSettles: no drain is started; the group stays active.
SettlesWithoutDrain(p, j) ==
  /\ j \in active[p]
  /\ active' = [active EXCEPT ![p] = @ \ {j}]
  /\ activeGroups' = [activeGroups EXCEPT ![p] = @ \ {getGroup(j.data)}]
  /\ UNCHANGED <<seq, partitions, waiting, running, processor, limit, drainVars>>

SettlesKeepingGroup(p, j) ==
  /\ j \in active[p]
  /\ active' = [active EXCEPT ![p] = @ \ {j}]
  /\ resolving' = [resolving EXCEPT ![p] = @ + 1]
  /\ UNCHANGED <<seq, partitions, waiting, activeGroups, running, processor,
                 limit, resolved>>

\* runJob after its processor has settled, returned or thrown: the job leaves
\* and a drain of its own partition starts, whether or not the queue is closed.
JobSettles(p, j) ==
  /\ j \in active[p]
  /\ active' = [active EXCEPT ![p] = @ \ {j}]
  /\ activeGroups' = [activeGroups EXCEPT ![p] = @ \ {getGroup(j.data)}]
  /\ resolving' = [resolving EXCEPT ![p] = @ + 1]
  /\ UNCHANGED <<seq, partitions, waiting, running, processor, limit, resolved>>

-----------------------------------------------------------------------------
(* The public methods                                                      *)

DrainsBounded ==
  \A p \in Partitions :
    /\ resolving[p] < MaxDrains
    /\ \A c \in Concurrency : resolved[p][c] < MaxDrains

process ==
  /\ DrainsBounded
  /\ processor' = TRUE
  /\ running' = TRUE
  /\ UNCHANGED jobVars
  /\ schedule
  /\ UNCHANGED <<limit, resolved>>

run ==
  /\ DrainsBounded
  /\ running' = TRUE
  /\ UNCHANGED <<jobVars, processor>>
  /\ schedule
  /\ UNCHANGED <<limit, resolved>>

close ==
  /\ running' = FALSE
  /\ UNCHANGED <<jobVars, processor, limit, drainVars>>

add(data) ==
  LET p   == getPartition(data)
      job == [id |-> seq + 1, data |-> data]
  IN
  /\ seq < MaxJobs
  /\ seq' = seq + 1
  /\ partitions' = partitions \cup {p}
  /\ waiting' = [waiting EXCEPT ![p] = @ \cup {job}]
  /\ UNCHANGED <<active, activeGroups, running, processor>>
  /\ schedule
  /\ UNCHANGED <<limit, resolved>>

\* The three ways to withdraw waiting jobs: one by its id, those of a service
\* (the predicates of cleanQueuesByApplication and cleanQueuesByCompose), all.
withdraw(jobs) ==
  /\ waiting' = [p \in Partitions |-> waiting[p] \ jobs]
  /\ UNCHANGED <<seq, partitions, active, activeGroups, running, processor,
                 limit, drainVars>>

AllWaiting == UNION {waiting[p] : p \in Partitions}

remove(id) == withdraw({j \in AllWaiting : j.id = id})

cleanQueuesByApplication(applicationId) ==
  withdraw({j \in AllWaiting : /\ j.data.applicationType # "compose"
                               /\ j.data.service = applicationId})

cleanQueuesByCompose(composeId) ==
  withdraw({j \in AllWaiting : /\ j.data.applicationType = "compose"
                               /\ j.data.service = composeId})

clearWaiting == withdraw(AllWaiting)

\* An administrator saves another limit; nothing is scheduled.
UpdateLimit(p) ==
  /\ \E value \in Limits : limit' = [limit EXCEPT ![p] = value]
  /\ UNCHANGED <<jobVars, running, processor, drainVars>>

-----------------------------------------------------------------------------
Clients ==
  \/ process \/ run \/ close \/ clearWaiting
  \/ \E d \in Payloads : add(d)
  \/ \E id \in 1..seq : remove(id)
  \/ \E s \in Services : cleanQueuesByApplication(s) \/ cleanQueuesByCompose(s)
  \/ \E p \in Partitions : UpdateLimit(p)

Worker ==
  \E p \in Partitions :
    \/ ResolveConcurrency(p)
    \/ \E c \in Concurrency : DrainPartition(p, c)
    \/ \E j \in active[p] : JobSettles(p, j)

Next == Clients \/ Worker

Spec == Init /\ [][Next]_vars

\* The event loop resumes every pending promise, a database query settles, and
\* a build ends; nothing is assumed of the clients.
Fairness ==
  \A p \in Partitions :
    /\ WF_vars(ResolveConcurrency(p))
    /\ \A c \in Concurrency : WF_vars(DrainPartition(p, c))
    /\ WF_vars(\E j \in active[p] : JobSettles(p, j))

FairSpec == Spec /\ Fairness
-----------------------------------------------------------------------------
(* Properties                                                              *)

\* Two jobs of one service (an application with its previews, or a compose)
\* never run at the same time in a partition (in-memory-queue.ts:12-13).
ServiceExclusive ==
  \A p \in Partitions : \A j, k \in active[p] :
    SameService(j.data, k.data) => j = k

\* The queue never forgets a job: while it is open, a partition with waiting
\* jobs has a running job, whose end will start a drain, or a drain in flight.
\* A schedule() missing after an await would leave jobs waiting for ever.
DrainInFlight(p) ==
  resolving[p] > 0 \/ \E c \in Concurrency : resolved[p][c] > 0

NoStall ==
  running /\ processor =>
    \A p \in Partitions :
      waiting[p] # {} => active[p] # {} \/ DrainInFlight(p)

\* Stronger, while limits neither change nor fail to be read: a free slot and
\* a job that could take it always come with a drain in flight.
WorkConserving ==
  running /\ processor =>
    \A p \in Partitions :
      Admitted(p, normalize(limit[p])) # {} => DrainInFlight(p)

Started(p) == active'[p] \ active[p]

\* However many drains resume at once, a build starts only within the limit
\* configured at that moment or within one a drain in flight has read before.
BuildsWithinLimit ==
  [][\A p \in Partitions :
       Started(p) # {} =>
         \E c \in Concurrency :
           /\ c = normalize(limit[p]) \/ resolved[p][c] > 0
           /\ Cardinality(active'[p]) <= c]_vars

\* Admitted, which the steps of the queue are defined with, is what the loop has
\* started when no iteration starts any more, which is after as many as there are
\* waiting jobs at most (in-memory-queue.ts:227-242).
AdmittedIsTheLoop ==
  \A p \in Partitions : \A c \in Concurrency :
    Loop(p, c)[Cardinality(waiting[p])] = Admitted(p, c)

\* Jobs start in the order they were added, except past services that are
\* building: an older job that still waits belongs to a service some other job
\* is building.
OldestFirst ==
  [][\A p \in Partitions : \A j \in Started(p) : \A k \in waiting'[p] :
       k.id < j.id =>
         \E b \in active'[p] \ {j} : SameService(b.data, k.data)]_vars

\* Every job added while the queue stays open starts or is withdrawn.
EveryJobStarts ==
  \A p \in Partitions : \A id \in 1..MaxJobs :
    [](([](running /\ processor) /\ \E j \in waiting[p] : j.id = id)
         => <>(\A j \in waiting[p] : j.id # id))

\* What the next step needs to know of this one, the inductive invariant:
\* activeGroups is exactly the set of the groups of the active jobs (two
\* separate collections in the code, updated by two methods); a group has one
\* active job; waiting jobs are numbered apart; a partition with waiting jobs
\* is a key of the map, hence seen by schedule().
GroupsTrackActive ==
  \A p \in Partitions :
    /\ activeGroups[p] = {getGroup(j.data) : j \in active[p]}
    /\ \A j, k \in active[p] : getGroup(j.data) = getGroup(k.data) => j = k

WaitingNumbered ==
  \A p \in Partitions : \A j \in waiting[p] :
    /\ j.id <= seq
    /\ \A k \in waiting[p] : j.id = k.id => j = k

WaitingKnown ==
  \A p \in Partitions : waiting[p] # {} => p \in partitions

FiniteJobs ==
  \A p \in Partitions : IsFiniteSet(waiting[p]) /\ IsFiniteSet(active[p])

IInv ==
  /\ TypeOK
  /\ GroupsTrackActive
  /\ WaitingNumbered
  /\ WaitingKnown
  /\ FiniteJobs
  /\ NoStall

\* The queue implements the abstract ServiceQueue.
Abstract == INSTANCE ServiceQueue
              WITH submitted <- seq, queued <- waiting, building <- active

ImplementsServiceQueue == Abstract!Spec
=============================================================================
