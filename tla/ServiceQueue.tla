---------------------------- MODULE ServiceQueue ----------------------------
(***************************************************************************)
(* What the deployment queue promises to the routers that use it, without  *)
(* saying how: in every partition jobs wait, then build, then are gone;    *)
(* a waiting job may be withdrawn; builds of one service never overlap and *)
(* start in the order they were submitted.                                 *)
(*                                                                         *)
(* DeploymentQueue implements this specification.                          *)
(***************************************************************************)
EXTENDS DeploymentJobs

VARIABLES
  submitted,   \* number of jobs ever submitted; also the last id given
  queued,      \* queued[p]: the jobs waiting in partition p
  building     \* building[p]: the jobs whose build runs in partition p

vars == <<submitted, queued, building>>

Init ==
  /\ submitted = 0
  /\ queued    = [p \in Partitions |-> {}]
  /\ building  = [p \in Partitions |-> {}]

Submit(d) ==
  LET p == getPartition(d) IN
  /\ submitted' = submitted + 1
  /\ queued' = [queued EXCEPT ![p] = @ \cup {[id |-> submitted + 1, data |-> d]}]
  /\ UNCHANGED building

\* One scheduling decision may start several builds, each the oldest of a
\* service that builds nothing at the moment.
Start(p, S) ==
  /\ S \subseteq queued[p]
  /\ \A j \in S :
       /\ \A k \in building[p] : ~ SameService(j.data, k.data)
       /\ \A k \in queued[p] : SameService(j.data, k.data) => k.id >= j.id
  /\ queued'   = [queued EXCEPT ![p] = @ \ S]
  /\ building' = [building EXCEPT ![p] = @ \cup S]
  /\ UNCHANGED submitted

Finish(p, j) ==
  /\ j \in building[p]
  /\ building' = [building EXCEPT ![p] = @ \ {j}]
  /\ UNCHANGED <<submitted, queued>>

Withdraw(S) ==
  /\ queued' = [p \in Partitions |-> queued[p] \ S]
  /\ UNCHANGED <<submitted, building>>

Next ==
  \/ \E d \in Payloads : Submit(d)
  \/ \E p \in Partitions : \E S \in SUBSET queued[p] : Start(p, S)
  \/ \E p \in Partitions : \E j \in building[p] : Finish(p, j)
  \/ \E S \in SUBSET UNION {queued[p] : p \in Partitions} : Withdraw(S)

Spec == Init /\ [][Next]_vars
=============================================================================
