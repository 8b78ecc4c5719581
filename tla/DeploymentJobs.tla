--------------------------- MODULE DeploymentJobs ---------------------------
(***************************************************************************)
(* The jobs of the deployment queue: the payload a router or a webhook     *)
(* puts in the queue (queue-types.ts) and the two keys the queue derives   *)
(* from it (in-memory-queue.ts): the partition, one per server, and        *)
(* the group, one per service.                                             *)
(***************************************************************************)
EXTENDS Naturals

CONSTANTS
  Servers,     \* the remote servers (server rows)
  NoServer,    \* an absent serverId
  Services,    \* ids of applications and composes
  Payloads     \* the payloads the clients may enqueue

LOCAL_PARTITION == "__local__"

ASSUME ServersAssumption ==
  /\ NoServer \notin Servers
  /\ LOCAL_PARTITION \notin Servers

\* The union type DeployJob.  `service` is its applicationId or composeId; a
\* preview carries the applicationId of the application it previews.
ApplicationTypes == {"application", "compose", "application-preview"}

DeploymentJob ==
  [applicationType : ApplicationTypes,
   service         : Services,
   serverId        : Servers \cup {NoServer}]

ASSUME PayloadsAssumption == Payloads \subseteq DeploymentJob

-----------------------------------------------------------------------------
Partitions == Servers \cup {LOCAL_PARTITION}

\* Mutant: a payload without a serverId keeps it as its partition key.
getPartitionBare(data) == data.serverId

getPartition(data) ==
  IF data.serverId = NoServer THEN LOCAL_PARTITION ELSE data.serverId

\* Mutant: a preview gets a group of its own.
getGroupByType(data) == <<data.applicationType, data.service>>

getGroup(data) ==
  IF data.applicationType = "compose" THEN <<"compose", data.service>>
                                      ELSE <<"application", data.service>>

\* A job as the queue stores it: its sequence number and its payload.
Job == [id : Nat \ {0}, data : Payloads]

\* Two payloads build the same application (previews included) or the same
\* compose.  Stated from the payloads alone, independently of getGroup.
SameService(d, e) ==
  /\ d.service = e.service
  /\ d.applicationType = "compose" <=> e.applicationType = "compose"
=============================================================================
