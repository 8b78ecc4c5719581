------------------------- MODULE DeploymentRequests -------------------------
(***************************************************************************)
(* Who fills the deployment queue of a self-hosted instance, and with      *)
(* which partition.  The tRPC routers (deploy, redeploy, drop, rebuild a   *)
(* preview) copy the serverId of the service into the job.  The webhooks   *)
(* (pages/api/deploy) set it only `if (IS_CLOUD && app.serverId)`: on a    *)
(* self-hosted instance their jobs carry none and go to the local          *)
(* partition, wherever the service is built.                               *)
(***************************************************************************)
EXTENDS DeploymentQueue

CONSTANTS
  Home,       \* Home[s]: the server the service s runs on, or NoServer
  Kinds       \* Kinds[s]: the application types service s is deployed as

ASSUME HomeAssumption == Home \in [Services -> Servers \cup {NoServer}]
ASSUME KindsAssumption == Kinds \in [Services -> SUBSET ApplicationTypes]

\* The payload of application.deploy/redeploy, compose.deploy/redeploy and
\* previewDeployment.redeploy.
routerJob(type, s) ==
  [applicationType |-> type, service |-> s, serverId |-> Home[s]]

\* The payload of the GitHub, generic and compose webhooks, not in the cloud.
webhookJob(type, s) ==
  [applicationType |-> type, service |-> s, serverId |-> NoServer]

ASSUME RequestsAssumption ==
  \A s \in Services : \A type \in Kinds[s] :
    {routerJob(type, s), webhookJob(type, s)} \subseteq Payloads

-----------------------------------------------------------------------------
routerDeploy(s)  == \E type \in Kinds[s] : add(routerJob(type, s))

webhookDeploy(s) == \E type \in Kinds[s] : add(webhookJob(type, s))

NextRequests ==
  \/ process /\ ~ processor      \* createInMemoryQueue, once
  \/ \E s \in Services :
       \/ routerDeploy(s) \/ webhookDeploy(s)
       \/ cleanQueuesByApplication(s) \/ cleanQueuesByCompose(s)
  \/ clearWaiting
  \/ Worker

SpecRequests == Init /\ [][NextRequests]_vars

-----------------------------------------------------------------------------
\* Two builds of one service never run at the same time on the instance: they
\* share its code directory and its container name (in-memory-queue.ts:14-15).
OneBuildPerService ==
  \A p, q \in Partitions : \A j \in active[p], k \in active[q] :
    SameService(j.data, k.data) => j = k
=============================================================================
