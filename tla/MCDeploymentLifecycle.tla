----------------------- MODULE MCDeploymentLifecycle -----------------------
(***************************************************************************)
(* Instances of DeploymentLifecycle for TLC: one host, an application with *)
(* a preview, and a compose.                                               *)
(***************************************************************************)
EXTENDS DeploymentLifecycle

MCServers  == {}
MCServices == {"a", "b"}

deployOf(type, service) ==
  [applicationType |-> type, service |-> service, serverId |-> NoServer]

\* Two services that build at the same time.
TwoServices ==
  {deployOf("application", "a"), deployOf("compose", "b")}

\* Two services in one group, deleted together.
WithPreview ==
  {deployOf("application", "a"), deployOf("application-preview", "a")}

OneApplication == {deployOf("application", "a")}

AllButReport  == {"retention", "remove", "prepare", "notify", "sweep"}
NoStrandedJob == {"remove", "prepare", "notify"}
ClearedLogs   == {"clear"}
=============================================================================
