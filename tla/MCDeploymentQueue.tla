------------------------- MODULE MCDeploymentQueue -------------------------
(***************************************************************************)
(* Instances of DeploymentQueue for TLC.                                   *)
(***************************************************************************)
EXTENDS DeploymentQueue

MCServers  == {"server1"}
MCServices == {"a", "b"}

deployOf(type, service, server) ==
  [applicationType |-> type, service |-> service, serverId |-> server]

\* An application, its preview, a compose whose id is the application's and
\* another application, on the local host; the other one on a server as well.
MCPayloads ==
  {deployOf("application", "a", NoServer),
   deployOf("application-preview", "a", NoServer),
   deployOf("compose", "a", NoServer),
   deployOf("application", "b", "server1")}

\* One host only, four services: more groups than slots.
OneHostPayloads ==
  {deployOf("application", "a", NoServer),
   deployOf("application-preview", "a", NoServer),
   deployOf("compose", "a", NoServer),
   deployOf("application", "b", NoServer)}

NoServers    == {}
EitherLimit  == {1, 2}

=============================================================================
