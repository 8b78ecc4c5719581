------------------------ MODULE MCDeploymentRequests ------------------------
(***************************************************************************)
(* DeploymentRequests with an application on a remote server, and with     *)
(* only local services.                                                    *)
(***************************************************************************)
EXTENDS DeploymentRequests, TLC

MCServers  == {"server1"}
MCServices == {"a", "b"}

MCHome  == "a" :> "server1" @@ "b" :> NoServer
MCKinds == "a" :> {"application"} @@ "b" :> {"application"}

MCPayloads ==
  [applicationType : {"application"},
   service : MCServices, serverId : {"server1", NoServer}]

\* Everything on the local host, an application with its preview included.
NoServers  == {}
LocalHome  == [s \in MCServices |-> NoServer]
LocalKinds == "a" :> {"application", "application-preview"}
                @@ "b" :> {"compose"}
LocalPayloads ==
  {[applicationType |-> "application", service |-> "a", serverId |-> NoServer],
   [applicationType |-> "application-preview", service |-> "a",
    serverId |-> NoServer],
   [applicationType |-> "compose", service |-> "b", serverId |-> NoServer]}

LimitOfTwo == {2}
=============================================================================
