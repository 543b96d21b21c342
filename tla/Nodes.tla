---------------------------------- MODULE Nodes ---------------------------------
(***************************************************************************)
(* Edge nodes: the table edge_node_deployments as EdgeNodeService changes  *)
(* it, beside the registry, whose requests ask nothing about deployments.  *)
(* Of the states that count as active the code writes "requested" only.    *)
(***************************************************************************)
EXTENDS Registry

CONSTANTS
  MaxDeployments,  \* bound: ids given out
  NoModule

ASSUME NodesConstants == MaxDeployments \in Nat /\ NoModule \notin Modules

VARIABLES
  deployment,     \* edge_node_deployments, by id
  lastDeployment  \* its AUTOINCREMENT counter

DeploymentIds == 1..MaxDeployments
DeploymentRows ==
  [status : {"none", "requested", "stopped"}, module : EdgeModules \cup {NoModule},
   by : Users \cup {NoUser}]
NoDeployment == [status |-> "none", module |-> NoModule, by |-> NoUser]

NodesInit ==
  /\ deployment = [i \in DeploymentIds |-> NoDeployment]
  /\ lastDeployment = 0

ActiveDeployments == {i \in DeploymentIds : deployment[i].status = "requested"}
ActiveCount == Cardinality(ActiveDeployments)

(* deploy_node asks for room first and for the module's own deployment     *)
(* afterwards.  Mutant: room is enough.                                    *)
RoomIsEnough(x) == ActiveCount < EdgeLimit
Deployable(x) ==
  /\ ActiveCount < EdgeLimit
  /\ \A i \in ActiveDeployments : deployment[i].module # x

MayDeploy(u) == Active(u) /\ IsAdmin(u)
DeployNode(u, x) ==
  /\ x \in Usable /\ MayDeploy(u) /\ Deployable(x)
  /\ lastDeployment < MaxDeployments
  /\ lastDeployment' = lastDeployment + 1
  /\ deployment' = [deployment EXCEPT ![lastDeployment + 1] =
       [status |-> "requested", module |-> x, by |-> u]]
(* stop_node, of one that is stopped already as well. *)
StopNode(i) ==
  /\ deployment[i].status # "none"
  /\ deployment' = [deployment EXCEPT ![i].status = "stopped"]
  /\ UNCHANGED lastDeployment

(* _resolve_admin_user_id of api/deployment.py, and its routes. *)
DeploymentPanel(u) == IsAdmin(u) /\ CanAccessAdminFeatures(u)
StartDeployment(u, x) == DeploymentPanel(u) /\ DeployNode(u, x)
StopDeployment(u, i) == DeploymentPanel(u) /\ StopNode(i)

NodeStep ==
  /\ \E u \in Users :
       \/ \E x \in EdgeModules : StartDeployment(u, x)
       \/ \E i \in DeploymentIds : StopDeployment(u, i)
  /\ UNCHANGED <<people, module>>

(* deployed_by_admin_user_id ON DELETE RESTRICT.  Mutant: as if stopped     *)
(* deployments released the account.                                       *)
StoppedRelease(u) == \A i \in ActiveDeployments : deployment[i].by # u
NodesRelease(u) == \A i \in DeploymentIds : deployment[i].by # u

-----------------------------------------------------------------------------
(* The types of the table; ids above the counter have no row, and whoever  *)
(* deployed exists.                                                        *)
NodesOK ==
  /\ deployment \in [DeploymentIds -> DeploymentRows]
  /\ lastDeployment \in 0..MaxDeployments
  /\ \A i \in DeploymentIds :
       IF deployment[i].status = "none" THEN i > lastDeployment /\ deployment[i] = NoDeployment
       ELSE i <= lastDeployment /\ deployment[i].module \in EdgeModules /\ Exists(deployment[i].by)

(* edge_capabilities: what a client is told. *)
EdgeCapabilities == [limit |-> EdgeLimit, detected |-> Usable, active |-> ActiveCount]

(* The edge limit never refuses a module that is there for another reason  *)
(* than a deployment on one that is gone: as long as the modules of all    *)
(* active deployments are detected, every other detected one has room      *)
(* (deploy_node compares a count over one table with a count over another).*)
CapacityReachable ==
  (\A i \in ActiveDeployments : deployment[i].module \in EdgeCapabilities.detected) =>
    \A x \in EdgeCapabilities.detected :
      \/ EdgeCapabilities.active < EdgeCapabilities.limit
      \/ \E i \in ActiveDeployments : deployment[i].module = x
=============================================================================
