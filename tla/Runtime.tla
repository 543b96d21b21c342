--------------------------------- MODULE Runtime --------------------------------
(***************************************************************************)
(* The nodes that report to the server: the table device_registry as       *)
(* DeviceRuntimeService changes it.  A row's metadata keeps the last       *)
(* registration, heartbeat and telemetry; the row's own columns follow     *)
(* whichever came last.                                                    *)
(***************************************************************************)
EXTENDS People

CONSTANTS NodeIds, NodeTypes, NoType

ASSUME RuntimeConstants == NoType \notin NodeTypes

VARIABLE node  \* device_registry, by id

Types == NodeTypes \cup {NoType}
(* told, beat and snap: the types under which the node registered, sent    *)
(* its last heartbeat and its last telemetry.                              *)
NodeRows ==
  [type : Types, status : {"none", "registered", "heartbeat", "telemetry"},
   told : Types, beat : Types, snap : Types]
NoNode == [type |-> NoType, status |-> "none", told |-> NoType, beat |-> NoType, snap |-> NoType]

RuntimeInit == node = [n \in NodeIds |-> NoNode]

(* register_device merges into the metadata of an earlier registration,    *)
(* be it of another type: its reports stay.                                *)
RegisterDevice(n, t) ==
  node' = [node EXCEPT ![n] =
    [type |-> t, status |-> "registered", told |-> t, beat |-> @.beat, snap |-> @.snap]]

(* record_heartbeat and record_telemetry, of a registered node of that type. *)
Registered(n, t) == node[n].type = t
RecordHeartbeat(n, t) ==
  /\ Registered(n, t)
  /\ node' = [node EXCEPT ![n] =
       [type |-> t, status |-> "heartbeat", told |-> @.told, beat |-> t, snap |-> @.snap]]
RecordTelemetry(n, t) ==
  /\ Registered(n, t)
  /\ node' = [node EXCEPT ![n] =
       [type |-> t, status |-> "telemetry", told |-> @.told, beat |-> @.beat, snap |-> t]]

(* _resolve_admin_user_id of api/device_runtime.py, and its routes. *)
RuntimePanel(u) == IsAdmin(u) /\ CanAccessAdminFeatures(u)
RegisterRoute(u, n, t) == RuntimePanel(u) /\ RegisterDevice(n, t)
HeartbeatRoute(u, n, t) == RuntimePanel(u) /\ RecordHeartbeat(n, t)
TelemetryRoute(u, n, t) == RuntimePanel(u) /\ RecordTelemetry(n, t)

RuntimeStep ==
  /\ \E u \in Users, n \in NodeIds, t \in NodeTypes :
       RegisterRoute(u, n, t) \/ HeartbeatRoute(u, n, t) \/ TelemetryRoute(u, n, t)
  /\ UNCHANGED people

(* The types of the table, and the row agrees with its metadata: it has    *)
(* the type that was registered last, and the report that its status names *)
(* was sent under it, although reports of earlier types are kept.          *)
RuntimeOK ==
  /\ node \in [NodeIds -> NodeRows]
  /\ \A n \in NodeIds :
       /\ node[n].told = node[n].type
       /\ node[n].status = "heartbeat" => node[n].beat = node[n].type
       /\ node[n].status = "telemetry" => node[n].snap = node[n].type
=============================================================================
