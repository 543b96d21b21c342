-------------------------------- MODULE Registry --------------------------------
(***************************************************************************)
(* The hardware modules and their states: the table modules as             *)
(* ModuleRegistryService changes it for the administrators' requests.      *)
(* The rows of DEFAULT_MODULES are inserted when the server starts, and a  *)
(* later start leaves them as they are.                                    *)
(***************************************************************************)
EXTENDS People, FiniteSets

CONSTANTS
  Modules, Host,  \* the rows of DEFAULT_MODULES, and the Raspberry Pi's
  Reader,         \* the row of the card reader, pn532
  EdgeModules,    \* those of kind m5stamp_s3 or esp32_s3
  MaxEdge         \* the most that recompute_edge_node_limit answers: 4

ASSUME RegistryConstants ==
  /\ {Host, Reader} \cup EdgeModules \subseteq Modules
  /\ Host # Reader /\ {Host, Reader} \cap EdgeModules = {}
  /\ IsFiniteSet(EdgeModules) /\ MaxEdge \in Nat
  /\ Cardinality(EdgeModules) <= MaxEdge  \* DEFAULT_MODULES has two, and nothing adds rows

VARIABLE module  \* modules.status

RegistryInit == module = [x \in Modules |-> IF x = Host THEN "ok" ELSE "absent"]

(* set_module_enabled *)
SetModuleEnabled(x, enabled) ==
  module' = [module EXCEPT ![x] = IF enabled THEN "detected" ELSE "absent"]

(* _require_admin of api/module_control.py, and its two routes. *)
ControlPanel(u) == IsAdmin(u) /\ CanAccessAdminFeatures(u)
EnableModule(u, x) == ControlPanel(u) /\ SetModuleEnabled(x, TRUE)
DisableModule(u, x) == ControlPanel(u) /\ SetModuleEnabled(x, FALSE)

RegistryStep ==
  /\ \E u \in Users, x \in Modules : EnableModule(u, x) \/ DisableModule(u, x)
  /\ UNCHANGED people

(* is_module_enabled leaves "degraded" out, the edge limit counts it. *)
IsModuleEnabled(x) == module[x] \in {"detected", "ok"}
Usable == {x \in EdgeModules : module[x] \in {"detected", "degraded", "ok"}}
EdgeLimit == IF Cardinality(Usable) < MaxEdge THEN Cardinality(Usable) ELSE MaxEdge

RegistryOK == module \in [Modules -> {"absent", "detected", "ok"}]
=============================================================================
