---------------------------------- MODULE Site ----------------------------------
(***************************************************************************)
(* The devices and operations of one server together: device combos, the   *)
(* module registry, RFID cards, edge nodes, reporting nodes, operations    *)
(* and the catalog over the same accounts, and the limits on requests.     *)
(* The parts meet where the card reader's gate and the edge limit ask the  *)
(* registry, where an account's deletion asks or changes all their tables, *)
(* and where the process starts again.                                     *)
(***************************************************************************)
EXTENDS Combos, Cards, Nodes, Runtime, Ops, Catalog, Limits

nodes == <<deployment, lastDeployment>>
ops == <<backups, incidents, runs, degraded>>
vars == <<people, combo, module, cards, inside, nodes, node, ops, catalog, limits>>

Init ==
  /\ PeopleInit /\ CombosInit /\ RegistryInit /\ CardsInit
  /\ NodesInit /\ RuntimeInit /\ OpsInit /\ CatalogInit /\ LimitsInit

(* delete_user, whoever may call it: a row that refers to the account and  *)
(* restricts its deletion refuses it, the others go or forget it.          *)
DeleteUser(u) ==
  /\ CardsRelease(u) /\ NodesRelease(u) /\ CatalogReleases(u)
  /\ Leave(u) /\ CombosLose(u) /\ CardsLose(u) /\ OpsLose(u) /\ CatalogLoses(u)
  /\ UNCHANGED <<module, inside, nodes, node, limits>>

(* restart_service and reboot_rpi, and any crash: systemd starts the       *)
(* process again, and the requests past the gate are lost.                 *)
Restart ==
  /\ inside' = 0 /\ LimitsForget
  /\ UNCHANGED <<people, combo, module, cards, nodes, node, ops, catalog>>

PartStep ==
  \/ ComboStep /\ UNCHANGED <<module, cards, inside, nodes, node, ops, catalog>>
  \/ RegistryStep /\ UNCHANGED <<combo, cards, inside, nodes, node, ops, catalog>>
  \/ CardStep /\ UNCHANGED <<combo, nodes, node, ops, catalog>>
  \/ NodeStep /\ UNCHANGED <<combo, cards, inside, node, ops, catalog>>
  \/ RuntimeStep /\ UNCHANGED <<combo, module, cards, inside, nodes, ops, catalog>>
  \/ OpsStep /\ UNCHANGED <<combo, module, cards, inside, nodes, node, catalog>>
  \/ CatalogStep /\ UNCHANGED <<combo, module, cards, inside, nodes, node, ops>>
  \/ PeopleStep /\ UNCHANGED <<combo, module, cards, inside, nodes, node, ops, catalog>>

Next ==
  \/ PartStep /\ UNCHANGED limits
  \/ LimitStep /\ UNCHANGED <<people, combo, module, cards, inside, nodes, node, ops, catalog>>
  \/ \E u \in Users : DeleteUser(u)
  \/ Restart

Spec == Init /\ [][Next]_vars

-----------------------------------------------------------------------------
(* The types of all tables, and every account that a row names exists:     *)
(* an account's deletion leaves no row of any part behind that it does not *)
(* change or is refused by.                                                *)
TypeOK ==
  /\ PeopleOK /\ CombosOK /\ RegistryOK /\ CardsOK /\ NodesOK /\ RuntimeOK /\ OpsOK
  /\ CatalogOK /\ LimitsOK

(* The combos of the whole server implement the ration of guesses.         *)
ImplementsRation == R!Spec
=============================================================================
