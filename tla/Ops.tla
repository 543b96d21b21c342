----------------------------------- MODULE Ops ----------------------------------
(***************************************************************************)
(* Operations: the tables ops_backup_history, ops_incidents,               *)
(* ops_shutdown_runs and ops_runtime_state as BackupService,               *)
(* IncidentService and ShutdownService change them, and the files that     *)
(* backups are.                                                            *)
(*                                                                         *)
(* A backup is named after the wall clock, which is set back and forth (the*)
(* host has no clock of its own), and its file is written before its row   *)
(* commits: BackupCut is a request that the process did not survive.  The  *)
(* other requests are one step.                                            *)
(***************************************************************************)
EXTENDS People

CONSTANTS
  Times,         \* bound: readings of the clock
  MaxData,       \* bound on the changes of the database
  MaxIncidents, MaxRuns  \* bounds: ids given out

ASSUME OpsConstants ==
  MaxData \in Nat \ {0} /\ MaxIncidents \in Nat /\ MaxRuns \in Nat

VARIABLES
  now,      \* the clock
  data,     \* the database: how many changes it has seen
  file,     \* by name: what the backup's file holds; 0 stands for no file
  backup,   \* ops_backup_history, by backup_name, which is UNIQUE
  reused,   \* no column: names that an attempt took while a row had them
  incident, lastIncident,  \* ops_incidents by id, and its counter
  run, lastRun,            \* ops_shutdown_runs by id: who asked; its counter
  degraded                 \* ops_runtime_state

backups == <<now, data, file, backup, reused>>
incidents == <<incident, lastIncident>>
runs == <<run, lastRun>>

Somebody == Users \cup {NoUser}
BackupRows == [status : {"none", "dry_run", "completed"}, sum : 0..MaxData, actor : Somebody]
NoBackup == [status |-> "none", sum |-> 0, actor |-> NoUser]
IncidentRows == [status : {"none", "open", "resolved"}, creator : Somebody, resolver : Somebody]
NoIncident == [status |-> "none", creator |-> NoUser, resolver |-> NoUser]
IncidentIds == 1..MaxIncidents
RunIds == 1..MaxRuns

OpsInit ==
  /\ now \in Times
  /\ data = 1
  /\ file = [t \in Times |-> 0]
  /\ backup = [t \in Times |-> NoBackup]
  /\ reused = {}
  /\ incident = [i \in IncidentIds |-> NoIncident] /\ lastIncident = 0
  /\ run = [i \in RunIds |-> NoUser] /\ lastRun = 0
  /\ degraded = [on |-> FALSE, by |-> NoUser]

(* _resolve_admin_user_id of api/ops.py, and _require_active_admin of the  *)
(* three services.                                                         *)
OpsPanel(u) == IsAdmin(u) /\ CanAccessAdminFeatures(u)
MayBackUp(u) == Active(u) /\ IsAdmin(u)
MayReport(u) == Active(u) /\ IsAdmin(u)
MayShutDown(u) == Active(u) /\ IsAdmin(u)

-----------------------------------------------------------------------------
(* _insert_backup_row: a name that has a row refuses it, the row of the    *)
(* failure as well, and the transaction is rolled back.                    *)
Recorded(u, state, sum) ==
  IF backup[now].status = "none"
  THEN /\ backup' = [backup EXCEPT ![now] = [status |-> state, sum |-> sum, actor |-> u]]
       /\ UNCHANGED reused
  ELSE reused' = reused \cup {now} /\ UNCHANGED backup
(* _copy_sqlite_database writes over a file of that name. *)
Copied == file' = [file EXCEPT ![now] = data]

(* create_backup.  A copy that fails is no step: the row of the failure is *)
(* rolled back by the exception that reports it.  Mutant of the cut: the   *)
(* row is committed first.                                                 *)
CreateBackup(u) ==
  /\ MayBackUp(u)
  /\ Copied /\ Recorded(u, "completed", data)
  /\ UNCHANGED <<now, data>>
BackupCutRowFirst(u) ==
  /\ MayBackUp(u)
  /\ Recorded(u, "completed", data)
  /\ UNCHANGED <<now, data, file>>
BackupCut(u) ==
  /\ MayBackUp(u)
  /\ Copied
  /\ reused' = IF backup[now].status = "none" THEN reused ELSE reused \cup {now}
  /\ UNCHANGED <<now, data, backup>>
DryRun(u) ==
  /\ MayBackUp(u)
  /\ Recorded(u, "dry_run", 0)
  /\ UNCHANGED <<now, data, file>>

(* restore_dry_run: the names it offers to restore from. *)
Offered == {t \in Times : backup[t].status = "completed" /\ file[t] # 0}

BackupRoute(u) == OpsPanel(u) /\ (CreateBackup(u) \/ BackupCut(u))
DryRunRoute(u) == OpsPanel(u) /\ DryRun(u)

(* The clock is set, and other requests write to the database. *)
SetClock == \E t \in Times \ {now} : now' = t /\ UNCHANGED <<data, file, backup, reused>>
Write ==
  /\ data < MaxData /\ data' = data + 1
  /\ UNCHANGED <<now, file, backup, reused>>

BackupStep ==
  /\ \/ \E u \in Users : BackupRoute(u) \/ DryRunRoute(u)
     \/ SetClock \/ Write
  /\ UNCHANGED <<incidents, runs, degraded>>

-----------------------------------------------------------------------------
(* create_incident and resolve_incident, of a resolved one as well. *)
CreateIncident(u) ==
  /\ MayReport(u)
  /\ lastIncident < MaxIncidents /\ lastIncident' = lastIncident + 1
  /\ incident' = [incident EXCEPT ![lastIncident + 1] =
       [status |-> "open", creator |-> u, resolver |-> NoUser]]
ResolveIncident(u, i) ==
  /\ MayReport(u) /\ incident[i].status # "none"
  /\ incident' = [incident EXCEPT ![i] =
       [status |-> "resolved", creator |-> @.creator, resolver |-> u]]
  /\ UNCHANGED lastIncident
IncidentRoute(u) == OpsPanel(u) /\ CreateIncident(u)
ResolveRoute(u, i) == OpsPanel(u) /\ ResolveIncident(u, i)

IncidentStep ==
  /\ \E u \in Users : IncidentRoute(u) \/ \E i \in IncidentIds : ResolveRoute(u, i)
  /\ UNCHANGED <<backups, runs, degraded>>

(* set_degraded_mode and run_shutdown_dry, which only writes down what a   *)
(* shutdown would do.                                                      *)
SetDegradedMode(u, on) ==
  /\ MayShutDown(u)
  /\ degraded' = [on |-> on, by |-> u]
  /\ UNCHANGED runs
RunShutdownDry(u) ==
  /\ MayShutDown(u)
  /\ lastRun < MaxRuns /\ lastRun' = lastRun + 1
  /\ run' = [run EXCEPT ![lastRun + 1] = u]
  /\ UNCHANGED degraded
DegradedRoute(u, on) == OpsPanel(u) /\ SetDegradedMode(u, on)
ShutdownRoute(u) == OpsPanel(u) /\ RunShutdownDry(u)

StateStep ==
  /\ \E u \in Users : ShutdownRoute(u) \/ \E on \in BOOLEAN : DegradedRoute(u, on)
  /\ UNCHANGED <<backups, incidents>>

OpsStep == (BackupStep \/ IncidentStep \/ StateStep) /\ UNCHANGED people

(* Every reference to an account is ON DELETE SET NULL. *)
OpsLose(u) ==
  LET Without(v) == IF v = u THEN NoUser ELSE v IN
  /\ backup' = [t \in Times |-> [backup[t] EXCEPT !.actor = Without(@)]]
  /\ incident' = [i \in IncidentIds |->
       [incident[i] EXCEPT !.creator = Without(@), !.resolver = Without(@)]]
  /\ run' = [i \in RunIds |-> Without(run[i])]
  /\ degraded' = [degraded EXCEPT !.by = Without(@)]
  /\ UNCHANGED <<now, data, file, reused, lastIncident, lastRun>>

-----------------------------------------------------------------------------
(* The types of the tables; whoever they name exists. *)
Named(v) == v # NoUser => Exists(v)
OpsOK ==
  /\ now \in Times /\ data \in 1..MaxData /\ file \in [Times -> 0..MaxData]
  /\ backup \in [Times -> BackupRows] /\ reused \subseteq Times
  /\ incident \in [IncidentIds -> IncidentRows] /\ lastIncident \in 0..MaxIncidents
  /\ run \in [RunIds -> Somebody] /\ lastRun \in 0..MaxRuns
  /\ degraded \in [on : BOOLEAN, by : Somebody] /\ Named(degraded.by)
  /\ \A t \in Times : Named(backup[t].actor)
  /\ \A i \in IncidentIds : Named(incident[i].creator) /\ Named(incident[i].resolver)
  /\ \A i \in RunIds : Named(run[i])

(* Whatever was cut short and however the clock was set, a backup that the *)
(* history calls completed can be restored from, and holds the database of *)
(* that moment; of a later one, never of an earlier one, where a second    *)
(* attempt took its name (create_backup, restore_dry_run).                 *)
BackupsRestore ==
  \A t \in Times : backup[t].status = "completed" =>
    /\ t \in Offered
    /\ IF t \in reused THEN file[t] >= backup[t].sum ELSE file[t] = backup[t].sum
=============================================================================
