------------------------------ MODULE Migrations ------------------------------
(***************************************************************************)
(* Startup of the server: apply_sql_migrations (server/app/db/migrate.py), *)
(* called by the lifespan of server/app/main.py before anything is served, *)
(* under systemd's Restart=always.                                         *)
(*                                                                         *)
(* executescript commits the BEGIN before it and runs each statement in a  *)
(* transaction of its own: a script is not atomic, and the rollback after  *)
(* a failure undoes nothing of it.                                         *)
(***************************************************************************)
EXTENDS Naturals, Sequences, MigrationFiles

CONSTANT MaxCrashes  \* bound: crashes during startup

ASSUME MigrationConstants == MaxCrashes \in Nat

VARIABLES
  release,  \* number of scripts the installed release ships
  schema,   \* what the database holds
  applied,  \* schema_migrations
  pc,       \* down, migrating, serving, or failed and about to be restarted
  file, stmt,  \* the script and the statement that run next
  cut,      \* scripts that a crash has interrupted
  crashes

vars == <<release, schema, applied, pc, file, stmt, cut, crashes>>

Init ==
  /\ release \in DOMAIN Files
  /\ schema = {} /\ applied = {}
  /\ pc = "down" /\ file = 1 /\ stmt = 1
  /\ cut = {} /\ crashes = 0

-----------------------------------------------------------------------------
(* "if version in applied_set: continue". Mutants: every script runs        *)
(* again, scripts run that the release does not have.                      *)
IsPendingAlways(f) == f <= release
IsPendingBeyond(f) == f <= Len(Files) /\ f \notin applied
IsPending(f) == f <= release /\ f \notin applied

(* All statements ran. Mutant: the last one is left out. *)
RanAlmost(f, s) == s >= Len(Files[f])
Ran(f, s) == s > Len(Files[f])

Start ==
  /\ pc \in {"down", "failed"}
  /\ pc' = "migrating" /\ file' = 1 /\ stmt' = 1
  /\ UNCHANGED <<release, schema, applied, cut, crashes>>

Skip ==
  /\ pc = "migrating" /\ file <= release /\ ~IsPending(file)
  /\ file' = file + 1 /\ stmt' = 1
  /\ UNCHANGED <<release, schema, applied, pc, cut, crashes>>

(* One statement of executescript: it commits, or its error ends startup. *)
Possible(s) == s.needs \subseteq schema /\ s.bars \cap schema = {}
Run ==
  /\ pc = "migrating" /\ IsPending(file) /\ ~Ran(file, stmt)
  /\ LET s == Files[file][stmt] IN
     IF Possible(s)
     THEN /\ schema' = (schema \ s.drops) \cup s.adds
          /\ stmt' = stmt + 1
          /\ UNCHANGED pc
     ELSE /\ pc' = "failed"
          /\ UNCHANGED <<schema, stmt>>
  /\ UNCHANGED <<release, applied, file, cut, crashes>>

(* INSERT INTO schema_migrations, commit. *)
Record ==
  /\ pc = "migrating" /\ IsPending(file) /\ Ran(file, stmt)
  /\ applied' = applied \cup {file}
  /\ file' = file + 1 /\ stmt' = 1
  /\ UNCHANGED <<release, schema, pc, cut, crashes>>

Serve ==
  /\ pc = "migrating" /\ file > release
  /\ pc' = "serving"
  /\ UNCHANGED <<release, schema, applied, file, stmt, cut, crashes>>

(* The process stops: between statements, or while it serves. *)
Crash ==
  /\ pc = "migrating" /\ crashes < MaxCrashes
  /\ crashes' = crashes + 1
  /\ pc' = "down"
  /\ cut' = IF IsPending(file) /\ stmt > 1 THEN cut \cup {file} ELSE cut
  /\ UNCHANGED <<release, schema, applied, file, stmt>>
Stop ==
  /\ pc = "serving"
  /\ pc' = "down"
  /\ UNCHANGED <<release, schema, applied, file, stmt, cut, crashes>>

(* A newer release is installed: later scripts are added. *)
Upgrade ==
  /\ pc = "down"
  /\ release' \in {r \in DOMAIN Files : r > release}
  /\ UNCHANGED <<schema, applied, pc, file, stmt, cut, crashes>>

Next ==
  \/ Start \/ Skip \/ Run \/ Record \/ Serve
  \/ Crash \/ Stop \/ Upgrade

Spec == Init /\ [][Next]_vars

-----------------------------------------------------------------------------
(* What the first n scripts make of an empty database, run once each. *)
After[n \in 0..Len(Files)] ==
  IF n = 0 THEN {}
  ELSE LET Through[s \in 0..Len(Files[n])] ==
             IF s = 0 THEN After[n - 1]
             ELSE (Through[s - 1] \ Files[n][s].drops) \cup Files[n][s].adds
       IN  Through[Len(Files[n])]

(* Positions stay within the release's scripts. *)
TypeOK ==
  /\ release \in DOMAIN Files /\ applied \subseteq 1..release
  /\ pc \in {"down", "migrating", "serving", "failed"}
  /\ file \in 1..(release + 1)
  /\ stmt \in 1..(IF file > Len(Files) THEN 1 ELSE Len(Files[file]) + 1)
  /\ cut \subseteq DOMAIN Files /\ crashes \in 0..MaxCrashes

(* Whatever was interrupted before, a server that serves has the schema of *)
(* its release, no more and no less: the part of a script that runs again  *)
(* changes nothing, or startup fails.                                      *)
ServesItsSchema == pc = "serving" => schema = After[release]

(* The accounts are never lost, although 0021 drops their table and a      *)
(* crash there leaves a server that never starts again.                    *)
AccountsSurvive == 1 \in applied => {"rows", "copy"} \cap schema # {}

(* Startup fails only where an earlier one was interrupted: no order of    *)
(* installations, upgrades and restarts makes a script run twice.          *)
OnlyCrashesBreak == pc = "failed" => cut # {}

(* "connection.execute("BEGIN")" and "connection.rollback()"               *)
(* (db/migrate.py:82, 91): when nothing runs, the scripts have taken       *)
(* effect as a whole or not at all.                                        *)
ScriptsAreAtomic ==
  pc \in {"down", "failed"} => \E n \in 0..Len(Files) : schema = After[n]
=============================================================================
