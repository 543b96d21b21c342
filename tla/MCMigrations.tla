---------------------------- MODULE MCMigrations ----------------------------
(***************************************************************************)
(* Every installed release, every upgrade, and up to MaxCrashes crashes.   *)
(***************************************************************************)
EXTENDS Migrations, TLC
=============================================================================
