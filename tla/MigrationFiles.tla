---------------------------- MODULE MigrationFiles ----------------------------
(***************************************************************************)
(* The SQL scripts of server/migrations that touch users, statement by     *)
(* statement, and one script that does not.  The others are sequences of   *)
(* CREATE ... IF NOT EXISTS like 0001's and add nothing to the checks.     *)
(*                                                                         *)
(* A statement succeeds when the schema has what it needs and nothing that *)
(* bars it.  The schema is a set of tables, columns and indexes; "rows" is *)
(* the content of users, none or many, "copy" that of users_new.           *)
(***************************************************************************)
EXTENDS Sequences

Statement(needs, bars, drops, adds) ==
  [needs |-> needs, bars |-> bars, drops |-> drops, adds |-> adds]

(* CREATE ... IF NOT EXISTS, on a table that must exist in any case. *)
Create(object, table) == Statement(table, {}, {}, {object})

(* ALTER TABLE ADD COLUMN has no IF NOT EXISTS. *)
AddColumn(column, table) == Statement({table}, {column}, {}, {column})

File0001 ==
  <<Statement({}, {}, {}, {"users", "rows"}),
    Create("sessions", {}), Create("idx_sessions_user_id", {"sessions"})>>

File0003 ==
  <<AddColumn("phone", "users"), AddColumn("registration_device_id", "users"),
    Create("idx_users_phone_unique", {"users", "phone"}),
    Create("idx_users_registration_device_unique", {"users", "registration_device_id"})>>

File0008 ==
  <<AddColumn("display_name", "users"), AddColumn("profile_bio", "users"),
    AddColumn("avatar_path", "users"), AddColumn("avatar_updated_at_ms", "users")>>

File0020 == <<Create("device_pairings", {}), Create("idx_device_pairings_user", {"device_pairings"})>>

UserColumns == {"phone", "registration_device_id", "display_name", "profile_bio",
                "avatar_path", "avatar_updated_at_ms"}
UserIndexes == {"idx_users_phone_unique", "idx_users_registration_device_unique",
                "idx_users_login"}

(* users_new has the columns of users, in their order, from the start. *)
CreateCopy == Statement({}, {"users_new"}, {}, {"users_new"})
FillCopy == Statement({"users_new", "users"} \cup UserColumns, {"copy"}, {}, {"copy"})
DropUsers == Statement({"users"}, {}, {"users", "rows"} \cup UserColumns \cup UserIndexes, {})
RenameCopy == Statement({"users_new"}, {"users"}, {"users_new", "copy"},
                        {"users", "rows"} \cup UserColumns)

(* Mutant: users is dropped before it is copied. *)
File0021Hasty ==
  <<CreateCopy, DropUsers, FillCopy, RenameCopy, Create("idx_users_login", {"users"})>>
File0021 ==
  <<CreateCopy, FillCopy, DropUsers, RenameCopy, Create("idx_users_login", {"users"})>>

Files == <<File0001, File0003, File0008, File0020, File0021>>
=============================================================================
