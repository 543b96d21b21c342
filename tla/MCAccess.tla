------------------------------- MODULE MCAccess -------------------------------
(***************************************************************************)
(* Two administrators from the database, and one account that comes and    *)
(* goes by registration, as a guest and by deletion.                       *)
(***************************************************************************)
EXTENDS Access, TLC

CONSTANTS root, deputy, ann, d1, t1, t2

Interchangeable == Permutations({root, deputy}) \cup Permutations(Tokens)
=============================================================================
