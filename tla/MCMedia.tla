--------------------------------- MODULE MCMedia --------------------------------
(***************************************************************************)
(* One administrator and one account that comes and goes, the common chat  *)
(* and a ticket, and two names for files.                                  *)
(***************************************************************************)
EXTENDS Media

CONSTANTS root, ann, all, t1, f1, f2
=============================================================================
