--------------------------------- MODULE MCDesk ---------------------------------
(***************************************************************************)
(* One administrator and one account that comes and goes, are promoted and *)
(* demoted, over two tickets with two messages, one application and one    *)
(* post.                                                                   *)
(***************************************************************************)
EXTENDS Desk

CONSTANTS root, ann
=============================================================================
