-------------------------------- MODULE MCRooms --------------------------------
(***************************************************************************)
(* One administrator and two accounts that come and go, over the room      *)
(* every installation starts with and the next two ids.                    *)
(***************************************************************************)
EXTENDS Rooms, TLC

CONSTANTS root, ann, bob

Interchangeable == Permutations(Users \ Admins)
=============================================================================
