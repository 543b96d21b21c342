------------------------------ MODULE MCRealtime ------------------------------
(***************************************************************************)
(* Instances of Realtime for TLC.  One user owns every task: the broker    *)
(* never compares users.  OneRoom puts every task in one chat, TwoRooms    *)
(* spreads them.                                                           *)
(***************************************************************************)
EXTENDS Realtime, TLC

CONSTANTS alice, general, side, s1, s2, s3, p1, p2

AllAlice == [t \in Tasks |-> alice]
OneRoom == [t \in Tasks |-> general]
TwoRooms == [t \in Tasks |-> IF t \in {s3, p2} THEN side ELSE general]

(* With OneRoom nothing tells s1 from s2. *)
SocketsAlike == Permutations({s1, s2})
=============================================================================
