-------------------------------- MODULE Outbox --------------------------------
(***************************************************************************)
(* What the queue of sync events promises its producers and its nodes: the *)
(* first content accepted under a key is the only one, and it is received  *)
(* at most once.  It does not promise that it is received at all.          *)
(***************************************************************************)
EXTENDS Sequences

CONSTANTS Keys, Contents, NoContent

VARIABLES
  held,   \* the content accepted under a key, or NoContent
  fate,   \* where the event with that key is
  got     \* the contents the node has received under it

vars == <<held, fate, got>>

Init ==
  /\ held = [k \in Keys |-> NoContent]
  /\ fate = [k \in Keys |-> "none"]
  /\ got = [k \in Keys |-> <<>>]

Accept(k, c) ==
  /\ fate[k] = "none"
  /\ held' = [held EXCEPT ![k] = c]
  /\ fate' = [fate EXCEPT ![k] = "waiting"]
  /\ UNCHANGED got

(* Events start on their way, and events are given up, at any time. *)
Dispatch(S, lost) ==
  /\ \A k \in S : fate[k] = "waiting"
  /\ \A k \in lost : fate[k] \in {"waiting", "flying"}
  /\ fate' = [k \in Keys |-> IF k \in S THEN "flying"
                             ELSE IF k \in lost THEN "lost" ELSE fate[k]]
  /\ UNCHANGED <<held, got>>

Receive(S) ==
  /\ \A k \in S : fate[k] = "flying"
  /\ fate' = [k \in Keys |-> IF k \in S THEN "received" ELSE fate[k]]
  /\ got' = [k \in Keys |-> IF k \in S THEN Append(got[k], held[k]) ELSE got[k]]
  /\ UNCHANGED held

Next ==
  \/ \E k \in Keys, c \in Contents : Accept(k, c)
  \/ \E S, lost \in SUBSET Keys : Dispatch(S, lost)
  \/ \E S \in SUBSET Keys : Receive(S)

Spec == Init /\ [][Next]_vars
=============================================================================
