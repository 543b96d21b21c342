--------------------------------- MODULE Ration ---------------------------------
(***************************************************************************)
(* What the failure counter and the lock of a device combo promise: a      *)
(* burst of guesses after every renewal, and one more for every wait.      *)
(***************************************************************************)
EXTENDS Naturals

CONSTANTS
  Combos,  \* what is guessed
  Burst    \* guesses that need no waiting, one at least

VARIABLES
  left,  \* guesses left without waiting
  tried  \* wrong guesses since the last renewal

Init ==
  /\ left = [c \in Combos |-> Burst]
  /\ tried = [c \in Combos |-> 0]

Guess(c) ==
  /\ left[c] > 0
  /\ left' = [left EXCEPT ![c] = @ - 1]
  /\ tried' = [tried EXCEPT ![c] = @ + 1]

(* Waiting earns one guess, and a clock that is set back takes it again. *)
Wait(c) ==
  /\ left[c] = 0
  /\ left' = [left EXCEPT ![c] = 1]
  /\ UNCHANGED tried
Delay(c) ==
  /\ left[c] = 1 /\ tried[c] >= Burst
  /\ left' = [left EXCEPT ![c] = 0]
  /\ UNCHANGED tried

(* A new combo, a reset, the right combo, or the account's deletion. *)
Renew(S) ==
  /\ left' = [c \in Combos |-> IF c \in S THEN Burst ELSE left[c]]
  /\ tried' = [c \in Combos |-> IF c \in S THEN 0 ELSE tried[c]]

Next ==
  \/ \E c \in Combos : Guess(c) \/ Wait(c) \/ Delay(c)
  \/ \E S \in SUBSET Combos : Renew(S)

Spec == Init /\ [][Next]_<<left, tried>>
=============================================================================
