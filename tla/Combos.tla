--------------------------------- MODULE Combos ---------------------------------
(***************************************************************************)
(* Device combos: the table device_combo_hashes as DeviceComboService      *)
(* changes it, one row for an account and a device.  Every request is one  *)
(* transaction and one step; requests that are refused change nothing.     *)
(***************************************************************************)
EXTENDS People

CONSTANTS
  Devices,
  LockAfter,   \* failures that lock a combo: 5
  MaxFailures  \* bound on the failures in a row

ASSUME CombosConstants ==
  /\ LockAfter \in Nat \ {0} /\ MaxFailures \in Nat /\ LockAfter < MaxFailures

VARIABLE combo  \* by account and device

Pairs == Users \X Devices

(* combo_hash: no row, a hash, or the empty string that reset_combo        *)
(* stores; locked_until_ms: NULL, in the future or in the past.            *)
ComboRows ==
  [hash : {"none", "set", "empty"}, failures : 0..MaxFailures,
   lock : {"null", "running", "over"}]
NoCombo == [hash |-> "none", failures |-> 0, lock |-> "null"]

CombosInit == combo = [p \in Pairs |-> NoCombo]

-----------------------------------------------------------------------------
(* _require_registered_active_user *)
MayUseCombos(u) == Active(u) /\ role[u] # "guest"

(* set_combo inserts the row, or replaces the hash and forgets failures. *)
SetCombo(u, d) ==
  /\ MayUseCombos(u)
  /\ combo' = [combo EXCEPT ![<<u, d>>] = [hash |-> "set", failures |-> 0, lock |-> "null"]]
(* reset_combo keeps the row, if there is one. *)
ResetCombo(u, d) ==
  /\ MayUseCombos(u) /\ combo[u, d].hash # "none"
  /\ combo' = [combo EXCEPT ![<<u, d>>] = [hash |-> "empty", failures |-> 0, lock |-> "null"]]

(* verify_combo: refused while locked.  The right combo clears the row's   *)
(* failures, a wrong one adds to them, and from the fifth on each starts a *)
(* lock of its own.  Mutant: only the fifth does.                          *)
LockedOnce(failures) == IF failures = LockAfter THEN "running" ELSE "null"
Locked(failures) == IF failures >= LockAfter THEN "running" ELSE "null"
VerifyCombo(u, d, right) ==
  /\ MayUseCombos(u)
  /\ combo[u, d].hash = "set" /\ combo[u, d].lock # "running"
  /\ IF right
     THEN combo' = [combo EXCEPT ![<<u, d>>] = [hash |-> "set", failures |-> 0, lock |-> "null"]]
     ELSE LET failures == combo[u, d].failures + 1 IN
          /\ failures <= MaxFailures
          /\ combo' = [combo EXCEPT ![<<u, d>>] =
               [hash |-> "set", failures |-> failures, lock |-> Locked(failures)]]

(* _resolve_device_user_id lets accounts with a session for devices through. *)
DeviceSession(u) == Active(u)
SetRoute(u, d) == DeviceSession(u) /\ SetCombo(u, d)
VerifyRoute(u, d) == DeviceSession(u) /\ \E right \in BOOLEAN : VerifyCombo(u, d, right)
ResetRoute(u, d) == DeviceSession(u) /\ ResetCombo(u, d)

(* Locks run out by the wall clock, which may be set back as well. *)
ClockMoves(p) ==
  /\ combo[p].lock # "null"
  /\ combo' = [combo EXCEPT ![p].lock = IF @ = "running" THEN "over" ELSE "running"]

ComboStep ==
  /\ \/ \E u \in Users, d \in Devices : SetRoute(u, d) \/ VerifyRoute(u, d) \/ ResetRoute(u, d)
     \/ \E p \in Pairs : ClockMoves(p)
  /\ UNCHANGED people

(* ON DELETE CASCADE *)
CombosLose(u) ==
  combo' = [p \in Pairs |-> IF p[1] = u THEN NoCombo ELSE combo[p]]

-----------------------------------------------------------------------------
(* The types of the table; an account that is gone has no rows. *)
CombosOK ==
  /\ combo \in [Pairs -> ComboRows]
  /\ \A p \in Pairs : combo[p].hash # "none" => Exists(p[1])

(* However new combos, resets, right and wrong ones, locks, a clock that   *)
(* is set back and deletions follow each other, a combo takes no more than *)
(* five wrong guesses between two renewals without a lock that runs out    *)
(* before each further one (verify_combo).                                 *)
Left(r) ==
  IF r.failures < LockAfter THEN LockAfter - r.failures
  ELSE IF r.lock = "running" THEN 0 ELSE 1

R == INSTANCE Ration WITH
  Combos <- Pairs, Burst <- LockAfter,
  left <- [p \in Pairs |-> Left(combo[p])],
  tried <- [p \in Pairs |-> combo[p].failures]
=============================================================================
