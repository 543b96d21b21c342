----------------------------- MODULE MCSyncQueue -----------------------------
(***************************************************************************)
(* Three keys and two contents, one per node: a plain one, and one whose   *)
(* payload asks for a manual decision.                                     *)
(***************************************************************************)
EXTENDS SyncQueue, TLC

CONSTANTS n1, n2, k1, k2, k3, plain, marked

MCTargetOf == [c \in Contents |-> IF c = marked THEN n2 ELSE n1]
MCNoteOf == [c \in Contents |-> "none"]
=============================================================================
