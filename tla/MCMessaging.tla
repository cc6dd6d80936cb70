----------------------------- MODULE MCMessaging -----------------------------
(***************************************************************************)
(* Messaging for TLC.  Replicas of a process are interchangeable in the    *)
(* safety runs; the liveness run declares no symmetry.                     *)
(***************************************************************************)
EXTENDS Messaging, TLC

Replicas == Permutations(Workers) \cup Permutations(Publishers)
=============================================================================
