----------------------------- MODULE MCWorkTracker -----------------------------
(* An instance of WorkTracker for TLC. *)
EXTENDS WorkTracker
=============================================================================
