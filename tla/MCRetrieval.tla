------------------------------ MODULE MCRetrieval ------------------------------
(* An instance of Retrieval for TLC. *)
EXTENDS Retrieval

CONSTANTS u1, u2, u3, c1, c2

MCUrsulas == {u1, u2, u3}
MCCapsules == {c1, c2}
=============================================================================
