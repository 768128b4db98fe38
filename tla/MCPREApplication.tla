--------------------------- MODULE MCPREApplication ---------------------------
(* Instances of PREApplication for TLC. *)
EXTENDS PREApplication, TLC

CONSTANTS a1, a2, a3

MCAddresses == {a1, a2, a3}
MCContracts == {a3}
MCSymmetry == Permutations({a1, a2})
=============================================================================
