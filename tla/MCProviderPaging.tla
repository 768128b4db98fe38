--------------------------- MODULE MCProviderPaging ---------------------------
(* An instance of ProviderPaging for TLC. *)
EXTENDS ProviderPaging

CONSTANTS a1, a2, a3

MCAddresses == {a1, a2, a3}
MCOwners == {a1}
MCPageSizes == {0, 2, 8}
=============================================================================
