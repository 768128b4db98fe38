------------------------------ MODULE MCSampling ------------------------------
(* An instance of Sampling for TLC. *)
EXTENDS Sampling

CONSTANTS h1, n1, n2, alice

MCValues == {h1, n1, n2}
MCHandpicked == <<h1>>
MCProviders == {h1, n1, n2}
MCClients == {alice}
=============================================================================
