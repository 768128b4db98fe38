----------------------------- MODULE MCWorkerPool -----------------------------
(* Instances of WorkerPool for TLC. *)
EXTENDS WorkerPool, TLC

CONSTANTS v1, v2, v3, c1, c2

MCTwoValues == {v1, v2}
MCThreeValues == {v1, v2, v3}
MCOneClient == {c1}
MCTwoClients == {c1, c2}
MCSymmetry == Permutations(MCThreeValues) \cup Permutations({c1, c2})
=============================================================================
