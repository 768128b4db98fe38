------------------------------ MODULE UniqueDraws ------------------------------
(***************************************************************************)
(* What a reservoir promises to the policy that samples it: elements are   *)
(* drawn one after the other, each at most once.                           *)
(***************************************************************************)
EXTENDS Naturals, Sequences

CONSTANT Elements

VARIABLES left,   \* the elements not drawn yet
          drawn   \* the draws, in order

DrawsInit == left \in SUBSET Elements /\ drawn = <<>>

DrawAny(e) ==
    /\ e \in left
    /\ left' = left \ {e}
    /\ drawn' = Append(drawn, e)

DrawsSpec == DrawsInit /\ [][\E e \in Elements : DrawAny(e)]_<<left, drawn>>
=============================================================================
