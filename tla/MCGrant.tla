-------------------------------- MODULE MCGrant --------------------------------
(***************************************************************************)
(* Instances of SubscriptionManager and WeightedSampler for TLC, of which a *)
(* behaviour has one and the other rests.                                  *)
(***************************************************************************)
EXTENDS SubscriptionManager, WeightedSampler

CONSTANTS alice, carol, p1

VARIABLE part

MCAccounts == {alice, carol}
MCPolicyIds == {p1}
MCFeeRates == {1, 2}
MCSizes == {2}

GrantInit ==
    /\ part \in {"pay", "draw"}
    /\ SubInit /\ (part = "draw" => feeRate = 1)
    /\ (part = "pay" => weights = <<>>) /\ SamplerInit

GrantNext ==
    \/ part = "pay" /\ SubNext /\ UNCHANGED <<part, samplerVars>>
    \/ part = "draw" /\ SamplerNext /\ UNCHANGED <<part, subVars>>

GrantSpec == GrantInit /\ [][GrantNext]_<<part, subVars, samplerVars>>
=============================================================================
