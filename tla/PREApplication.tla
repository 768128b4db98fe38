---------------------------- MODULE PREApplication ----------------------------
(***************************************************************************)
(* The contract SimplePREApplication.sol: staking providers bond an        *)
(* operator, the operator confirms its address.  A transaction is one      *)
(* atomic step; one that a require() rejects changes nothing and is no     *)
(* step.  The T staking contract is external: it gives each provider a     *)
(* stake that may go up and down, and an owner set when it first stakes.   *)
(***************************************************************************)
EXTENDS Naturals, Sequences, FiniteSets

CONSTANTS Addresses,           \* accounts and contracts
          Contracts,           \* the addresses that are contracts
          Zero,                \* address(0)
          Owners,              \* the accounts that own stakes
          MinAuthorization,
          MinOperatorSeconds,
          MaxStake,            \* bound: stake of a provider
          MaxTime              \* bound: block timestamps

ASSUME AddressAssumption == /\ Zero \notin Addresses
                            /\ Contracts \subseteq Addresses /\ Owners \subseteq Addresses
ASSUME MinAuthorizationAssumption == MinAuthorization \in Nat \ {0}
ASSUME MinOperatorSecondsAssumption == MinOperatorSeconds \in Nat
ASSUME MaxStakeAssumption == MaxStake \in Nat
ASSUME MaxTimeAssumption == MaxTime \in Nat

VARIABLES stake,               \* tStaking.stakes, the three kinds added up
          owner,               \* tStaking.rolesOf: Zero for what never staked
          stakingProviderInfo,
          stakingProviders,
          _stakingProviderFromOperator,
          now                  \* block.timestamp

staking == <<stake, owner>>
app  == <<stakingProviderInfo, stakingProviders, _stakingProviderFromOperator>>
preVars == <<staking, app, now>>

AnyAddress == Addresses \cup {Zero}

NoInfo == [operator |-> Zero, operatorConfirmed |-> FALSE,
           operatorStartTimestamp |-> 0]

PREInit ==
    /\ stake = [a \in AnyAddress |-> 0]
    /\ owner = [a \in AnyAddress |-> Zero]
    /\ stakingProviderInfo = [a \in AnyAddress |-> NoInfo]
    /\ stakingProviders = <<>>
    /\ _stakingProviderFromOperator = [a \in AnyAddress |-> Zero]
    /\ now = 1

-----------------------------------------------------------------------------
(* The T staking contract and the clock. *)

\* a first stakes: the owner (and the beneficiary, which is never Zero) are set.
Stake(a, o, n) ==
    /\ owner[a] = Zero
    /\ owner' = [owner EXCEPT ![a] = o]
    /\ stake' = [stake EXCEPT ![a] = n]
    /\ UNCHANGED <<app, now>>

\* Top-up, unstaking or slashing.
ChangeStake(a, n) ==
    /\ owner[a] # Zero
    /\ n # stake[a]
    /\ stake' = [stake EXCEPT ![a] = n]
    /\ UNCHANGED <<owner, app, now>>

Tick ==
    /\ now < MaxTime
    /\ now' = now + 1
    /\ UNCHANGED <<staking, app>>

-----------------------------------------------------------------------------
(* The contract. *)

isAuthorized(p) == stake[p] >= MinAuthorization

\* getBeneficiary(a) == address(0)
NoBeneficiary(a) == owner[a] = Zero

onlyOwnerOrStakingProvider(sender, p) ==
    /\ isAuthorized(p)
    /\ p # sender => owner[p] = sender

\* Mutant: the old relation operator -> provider is kept.
MRelease(p) == _stakingProviderFromOperator

\* The relation without p's present operator, if it has one.
Release(p) ==
    LET old == stakingProviderInfo[p].operator
    IN IF old = Zero THEN _stakingProviderFromOperator
       ELSE [_stakingProviderFromOperator EXCEPT ![old] = Zero]

\* Mutants: bonding keeps the confirmation; the minimum time is not enforced; the
\* provider is listed whenever it has no operator.
MNewInfo(p, o) ==
    [stakingProviderInfo[p] EXCEPT !.operator = o, !.operatorStartTimestamp = now]
MMayReplace(p) == TRUE
MListed(p) == IF stakingProviderInfo[p].operator = Zero
              THEN Append(stakingProviders, p) ELSE stakingProviders

NewInfo(p, o) == [operator |-> o, operatorConfirmed |-> FALSE,
                  operatorStartTimestamp |-> now]

MayReplace(p) ==
    stakingProviderInfo[p].operator # Zero =>
        now >= stakingProviderInfo[p].operatorStartTimestamp + MinOperatorSeconds

Listed(p) == IF stakingProviderInfo[p].operatorStartTimestamp = 0
             THEN Append(stakingProviders, p) ELSE stakingProviders

\* The operator o (or Zero, to unbond) replaces p's operator.
bondOperator(sender, p, o) ==
    /\ onlyOwnerOrStakingProvider(sender, p)
    /\ o # stakingProviderInfo[p].operator
    /\ MayReplace(p)
    /\ o # Zero => /\ Release(p)[o] = Zero
                   /\ o = p \/ NoBeneficiary(o)
    /\ _stakingProviderFromOperator' =
           IF o = Zero THEN Release(p) ELSE [Release(p) EXCEPT ![o] = p]
    /\ stakingProviders' = Listed(p)
    /\ stakingProviderInfo' = [stakingProviderInfo EXCEPT ![p] = NewInfo(p, o)]
    /\ UNCHANGED <<staking, now>>

\* msg.sender == tx.origin: the sender is no contract.
confirmOperatorAddress(sender) ==
    LET p == _stakingProviderFromOperator[sender]
    IN /\ isAuthorized(p)
       /\ ~stakingProviderInfo[p].operatorConfirmed
       /\ sender \notin Contracts
       /\ stakingProviderInfo' = [stakingProviderInfo EXCEPT ![p].operatorConfirmed = TRUE]
       /\ UNCHANGED <<staking, stakingProviders, _stakingProviderFromOperator, now>>

isOperatorConfirmed(o) ==
    stakingProviderInfo[_stakingProviderFromOperator[o]].operatorConfirmed

\* What getActiveStakingProviders keeps.
Active(p) == isAuthorized(p) /\ stakingProviderInfo[p].operatorConfirmed

PRENext ==
    \/ \E a \in Addresses, o \in Owners, n \in 0..MaxStake : Stake(a, o, n)
    \/ \E a \in Addresses, n \in 0..MaxStake : ChangeStake(a, n)
    \/ Tick
    \/ \E sender \in Addresses, p, o \in AnyAddress : bondOperator(sender, p, o)
    \/ \E sender \in Addresses : confirmOperatorAddress(sender)

PRESpec == PREInit /\ [][PRENext]_preVars

-----------------------------------------------------------------------------
(* Type correctness. *)

StakingProviderInfo == [operator : AnyAddress, operatorConfirmed : BOOLEAN,
                        operatorStartTimestamp : Nat]

\* Every variable has its Solidity type; address(0) never has a stake.
PRETypeOK ==
    /\ stake \in [AnyAddress -> Nat] /\ stake[Zero] = 0
    /\ owner \in [AnyAddress -> AnyAddress]
    /\ stakingProviderInfo \in [AnyAddress -> StakingProviderInfo]
    /\ stakingProviders \in Seq(Addresses)
    /\ _stakingProviderFromOperator \in [AnyAddress -> AnyAddress]
    /\ now \in Nat \ {0}

(* Safety. *)

\* The two mappings are inverse to each other through every sequence of bonding,
\* replacing and unbonding: an operator serves one provider, the one that names
\* it, and no stale relation survives a replacement (line 189).
OperatorsMatch ==
    \A p \in AnyAddress, o \in Addresses :
        stakingProviderInfo[p].operator = o <=> p # Zero /\ _stakingProviderFromOperator[o] = p

\* A provider that ever bonded is listed exactly once, unbonded or not, so that
\* paging over the array counts no stake twice.
ListedOnce ==
    /\ \A i, j \in DOMAIN stakingProviders :
          stakingProviders[i] = stakingProviders[j] => i = j
    /\ \A p \in AnyAddress :
          stakingProviderInfo[p].operatorStartTimestamp # 0
              <=> \E i \in DOMAIN stakingProviders : stakingProviders[i] = p

\* isOperatorConfirmed(o) says so only of an operator that is bonded now, which is
\* what the work tracker of a node relies on to stop confirming.
ConfirmedIsBonded ==
    /\ \A o \in AnyAddress : isOperatorConfirmed(o) =>
          /\ _stakingProviderFromOperator[o] # Zero
          /\ stakingProviderInfo[_stakingProviderFromOperator[o]].operator = o
          /\ o \notin Contracts
    /\ \A p \in AnyAddress :
          stakingProviderInfo[p].operatorConfirmed => stakingProviderInfo[p].operator # Zero

\* A provider's operator serves its minimum time: no step replaces or unbonds it,
\* or takes its confirmation back, less than minOperatorSeconds after the bonding,
\* whoever owns the stake by then and whatever happens to the stake.
OperatorTenure ==
    [][\A p \in Addresses :
          LET i == stakingProviderInfo[p]
              j == stakingProviderInfo'[p]
          IN  i.operator # Zero /\ j \notin {i, [i EXCEPT !.operatorConfirmed = TRUE]}
                  => /\ now >= i.operatorStartTimestamp + MinOperatorSeconds
                     /\ j.operator # i.operator
                     /\ ~j.operatorConfirmed]_preVars
=============================================================================
