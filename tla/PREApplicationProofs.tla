------------------------- MODULE PREApplicationProofs -------------------------
(***************************************************************************)
(* Proofs of the safety properties of PREApplication, for any addresses,   *)
(* minimum authorization and minimum operator time.                        *)
(***************************************************************************)
EXTENDS PREApplication, SequenceTheorems, TLAPS

\* The strengthening: the relation never leads from address(0), and what is
\* confirmed is a bonded account.
PREInv ==
    /\ PRETypeOK
    /\ OperatorsMatch
    /\ ListedOnce
    /\ _stakingProviderFromOperator[Zero] = Zero
    /\ \A p \in AnyAddress : stakingProviderInfo[p].operatorConfirmed =>
          stakingProviderInfo[p].operator \in Addresses \ Contracts

\* Only an address with a stake passes isAuthorized, so never address(0).
LEMMA AuthorizedIsAddress ==
    ASSUME PRETypeOK, NEW p \in AnyAddress, isAuthorized(p)
    PROVE  p \in Addresses
BY MinAuthorizationAssumption DEF PRETypeOK, isAuthorized, AnyAddress

\* The invariant gives the property about confirmed operators.
LEMMA InvGivesConfirmed == PREInv => ConfirmedIsBonded
<1> SUFFICES ASSUME PREInv PROVE ConfirmedIsBonded
  OBVIOUS
<1>1. ASSUME NEW o \in AnyAddress, isOperatorConfirmed(o)
      PROVE  /\ _stakingProviderFromOperator[o] # Zero
             /\ stakingProviderInfo[_stakingProviderFromOperator[o]].operator = o
             /\ o \notin Contracts
  <2> DEFINE p == _stakingProviderFromOperator[o]
  <2>1. p \in AnyAddress
    BY DEF PREInv, PRETypeOK
  <2>2. stakingProviderInfo[p].operator \in Addresses \ Contracts
    BY <1>1, <2>1 DEF PREInv, isOperatorConfirmed
  <2>3. p # Zero
    BY <2>1, <2>2 DEF PREInv, OperatorsMatch
  <2>4. o \in Addresses
    BY <2>3 DEF PREInv, AnyAddress
  <2>5. stakingProviderInfo[p].operator = o
    BY <2>1, <2>3, <2>4 DEF PREInv, OperatorsMatch
  <2> QED
    BY <2>2, <2>3, <2>5
<1>2. \A p \in AnyAddress :
         stakingProviderInfo[p].operatorConfirmed => stakingProviderInfo[p].operator # Zero
  BY AddressAssumption DEF PREInv
<1> QED
  BY <1>1, <1>2 DEF ConfirmedIsBonded

LEMMA PREInitInv == PREInit => PREInv
<1> SUFFICES ASSUME PREInit PROVE PREInv
  OBVIOUS
<1>1. stakingProviders \in Seq(Addresses) /\ DOMAIN stakingProviders = {}
  BY EmptySeq DEF PREInit
<1>2. NoInfo \in StakingProviderInfo
  BY DEF NoInfo, StakingProviderInfo, AnyAddress
<1>3. PRETypeOK
  BY <1>1, <1>2 DEF PREInit, PRETypeOK, AnyAddress
<1>4. OperatorsMatch
  BY AddressAssumption DEF PREInit, OperatorsMatch, NoInfo, AnyAddress
<1>5. ListedOnce
  BY <1>1 DEF PREInit, ListedOnce, NoInfo
<1> QED
  BY <1>3, <1>4, <1>5 DEF PREInv, PREInit, NoInfo, AnyAddress

\* Bonding: the new relation is the old one with p's old operator taken out and
\* the new one put in.
LEMMA BondInv ==
    ASSUME PREInv, NEW sender \in Addresses, NEW p \in AnyAddress, NEW o \in AnyAddress,
           bondOperator(sender, p, o)
    PROVE  PREInv'
<1> DEFINE old == stakingProviderInfo[p].operator
<1>1. p \in Addresses
  BY AuthorizedIsAddress DEF bondOperator, onlyOwnerOrStakingProvider, PREInv
<1>2. /\ old \in AnyAddress /\ o # old
      /\ old # Zero => old \in Addresses /\ _stakingProviderFromOperator[old] = p
  BY DEF bondOperator, PREInv, PRETypeOK, StakingProviderInfo, AnyAddress, OperatorsMatch
<1>3. NewInfo(p, o) \in StakingProviderInfo
      /\ NewInfo(p, o).operator = o /\ NewInfo(p, o).operatorConfirmed = FALSE
      /\ NewInfo(p, o).operatorStartTimestamp # 0
  BY DEF NewInfo, StakingProviderInfo, PREInv, PRETypeOK
<1>4. /\ stakingProviderInfo' \in [AnyAddress -> StakingProviderInfo]
      /\ stakingProviderInfo'[p] = NewInfo(p, o)
      /\ \A q \in AnyAddress : q # p => stakingProviderInfo'[q] = stakingProviderInfo[q]
  BY <1>3 DEF bondOperator, PREInv, PRETypeOK
<1>5. /\ Release(p) \in [AnyAddress -> AnyAddress]
      /\ \A q \in AnyAddress :
            Release(p)[q] = IF q = old THEN Zero ELSE _stakingProviderFromOperator[q]
  BY <1>2 DEF Release, PREInv, PRETypeOK, AnyAddress
<1>6. /\ _stakingProviderFromOperator' \in [AnyAddress -> AnyAddress]
      /\ o = Zero => _stakingProviderFromOperator' = Release(p)
      /\ o # Zero => /\ _stakingProviderFromOperator'[o] = p
                     /\ _stakingProviderFromOperator[o] = Zero
                     /\ \A q \in AnyAddress : q # o =>
                           _stakingProviderFromOperator'[q] = Release(p)[q]
  BY <1>2, <1>5 DEF bondOperator
<1>7. stakingProviders' \in Seq(Addresses) /\ ListedOnce'
  <2>1. CASE stakingProviderInfo[p].operatorStartTimestamp = 0
    <3>1. stakingProviders' = Append(stakingProviders, p)
      BY <2>1 DEF bondOperator, Listed
    <3>2. /\ stakingProviders' \in Seq(Addresses)
          /\ Len(stakingProviders) \in Nat
          /\ DOMAIN stakingProviders = 1..Len(stakingProviders)
          /\ DOMAIN stakingProviders' = 1..(Len(stakingProviders) + 1)
          /\ \A i \in DOMAIN stakingProviders : stakingProviders'[i] = stakingProviders[i]
          /\ stakingProviders'[Len(stakingProviders) + 1] = p
      BY <1>1, <3>1, AppendProperties, LenProperties DEF PREInv, PRETypeOK
    <3>3. \A i \in DOMAIN stakingProviders : stakingProviders[i] # p
      BY <2>1 DEF PREInv, ListedOnce
    <3>4. \A i, j \in DOMAIN stakingProviders' :
             stakingProviders'[i] = stakingProviders'[j] => i = j
      BY <3>2, <3>3 DEF PREInv, ListedOnce
    <3>5. ASSUME NEW q \in AnyAddress
          PROVE  stakingProviderInfo'[q].operatorStartTimestamp # 0
                     <=> \E i \in DOMAIN stakingProviders' : stakingProviders'[i] = q
      <4>1. CASE q = p
        BY <1>3, <1>4, <3>2, <4>1
      <4>2. CASE q # p
        <5>1. stakingProviderInfo[q].operatorStartTimestamp # 0
                  <=> \E i \in DOMAIN stakingProviders : stakingProviders[i] = q
          BY DEF PREInv, ListedOnce
        <5>2. (\E i \in DOMAIN stakingProviders : stakingProviders[i] = q)
                  <=> (\E i \in DOMAIN stakingProviders' : stakingProviders'[i] = q)
          BY <3>2, <4>2
        <5> QED
          BY <1>4, <4>2, <5>1, <5>2
      <4> QED
        BY <4>1, <4>2
    <3> QED
      BY <3>2, <3>4, <3>5 DEF ListedOnce
  <2>2. CASE stakingProviderInfo[p].operatorStartTimestamp # 0
    <3>1. stakingProviders' = stakingProviders
      BY <2>2 DEF bondOperator, Listed
    <3> QED
      BY <1>3, <1>4, <2>2, <3>1 DEF PREInv, ListedOnce, PRETypeOK
  <2> QED
    BY <2>1, <2>2
<1>8. PRETypeOK'
  BY <1>4, <1>6, <1>7 DEF PRETypeOK, PREInv, bondOperator, staking
<1>9. OperatorsMatch'
  <2> SUFFICES ASSUME NEW q \in AnyAddress, NEW r \in Addresses
               PROVE  stakingProviderInfo'[q].operator = r
                          <=> q # Zero /\ _stakingProviderFromOperator'[r] = q
    BY DEF OperatorsMatch
  <2>0. r \in AnyAddress /\ r # Zero
    BY AddressAssumption DEF AnyAddress
  <2>1. stakingProviderInfo[q].operator = r <=> q # Zero /\ _stakingProviderFromOperator[r] = q
    BY DEF PREInv, OperatorsMatch
  <2>2. CASE r = o
    BY <1>1, <1>3, <1>4, <1>6, <2>0, <2>1, <2>2, AddressAssumption
  <2>3. CASE r # o /\ r = old
    BY <1>2, <1>3, <1>4, <1>5, <1>6, <2>0, <2>1, <2>3
  <2>4. CASE r # o /\ r # old
    BY <1>3, <1>4, <1>5, <1>6, <2>0, <2>1, <2>4
  <2> QED
    BY <2>2, <2>3, <2>4
<1>10. _stakingProviderFromOperator'[Zero] = Zero
  BY <1>5, <1>6 DEF PREInv, AnyAddress
<1>11. \A q \in AnyAddress : stakingProviderInfo'[q].operatorConfirmed =>
          stakingProviderInfo'[q].operator \in Addresses \ Contracts
  BY <1>3, <1>4 DEF PREInv
<1> QED
  BY <1>7, <1>8, <1>9, <1>10, <1>11 DEF PREInv

\* Confirming: the sender is the operator of the provider it confirms.
LEMMA ConfirmInv ==
    ASSUME PREInv, NEW sender \in Addresses, confirmOperatorAddress(sender)
    PROVE  PREInv'
<1> DEFINE p == _stakingProviderFromOperator[sender]
<1>1. p \in AnyAddress
  BY DEF PREInv, PRETypeOK, AnyAddress
<1>2. p \in Addresses /\ p # Zero
  BY <1>1, AuthorizedIsAddress, AddressAssumption DEF PREInv, confirmOperatorAddress
<1>3. stakingProviderInfo[p].operator = sender /\ sender \notin Contracts
  BY <1>1, <1>2 DEF PREInv, OperatorsMatch, confirmOperatorAddress
<1>4. stakingProviderInfo' = [stakingProviderInfo EXCEPT ![p].operatorConfirmed = TRUE]
      /\ UNCHANGED <<staking, stakingProviders, _stakingProviderFromOperator, now>>
  BY DEF confirmOperatorAddress
<1> HIDE DEF p
<1>5. /\ stakingProviderInfo' \in [AnyAddress -> StakingProviderInfo]
      /\ \A q \in AnyAddress :
            /\ stakingProviderInfo'[q].operator = stakingProviderInfo[q].operator
            /\ stakingProviderInfo'[q].operatorStartTimestamp
                   = stakingProviderInfo[q].operatorStartTimestamp
            /\ q # p => stakingProviderInfo'[q] = stakingProviderInfo[q]
  <2> DEFINE i == stakingProviderInfo[p]
             j == [i EXCEPT !.operatorConfirmed = TRUE]
  <2>1. i \in StakingProviderInfo /\ stakingProviderInfo \in [AnyAddress -> StakingProviderInfo]
    BY <1>1 DEF PREInv, PRETypeOK
  <2>2. /\ j \in StakingProviderInfo /\ j.operator = i.operator
        /\ j.operatorStartTimestamp = i.operatorStartTimestamp
    BY <2>1, Zenon DEF StakingProviderInfo
  <2>3. stakingProviderInfo' = [stakingProviderInfo EXCEPT ![p] = j]
    BY <1>4
  <2> HIDE DEF j
  <2> QED
    BY <1>1, <2>1, <2>2, <2>3
<1>6. PRETypeOK'
  BY <1>4, <1>5 DEF PREInv, PRETypeOK, staking
<1>7. OperatorsMatch' /\ ListedOnce' /\ _stakingProviderFromOperator'[Zero] = Zero
  BY <1>4, <1>5 DEF PREInv, OperatorsMatch, ListedOnce
<1>8. \A q \in AnyAddress : stakingProviderInfo'[q].operatorConfirmed =>
          stakingProviderInfo'[q].operator \in Addresses \ Contracts
  BY <1>3, <1>5 DEF PREInv
<1> QED
  BY <1>6, <1>7, <1>8 DEF PREInv

\* Every transaction preserves the invariant.
LEMMA PRENextInv == PREInv /\ [PRENext]_preVars => PREInv'
<1> SUFFICES ASSUME PREInv, [PRENext]_preVars PROVE PREInv'
  OBVIOUS
<1>1. ASSUME UNCHANGED app, PRETypeOK' PROVE PREInv'
  BY <1>1 DEF PREInv, OperatorsMatch, ListedOnce, app
<1>2. CASE UNCHANGED preVars
  <2>1. PRETypeOK'
    BY <1>2 DEF preVars, app, staking, PREInv, PRETypeOK
  <2> QED
    BY <1>1, <1>2, <2>1 DEF preVars
<1>3. ASSUME NEW a \in Addresses, NEW o \in Owners, NEW n \in 0..MaxStake, Stake(a, o, n)
      PROVE  PREInv'
  <2>1. PRETypeOK'
    BY <1>3, AddressAssumption, MaxStakeAssumption DEF Stake, app, PREInv, PRETypeOK, AnyAddress
  <2> QED
    BY <1>1, <1>3, <2>1 DEF Stake
<1>4. ASSUME NEW a \in Addresses, NEW n \in 0..MaxStake, ChangeStake(a, n)
      PROVE  PREInv'
  <2>1. PRETypeOK'
    BY <1>4, AddressAssumption, MaxStakeAssumption DEF ChangeStake, app, PREInv, PRETypeOK, AnyAddress
  <2> QED
    BY <1>1, <1>4, <2>1 DEF ChangeStake
<1>5. CASE Tick
  <2>1. PRETypeOK'
    BY <1>5 DEF Tick, app, staking, PREInv, PRETypeOK
  <2> QED
    BY <1>1, <1>5, <2>1 DEF Tick
<1> QED
  BY <1>2, <1>3, <1>4, <1>5, BondInv, ConfirmInv DEF PRENext

\* The invariant holds in every state of the contract.
THEOREM PREInvariant == PRESpec => []PREInv
BY PREInitInv, PRENextInv, PTL DEF PRESpec

\* Every reachable state is well typed.
THEOREM PRETypeCorrect == PRESpec => []PRETypeOK
<1>1. PREInv => PRETypeOK
  BY DEF PREInv
<1> QED
  BY <1>1, PREInvariant, PTL

\* stakingProviderInfo and _stakingProviderFromOperator stay inverse.
THEOREM OperatorsAlwaysMatch == PRESpec => []OperatorsMatch
<1>1. PREInv => OperatorsMatch
  BY DEF PREInv
<1> QED
  BY <1>1, PREInvariant, PTL

\* stakingProviders lists exactly once who ever bonded an operator.
THEOREM ProvidersListedOnce == PRESpec => []ListedOnce
<1>1. PREInv => ListedOnce
  BY DEF PREInv
<1> QED
  BY <1>1, PREInvariant, PTL

\* A confirmed operator is a real account that is bonded now.
THEOREM ConfirmedAlwaysBonded == PRESpec => []ConfirmedIsBonded
BY InvGivesConfirmed, PREInvariant, PTL

\* No transaction shortens an operator's minimum time.
THEOREM TenureKept == PRESpec => OperatorTenure
<1> DEFINE Kept(p) ==
      LET i == stakingProviderInfo[p]
          j == stakingProviderInfo'[p]
      IN  i.operator # Zero /\ j \notin {i, [i EXCEPT !.operatorConfirmed = TRUE]}
              => /\ now >= i.operatorStartTimestamp + MinOperatorSeconds
                 /\ j.operator # i.operator
                 /\ ~j.operatorConfirmed
<1>1. ASSUME PREInv, [PRENext]_preVars PROVE [\A p \in Addresses : Kept(p)]_preVars
  <2> SUFFICES ASSUME NEW q \in Addresses PROVE Kept(q)
    OBVIOUS
  <2>0. q \in AnyAddress /\ stakingProviderInfo \in [AnyAddress -> StakingProviderInfo]
    BY <1>1 DEF PREInv, PRETypeOK, AnyAddress
  <2>1. CASE UNCHANGED stakingProviderInfo
    BY <2>1
  <2>2. ASSUME NEW sender \in Addresses, NEW p \in AnyAddress, NEW o \in AnyAddress,
               bondOperator(sender, p, o)
        PROVE  Kept(q)
    <3>1. CASE q # p
      BY <2>0, <2>2, <3>1 DEF bondOperator
    <3>2. CASE q = p
      BY <2>0, <2>2, <3>2 DEF bondOperator, MayReplace, NewInfo
    <3> QED
      BY <3>1, <3>2
  <2>3. ASSUME NEW sender \in Addresses, confirmOperatorAddress(sender)
        PROVE  Kept(q)
    BY <2>0, <2>3, Zenon DEF confirmOperatorAddress
  <2> QED
    BY <1>1, <2>1, <2>2, <2>3 DEF PRENext, preVars, app, Stake, ChangeStake, Tick
<1> QED
  BY <1>1, PREInvariant, PTL DEF PRESpec, OperatorTenure
=============================================================================
