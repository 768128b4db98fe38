---------------------------- MODULE ProviderPaging ----------------------------
(***************************************************************************)
(* PREApplicationAgent.get_staking_provider_reservoir (agents.py): a       *)
(* client reads the active staking providers page by page, halving the     *)
(* page after a timeout, while transactions change the contract between    *)
(* its calls.                                                              *)
(***************************************************************************)
EXTENDS PREApplication, FiniteSetsExt, Functions

CONSTANTS PageSizes,   \* values of pagination_size
          MaxChanges   \* bound: transactions mined during the reading

ASSUME PageSizesAssumption == PageSizes \subseteq Nat

VARIABLES reader,      \* where the reading client is
          population,  \* num_providers, read once
          start,       \* start_index
          size,        \* pagination_size
          attempts,
          nTokens,     \* n_tokens
          found,       \* staking_providers: address -> authorized tokens
          changes,     \* transactions mined during the reading
          always,      \* history: providers active during the whole reading
          ever         \* history: providers active at some time during it

readVars == <<reader, population, start, size, attempts, nTokens, found>>
pagingVars == <<preVars, readVars, changes, always, ever>>

ActiveProviders == {p \in Addresses : Active(p)}

PagingInit ==
    /\ PREInit
    /\ reader = "idle" /\ population = 0 /\ start = 0 /\ size = 0 /\ attempts = 0
    /\ nTokens = 0 /\ found = <<>>
    /\ changes = 0 /\ always = {} /\ ever = {}

\* A transaction is mined before the reading or between two of its calls.
Transaction ==
    /\ reader \in {"idle", "page"}
    /\ reader = "page" => changes < MaxChanges
    /\ PRENext
    /\ changes' = IF reader = "page" THEN changes + 1 ELSE changes
    /\ always' = always \cap ActiveProviders'
    /\ ever' = ever \cup ActiveProviders'
    /\ UNCHANGED readVars

\* getActiveStakingProviders(i, n): the active ones among n providers from i on.
Page(i, n) ==
    LET end == IF n # 0 /\ i + n < Len(stakingProviders) THEN i + n
               ELSE Len(stakingProviders)
    IN {p \in {stakingProviders[k] : k \in (i + 1)..end} : Active(p)}

Tokens(S) == MapThenSumSet(LAMBDA p : stake[p], S)

\* The tokens and providers of a page are added to what was read before.
AddPage(S) ==
    /\ nTokens' = nTokens + Tokens(S)
    /\ found' = [p \in DOMAIN found \cup S |-> IF p \in S THEN stake[p] ELSE found[p]]

ReadPopulation(n) ==
    /\ reader = "idle"
    /\ n # 0
    /\ population' = Len(stakingProviders)
    /\ size' = n
    /\ reader' = "page"
    /\ always' = ActiveProviders /\ ever' = ActiveProviders
    /\ UNCHANGED <<preVars, start, attempts, nTokens, found, changes>>

\* pagination_size 0: one call for all, which the contract rejects if there are
\* no providers ("Wrong start index").
ReadAll ==
    /\ reader = "idle"
    /\ 0 \in PageSizes
    /\ IF stakingProviders = <<>> THEN reader' = "raised" /\ UNCHANGED <<nTokens, found>>
       ELSE reader' = "filter" /\ AddPage(Page(0, 0))
    /\ always' = ActiveProviders /\ ever' = ActiveProviders
    /\ UNCHANGED <<preVars, population, start, size, attempts, changes>>

\* The first call, for the population or for all providers, raises.
FirstCallFails ==
    /\ reader = "idle"
    /\ reader' = "raised"
    /\ UNCHANGED <<preVars, population, start, size, attempts, nTokens, found, always, ever, changes>>

\* Mutants: one page too many; the next page starts one too early; the page that
\* timed out is skipped; the page size starts again instead of giving up.
MMorePages == start <= population
MNextStart == start + size - 1
MAfterTimeout ==
    /\ reader' = "page"
    /\ start' = start + size
    /\ size' = size \div 2
MAfterTimeoutReset ==
    /\ size' = IF size = 1 THEN 2 ELSE size \div 2
    /\ UNCHANGED <<reader, start>>

\* Counted up to 3: the code only asks whether there were 3.
Attempt == attempts' = IF attempts < 3 THEN attempts + 1 ELSE attempts

MorePages == start < population

NextStart == start + size

ReadPage ==
    /\ reader = "page"
    /\ MorePages
    /\ Attempt
    /\ AddPage(Page(start, size))
    /\ start' = NextStart
    /\ UNCHANGED <<preVars, reader, population, size, always, ever, changes>>

\* Retried with half the page, unless there is nothing to halve or two calls were
\* made before, successful or not.
AfterTimeout ==
    /\ reader' = IF size = 1 \/ attempts' >= 3 THEN "raised" ELSE "page"
    /\ size' = IF reader' = "page" THEN size \div 2 ELSE size
    /\ UNCHANGED start

ReadTimeout ==
    /\ reader = "page"
    /\ MorePages
    /\ Attempt
    /\ AfterTimeout
    /\ UNCHANGED <<preVars, population, nTokens, found, always, ever, changes>>

\* Any other error of the call.
ReadError ==
    /\ reader = "page"
    /\ MorePages
    /\ Attempt
    /\ reader' = "raised"
    /\ UNCHANGED <<preVars, population, start, size, nTokens, found, always, ever, changes>>

ReadDone ==
    /\ reader = "page"
    /\ ~MorePages
    /\ reader' = "filter"
    /\ UNCHANGED <<preVars, population, start, size, attempts, nTokens, found, always, ever, changes>>

\* Mutant: the tokens of the nodes left out stay in the sum.
MLeftOut(without) == 0

LeftOut(without) == SumFunctionOnSet(found, without \cap DOMAIN found)

\* The addresses in without are taken out again.
Filter(without) ==
    /\ reader = "filter"
    /\ found' = Restrict(found, DOMAIN found \ without)
    /\ nTokens' = nTokens - LeftOut(without)
    /\ always' = always \ without
    /\ reader' = IF nTokens' = 0 THEN "NotEnoughStakingProviders" ELSE "reservoir"
    /\ UNCHANGED <<preVars, population, start, size, attempts, ever, changes>>

Read == \/ \E n \in PageSizes : ReadPopulation(n)
        \/ ReadAll \/ FirstCallFails \/ ReadPage \/ ReadTimeout \/ ReadError \/ ReadDone
        \/ \E without \in SUBSET Addresses : Filter(without)

PagingNext == Transaction \/ Read

PagingSpec == PagingInit /\ [][PagingNext]_pagingVars

\* The client goes on reading; no transaction need ever be mined.
PagingFairSpec == PagingSpec /\ WF_pagingVars(Read)

-----------------------------------------------------------------------------
\* Every variable has its type.
PagingTypeOK ==
    /\ PRETypeOK
    /\ reader \in {"idle", "page", "filter", "reservoir", "raised",
                   "NotEnoughStakingProviders"}
    /\ {population, start, size, attempts, nTokens} \subseteq Nat
    /\ DOMAIN found \subseteq Addresses
    /\ changes \in 0..MaxChanges
    /\ reader = "page" => size > 0

\* n_tokens is the sum of what was found, although the stakes change between the
\* pages and the page size may: no provider is on two pages.
TokensMatch == nTokens = SumFunction(found)

\* The reservoir holds every provider that was active all the time, and none that
\* was not active at any time, of the reading.
ReservoirComplete ==
    reader \in {"reservoir", "NotEnoughStakingProviders"} =>
        always \subseteq DOMAIN found /\ DOMAIN found \subseteq ever

\* getActiveStakingProviders never rejects a page of the loop ("Wrong start
\* index"), and no page is empty: the population read first never shrinks.
PagesExist ==
    [][<<start, attempts>>' # <<start, attempts>> => start < Len(stakingProviders)]_pagingVars

\* The loop ends, with a reservoir or an exception, however many calls time out.
ReadingEnds ==
    reader = "page" ~> reader \in {"reservoir", "raised", "NotEnoughStakingProviders"}
=============================================================================
