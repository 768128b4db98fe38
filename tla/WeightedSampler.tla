---------------------------- MODULE WeightedSampler ----------------------------
(***************************************************************************)
(* WeightedSampler and StakingProvidersReservoir (blockchain/eth/          *)
(* agents.py): drawing staking providers at random, with probabilities     *)
(* proportional to their stakes and without repetition.  An element is     *)
(* its place in the list; the random position is any that randint() may    *)
(* return.                                                                 *)
(***************************************************************************)
EXTENDS Naturals, Sequences, FiniteSets

CONSTANTS MaxElements,  \* bound: providers
          MaxWeight     \* bound: stakes

ASSUME BoundsAssumption == MaxElements \in Nat /\ MaxWeight \in Nat

VARIABLES weights,   \* the argument of the constructor; a stake is never 0
          totals,
          length,    \* __length
          quantity,  \* of the call of sample_no_replacement() that runs, or 0
          samples,   \* elements it has drawn
          drawn      \* history: all draws of the object

samplerVars == <<weights, totals, length, quantity, samples, drawn>>

N == Len(weights)
Before(t, i) == IF i = 1 THEN 0 ELSE t[i - 1]

\* accumulate(weights)
Accumulated(t) == \A i \in DOMAIN weights : t[i] = Before(t, i) + weights[i]

SamplerInit ==
    /\ weights \in UNION {[1..n -> 1..MaxWeight] : n \in 0..MaxElements}
    /\ totals \in [DOMAIN weights -> 0..(MaxElements * MaxWeight)]
    /\ Accumulated(totals)
    /\ length = N
    /\ quantity = 0 /\ samples = 0 /\ drawn = <<>>

\* draw(quantity), draw_at_most(quantity): more than there are is refused, or cut.
Draw(n) ==
    /\ quantity = 0
    /\ n \in 1..length
    /\ quantity' = n
    /\ UNCHANGED <<weights, totals, length, samples, drawn>>

\* Mutant: bisect_left.
MBisectRight(p) == CHOOSE i \in 1..N : totals[i] >= p /\ \A j \in 1..(i - 1) : totals[j] < p

\* bisect_right(totals, p): the first place whose total is above p.
BisectRight(p) == CHOOSE i \in 1..N : totals[i] > p /\ \A j \in 1..(i - 1) : totals[j] <= p

\* Mutants: only the later totals are adjusted; only the one of the element is.
MAdjusted(i) == [j \in 1..N |-> IF j > i THEN totals[j] - (totals[i] - Before(totals, i))
                                ELSE totals[j]]
MAdjustedOne(i) == [totals EXCEPT ![i] = Before(totals, i)]

\* The totals with the weight of element i set to 0.
Adjusted(i) == [j \in 1..N |-> IF j >= i THEN totals[j] - (totals[i] - Before(totals, i))
                               ELSE totals[j]]

\* One iteration: position = rng.randint(0, self.totals[-1] - 1).
DrawOne(p) ==
    /\ samples < quantity
    /\ p < totals[N]
    /\ drawn' = Append(drawn, BisectRight(p))
    /\ totals' = Adjusted(BisectRight(p))
    /\ samples' = samples + 1
    /\ UNCHANGED <<weights, length, quantity>>

\* Mutant: the length is not reduced.
MReturn ==
    /\ quantity # 0 /\ samples = quantity
    /\ quantity' = 0 /\ samples' = 0
    /\ UNCHANGED <<weights, totals, length, drawn>>

Return ==
    /\ quantity # 0 /\ samples = quantity
    /\ length' = length - quantity
    /\ quantity' = 0 /\ samples' = 0
    /\ UNCHANGED <<weights, totals, drawn>>

SamplerNext ==
    \/ \E n \in 1..MaxElements : Draw(n)
    \/ \E p \in 0..(MaxElements * MaxWeight) : DrawOne(p)
    \/ Return

SamplerSpec == SamplerInit /\ [][SamplerNext]_samplerVars

-----------------------------------------------------------------------------
Drawn == {drawn[k] : k \in DOMAIN drawn}
Left == DOMAIN weights \ Drawn

\* Every variable has its type.
SamplerTypeOK ==
    /\ N <= MaxElements /\ weights \in [1..N -> 1..MaxWeight]
    /\ totals \in [1..N -> Nat]
    /\ length \in Nat /\ quantity \in Nat /\ samples \in 0..quantity
    /\ drawn \in Seq(1..N)

\* The totals are the running totals of the weights of what was not drawn, through
\* every adjustment of the loop.
TotalsAreOfTheRest ==
    \A i \in 1..N : totals[i] = Before(totals, i) + (IF i \in Drawn THEN 0 ELSE weights[i])

\* __len__() is the number of elements left, so that a draw that is let through
\* never calls randint() with nothing left (an empty range), within a call too.
LengthIsRight ==
    /\ length = N - (Len(drawn) - samples)
    /\ samples < quantity => totals[N] > 0

\* The docstring's "The probability of an element to appear is proportional to the
\* weight provided to the constructor": among the elements left, each is hit by as
\* many positions as its weight.
Proportional ==
    N > 0 => \A i \in 1..N :
        Cardinality({p \in 0..(totals[N] - 1) : p < totals[N] /\ BisectRight(p) = i})
            = IF i \in Left THEN weights[i] ELSE 0

\* "The elements will not repeat": the totals stay as a call left them, so that they
\* do not repeat in later calls either (MergedReservoir draws one element a call), and
\* drawing from them is drawing each element at most once.
Abstract == INSTANCE UniqueDraws WITH Elements <- 1..MaxElements, left <- Left, drawn <- drawn
DrawsUnique == Abstract!DrawsSpec

\* The docstring goes on: the weight is set to 0 in a way that "does not mutate the
\* object and only applies to the current invocation of the method".  After every
\* call the totals would be those of all the weights.
NotMutated == quantity = 0 => Accumulated(totals)
=============================================================================
