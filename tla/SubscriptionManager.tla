-------------------------- MODULE SubscriptionManager --------------------------
(***************************************************************************)
(* Paying for a policy: the contract SubscriptionManager.sol, and Alice    *)
(* who quotes a price (policy/payment.py, Alice.generate_policy_parameters *)
(* in characters/lawful.py), checks it again when the Policy object is     *)
(* made and pays after sampling the nodes, while others create policies,   *)
(* the fee changes and time passes.  Python's None and 0 are both 0: the   *)
(* code only asks whether a parameter is true.                             *)
(***************************************************************************)
EXTENDS Integers

CONSTANTS Accounts, Zero,  \* senders, address(0)
          Alice,           \* the account whose grant is followed
          PolicyIds,
          FeeRates,        \* per-second fees
          Sizes,           \* numbers of nodes
          MaxTime          \* bound: timestamps

ASSUME AccountsAssumption == Zero \notin Accounts /\ Alice \in Accounts
ASSUME NumbersAssumption ==
    FeeRates \subseteq Nat /\ Sizes \subseteq Nat \ {0} /\ MaxTime \in Nat

VARIABLES feeRate, policies,  \* the contract
          now,                \* block.timestamp, and the clock of the clients
          grant,              \* where Alice's grant() is
          quote,              \* its price, times, size and policy id
          paidRate            \* history: the fee when it was paid

chain == <<feeRate, policies>>
subVars == <<chain, now, grant, quote, paidRate>>

Times == 0..MaxTime
NoPolicy == [sponsor |-> Zero, startTimestamp |-> 0, endTimestamp |-> 0, size |-> 0,
             owner |-> Zero]
NoQuote == [id |-> {}, size |-> 0, commencement |-> 0, expiration |-> 0, value |-> 0,
            duration |-> 0]

SubInit ==
    /\ feeRate \in FeeRates
    /\ policies = [id \in PolicyIds |-> NoPolicy]
    /\ now = 1
    /\ grant = "idle" /\ quote = NoQuote /\ paidRate = 0

-----------------------------------------------------------------------------
(* The contract. *)

isPolicyActive(id) == policies[id].endTimestamp > now

\* Mutant: a policy may be replaced while it is active.
MNotReplaced(id) == TRUE

\* require(policy.endTimestamp < block.timestamp, "Policy is currently active")
NotReplaced(id) == policies[id].endTimestamp < now

\* Mutant: what is paid has to be enough.
MPriceIsRight(value, size, start, end) == value >= feeRate * size * (end - start)

PriceIsRight(value, size, start, end) == value = feeRate * size * (end - start)

\* Mutant: an empty term is accepted.
MAcceptable(id, size, start, end, value) ==
    /\ start >= 0 /\ now < end
    /\ size > 0 /\ value >= 0
    /\ PriceIsRight(value, size, start, end)
    /\ NotReplaced(id)

\* What createPolicy() requires; the ABI takes no negative numbers.
Acceptable(id, size, start, end, value) ==
    /\ start >= 0 /\ start < end /\ now < end
    /\ size > 0 /\ value >= 0
    /\ PriceIsRight(value, size, start, end)
    /\ NotReplaced(id)

\* The owner is only written when it is another account than the sender.
NewPolicy(id, sender, owner, size, start, end) ==
    [sponsor |-> sender, startTimestamp |-> start, endTimestamp |-> end, size |-> size,
     owner |-> IF owner \notin {sender, Zero} THEN owner ELSE policies[id].owner]

\* @param _policyOwner: "Zero address means sender is owner".
createPolicy(sender, id, owner, size, start, end, value) ==
    /\ Acceptable(id, size, start, end, value)
    /\ policies' = [policies EXCEPT ![id] = NewPolicy(id, sender, owner, size, start, end)]
    /\ UNCHANGED feeRate

setFeeRate(rate) ==
    /\ rate # feeRate
    /\ feeRate' = rate
    /\ UNCHANGED <<policies, now, grant, quote, paidRate>>

\* Another account pays for a policy, at the right price.
OtherCreates(sender, id, owner, size, start, end) ==
    /\ createPolicy(sender, id, owner, size, start, end, feeRate * size * (end - start))
    /\ UNCHANGED <<now, grant, quote, paidRate>>

Tick ==
    /\ now < MaxTime
    /\ now' = now + 1
    /\ UNCHANGED <<chain, grant, quote, paidRate>>

-----------------------------------------------------------------------------
(* Alice. *)

\* SubscriptionManagerPayment.quote, with the parameters already merged.
Quote(id, size, commencement, expiration, duration) ==
    LET c == IF commencement # 0 THEN commencement
             ELSE IF expiration # 0 /\ duration # 0 THEN expiration - duration
             ELSE now
        d == IF duration # 0 THEN duration ELSE expiration - c
    IN [id |-> id, size |-> size, commencement |-> c, expiration |-> expiration,
        value |-> feeRate * d * size, duration |-> d]

\* "Policy end time must be specified as 'expiration' or 'duration', got neither."
GrantQuote(id, size, commencement, expiration, duration) ==
    /\ grant = "idle"
    /\ expiration # 0 \/ duration # 0
    /\ quote' = Quote(id, size, commencement, expiration, duration)
    /\ grant' = "quoted"
    /\ UNCHANGED <<chain, now, paidRate>>

\* Policy.__init__ calls validate_price(), which reads the fee again.
GrantValidate ==
    /\ grant = "quoted"
    /\ grant' = IF quote.value = quote.size * quote.duration * feeRate
                THEN "sampling" ELSE "error"
    /\ UNCHANGED <<chain, now, quote, paidRate>>

\* enact() pays once the nodes are sampled; a transaction that the contract would
\* reject raises.
GrantPay ==
    /\ grant = "sampling"
    /\ createPolicy(Alice, quote.id, Alice, quote.size, quote.commencement,
                    quote.expiration, quote.value)
    /\ grant' = "granted" /\ paidRate' = feeRate
    /\ UNCHANGED <<now, quote>>

GrantRejected ==
    /\ grant = "sampling"
    /\ ~Acceptable(quote.id, quote.size, quote.commencement, quote.expiration, quote.value)
    /\ grant' = "error"
    /\ UNCHANGED <<chain, now, quote, paidRate>>

\* Not enough nodes answered: nothing was paid.
GrantNotEnoughUrsulas ==
    /\ grant = "sampling"
    /\ grant' = "error"
    /\ UNCHANGED <<chain, now, quote, paidRate>>

Grant == \/ \E id \in PolicyIds, size \in Sizes, c, e, d \in Times : GrantQuote(id, size, c, e, d)
         \/ GrantValidate \/ GrantPay \/ GrantRejected \/ GrantNotEnoughUrsulas

SubNext ==
    \/ Grant
    \/ \E rate \in FeeRates : setFeeRate(rate)
    \/ \E sender \in Accounts \ {Alice}, id \in PolicyIds, owner \in Accounts \cup {Zero},
          size \in Sizes, start, end \in Times : OtherCreates(sender, id, owner, size, start, end)
    \/ Tick

SubSpec == SubInit /\ [][SubNext]_subVars

-----------------------------------------------------------------------------
Policies == [sponsor : Accounts \cup {Zero}, startTimestamp : Nat, endTimestamp : Nat,
             size : Nat, owner : Accounts \cup {Zero}]

\* Every variable has its type; a policy that exists has a term.
SubTypeOK ==
    /\ feeRate \in FeeRates /\ now \in Nat
    /\ policies \in [PolicyIds -> Policies]
    /\ grant \in {"idle", "quoted", "sampling", "granted", "error"}
    /\ \A id \in PolicyIds : policies[id] # NoPolicy =>
          policies[id].startTimestamp < policies[id].endTimestamp

\* Nobody, with any payment, changes a policy during its term: what Alice paid for
\* cannot be replaced by someone who knows its id until it is over.
PolicyStable ==
    [][\A id \in PolicyIds : isPolicyActive(id) => policies'[id] = policies[id]]_subVars

\* From its payment to the end of the term Alice was quoted, a granted policy is
\* active for the nodes that ask the contract (before its start too, which
\* isPolicyActive does not look at), with Alice as its sponsor and its size and term
\* as quoted; and what was paid is what they cost at the fee in force at the payment,
\* however the fee moved since the quote.
GrantHonoured ==
    grant = "granted" =>
        /\ quote.value = paidRate * quote.size * (quote.expiration - quote.commencement)
        /\ now < quote.expiration =>
              /\ isPolicyActive(quote.id)
              /\ policies[quote.id].sponsor = Alice
              /\ policies[quote.id].size = quote.size
              /\ policies[quote.id].startTimestamp = quote.commencement
              /\ policies[quote.id].endTimestamp = quote.expiration

\* The docstring of PaymentMethod.quote: "Generates a valid quote for this payment
\* method using pricing details": with nothing changed since, and an expiration,
\* if there is one, in the future and after the commencement, it can be paid.
QuoteValid ==
    /\ grant = "quoted"
    /\ quote.value = feeRate * quote.duration * quote.size
    /\ NotReplaced(quote.id)
    /\ quote.expiration # 0 =>
          now < quote.expiration /\ 0 <= quote.commencement /\ quote.commencement < quote.expiration
    => Acceptable(quote.id, quote.size, quote.commencement, quote.expiration, quote.value)
=============================================================================
