# A TLA+ model of nucypher

nucypher runs threshold proxy re-encryption: Alice grants Bob access to her
messages by giving each of several nodes (Ursulas) a key fragment; Bob collects
enough re-encrypted capsule fragments from them to decrypt. Nodes are bonded to
staking providers in a contract, and policies are paid for in another one.

This directory holds TLA+ modules for parts of that system, TLC runs of small
instances, and TLAPS proofs for all instances. `PROJECT.json` maps every
definition to the source lines it models and lists runs, mutants (a plausible bug
for every property, which the property must catch), findings, hazards and
theorems.

    tlc -workers 2 -config Retrieval.cfg MCRetrieval     # any run
    tlapm WorkerPoolProofs.tla                           # any proof module

## Inventory

| Part | State | Operations | What makes it hard |
|---|---|---|---|
| Worker pool (`utilities/concurrency.py`) | counters, result queue, three futures/events, thread pool | start, block, cancel, join; producer, processor, timer, worker threads | unlocked counters, four ways of ending that race |
| Policy enactment (`policy/policies.py`, `reservoir.py`) | reservoir, selected nodes, kfrags | sample, publish, enact | prefetching from a stale count, reading results of a running pool |
| Provider sampling (`blockchain/eth/agents.py`) | running totals, pages read | draw; read pages | in-place adjustment over many calls; a chain that moves between pages |
| PRE application contract (`SimplePREApplication.sol`) | provider/operator relations | bond, unbond, confirm | two mappings for one relation |
| Payment (`SubscriptionManager.sol`, `policy/payment.py`) | policies, fee; Alice's quote | createPolicy, setFeeRate; quote, validate, pay | a price quoted, checked and paid at three times |
| Retrieval (`network/retrieval.py`, Bob) | plan, message kits | retrieve, work orders, update | partial failure, kits reused between attempts |
| Work tracker (`blockchain/eth/token.py`) | pending transactions, requirement, fail count | start, round of work, error restart | replacement of transactions of unknown fate |
| Learning (`network/nodes.py`, `acumen/perception.py`) | fleet state, teachers, sprouts | learn, remember, record, mature | rounds in threads of their own |
| Node service (`network/server.py`) | revoked policies, datastore | reencrypt, exchange metadata, ping | payment checked at request time |
| Availability tracker (`network/trackers.py`) | score | measure, warn, shut down | decaying score, error handling |
| Contracts: StakingEscrow, Adjudicator, Dispatcher, Snapshot | balances, targets, snapshots | withdraw, merge, slash, upgrade, look up | several limits on one balance; binary search |
| Persistence (`datastore/`, `config/`, `crypto/keystore.py`, registry) | files, LMDB | read, write, restore | partial writes |
| CLI, control, monitoring, cloud deployment | none of their own | | interface code |

The parts interact in this order: an operator is bonded (PREApplication) and its
node confirms its address (WorkTracker); Alice reads the providers
(ProviderPaging) into a reservoir, draws from it (WeightedSampler), pings the
nodes drawn with a worker pool (WorkerPool, Sampling), pays
(SubscriptionManager) and assigns the kfrags (Sampling); Bob retrieves
(Retrieval).

## Modules

* **WorkerPool**. One action per stretch of a thread between two points where
  another thread can see shared state; `prod`, `proc`, `bail`, `client` are the
  threads' program counters. `started` and `finished` are read and written
  without a lock, as in the code. The value factory returns any batch, nothing,
  or raises; a worker succeeds or fails. The Twisted thread pool is external.
* **Sampling** extends WorkerPool with the value factory that is really used
  (PrefetchStrategy over MergedReservoir, made from the providers without the
  handpicked nodes) and `Policy.enact`. Its actions are WorkerPool's, with the
  arbitrary factory replaced.
* **WeightedSampler**, **UniqueDraws**. The array of running totals and
  `sample_no_replacement`, one action per iteration; UniqueDraws is the abstract
  promise (each element at most once), implemented with the mapping
  `left <- Left`.
* **PREApplication**. The contract, one action per transaction; staking
  (external) gives and takes authorization. **ProviderPaging** extends it with
  the client that reads pages while transactions are mined; any of its calls may
  fail.
* **SubscriptionManager**. The contract, other accounts using it, and Alice's
  grant in three steps: quote, validation, payment. Falsy Python values are 0,
  because the code only tests for truth. `paidRate` is a history variable: the fee
  in force when Alice's transaction was mined.
* **Retrieval**. Bob's attempts; a cfrag is the Ursula it comes from. The pick
  order is any order the shuffle may give. The learner's threads find and forget
  nodes at any time, also between the test for a node and its use, and may crash.
* **WorkTracker**. The task, the node's start, the bonded check and the account's
  transactions on a chain (external). An error may come before or after the
  provider got a transaction, and in the middle of the round's deletions. Block numbers are shifted down so that
  blocks go on for ever: only their differences matter.

`MC*` modules hold model values and symmetry sets; **MCGrant** instantiates
SubscriptionManager and WeightedSampler in one run, and each of its behaviours has
steps of one of the two. The configurations replace no definition.

## Runs

Expected to pass:

| Run | Instance | Shows |
|---|---|---|
| `workerpool` | 3 values, target 2, 2 pool threads, 2 clients | no more successes than the target; OutOfValues is final and means short; all waiting clients agree; join() leaves nothing running; the inductive invariant `IInv` |
| `sampling` | 1 handpicked and 2 drawn nodes, 2 shares | nodes are drawn once, every share is assigned to a node of its own, OutOfValues only when all were tried; the blocking call is released although pings hang; enact() ends unless a ping or the payment hangs |
| `preapplication` | 3 addresses, one a contract, timestamps 1..4 | the two mappings are inverse, providers are listed once, confirmed means bonded, operators keep their minimum time |
| `paging` | 3 addresses, 2 transactions while reading, page sizes 0, 2, 8 | the reservoir holds all providers active throughout and none never active; the token sum is right; pages exist; the reading ends |
| `grant` | lists of up to 4 weights up to 3; 1 policy id, 2 accounts, 2 fees, timestamps 1..4 | totals, length, proportions; implements UniqueDraws; active policies cannot be changed; a granted policy is what was quoted, at the price of the fee when it was paid |
| `retrieval` | 3 Ursulas, 2 capsules, threshold 2, 3 attempts | the plan stays consistent, nothing is asked for twice, an attempt that ends short tried everyone; every attempt ends unless a call over the network hangs |
| `worktracker` | waits of 2 blocks, 2 transactions in the mempool, 5 outside events | at most one commitment waits, one that got lost to the tracker is noticed before the next is sent, tracking stays bounded; a bonded and authorized operator gets confirmed |

Expected to be violated, each a disagreement between the code and what a comment
or docstring in the repository says (quoted under `findings`):

| Run | The code |
|---|---|
| `workerpool_stop_race` | stops the thread pool while the producer hands values to it |
| `retrieval_no_ursulas` | raises "No Ursulas left" where a comment excludes it, and loses what that attempt found |
| `subscription_quote` | quotes a duration without an expiration, which cannot be paid |
| `sampler_mutates` | keeps the weights of drawn elements at 0 between calls, where the docstring says that the object is not mutated |
| `worktracker_one_and_done` | restarts without the requirement after an error, and never notices that it is done |

Smaller disagreements, read in the code and modelled as the code has them, without
a run of their own: SubscriptionManager.sol:91 keeps the owner of an expired policy
when its id is used again without naming one (line 66: "Zero address means sender is
owner"); at `block.timestamp == endTimestamp` an id is rejected as active (line 82)
while `isPolicyActive` is false; token.py:355, which resets `_consecutive_fails`, is
never called, against the comment at token.py:259.

**Bounds.** They are constants named in the modules (`MaxTasks`, `MaxTime`,
`MaxChanges`, `MaxRetrievals`, `MaxBlock`, `MaxMempool`, `MaxEvents`,
`MaxElements`, `MaxWeight`). They were chosen so that the interesting cases occur:
more tasks than the target and than the threads; a provider that joins and one
that leaves during a reading; a retrieval after one that fell short, with more
Ursulas than the threshold; a transaction replaced while another is waiting. For
each property there is a mutant that the same bounds expose. Deadlock is not
checked: every component may come to rest (a finished pool, a bounded clock).
Symmetry is used only in `workerpool` and `preapplication`, which check no liveness.

**Fairness.** Sampling: weak fairness of the steps of the process's own threads
together: some thread runs as long as one can, the timer and all sleeps being
finite. No thread is favoured. Nothing is assumed of a ping, because before its
request, which has a timeout, `NodeSprout.mature()` may wait on a queue without one
(nodes.py:185), nor of the payment; `PolicyEnds` names these two as what may
keep enact() from ending. Retrieval: weak fairness of the calling thread between its
calls over the network, none of the calls themselves, for the same reason.
ProviderPaging: weak fairness of the one client thread, whose JSON-RPC calls answer,
time out or fail; nothing need happen outside. WorkTracker: the reactor runs the
task again and again (weak), and strong fairness of new blocks and of the mining of a
waiting transaction, an assumption about the chain and not about the code; outside
trouble (`events`) is finite. The other components have no liveness property.

## Proofs

All proofs are checked by TLAPS, for any values of the constants that satisfy
the named assumptions.

* **WorkerPoolProofs** (with the lemmas of **WorkerPoolSteps**): `IInv`, type correctness and the five safety properties
  of the run `workerpool`. The properties are not inductive: that OutOfValues is
  final needs to know that every message in the queue reports a task that was not
  read yet and that none is reported twice (`QueueInv`), that the marker
  PRODUCER_STOPPED is the producer's last act (`StopInv`), and that
  `_finished_tasks` counts the tasks read while `_started_tasks` is never behind
  (`CountInv`). `DryInv`, `SuccessInv`, `OutcomeInv` and `PoolInv` tie the
  processor's place to the counters, the future and the pool. The proof has one
  lemma per thread and, under it, one step per action. Assumptions: a positive
  target and pool size.
* **PREApplicationProofs**: types, the inverse mappings, the list of providers,
  confirmed operators, and the minimum tenure. The strengthening adds that the
  relation leads nowhere from address(0) and that what is confirmed is an account.
* **WeightedSamplerProofs**: the totals are those of what is left; the length is
  right and the random range never empty; each element is hit by as many
  positions as its weight; UniqueDraws is implemented. The invariant adds that a
  call draws no more than is left. The facts about the whole array (it is sorted,
  the search finds an element) would need induction; they are proved by a least
  counterexample instead, which exists because finite sets are well-founded under
  inclusion (lemma `LeastNatural`).

Model-checked only: all liveness (fairness and ENABLED are outside the prover's
reach), Sampling, ProviderPaging, Retrieval,
SubscriptionManager and WorkTracker.

## Not modelled, and the plan

Left out on purpose: cryptography, serialization, HTTP and JSON-RPC, the
command line, monitoring, and tools for cloud deployment. In the modelled parts:
`sweep()` and the balance of SubscriptionManager, the intervals of the work
tracker, and, in the work tracker, a transaction mined between the two counts of
its consistency check.

Planned, in this order:

1. **Learner** (with FleetSensor and NodeSprout): several learning threads, nodes
   to add and to remove, teachers; older announcements, lost nodes, maturing.
2. **Reencryption**: the node's handler composed with Retrieval and
   SubscriptionManager; revocation.
3. **AvailabilityTracker**, and Ursula's run() and stop() with all tasks.
4. **StakingEscrow** with **Adjudicator**; **Dispatcher**; **Snapshot** against a
   reference definition.
5. **Datastore**, **NodeStorage**, the contract registry, configuration files,
   keystore and signers (locking), deployment steps.
6. **Porter**, as a second instance of the sampling composition.
7. Proofs: `PolicyStable` and `GrantHonoured`; `PlanConsistent`; `OneCommitment`;
   StakingEscrow's balances.
