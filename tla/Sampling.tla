------------------------------- MODULE Sampling -------------------------------
(***************************************************************************)
(* Enacting a policy: Policy._sample (nucypher/policy/policies.py) runs a  *)
(* WorkerPool that pings the nodes a PrefetchStrategy draws from a         *)
(* MergedReservoir (policy/reservoir.py), waits for as many answers as the *)
(* policy has shares, and Policy.enact pays for the nodes and gives each   *)
(* of them one kfrag.  Target is the number of shares, Values the nodes.   *)
(***************************************************************************)
EXTENDS WorkerPool

CONSTANTS Handpicked,  \* the nodes the caller names, in order
          Providers,   \* the nodes that could be drawn
          Alice        \* the thread that enacts the policy

Range(s) == {s[i] : i \in DOMAIN s}

\* The handpicked nodes are a set.
ASSUME CandidatesAssumption ==
    /\ Handpicked \in Seq(Values) /\ Providers \subseteq Values
    /\ \A i, j \in DOMAIN Handpicked : Handpicked[i] = Handpicked[j] => i = j
    /\ MaxTasks = Cardinality(Range(Handpicked) \cup Providers)
    /\ Clients = {Alice}

VARIABLES values,     \* MergedReservoir.values: handpicked nodes not drawn yet
          reservoir,  \* nodes the StakingProvidersReservoir still holds
          selected,   \* _sample's local successes, once read
          policy,     \* where enact() is
          assigned    \* assigned_kfrags: the kfrag of each node

sampleVars == <<selected, policy, assigned>>
allVars == <<vars, values, reservoir, sampleVars>>

NotRead == {"not read"}

\* Mutant: the handpicked nodes can be drawn again.
MReservoir == Providers

\* The reservoir is made without the handpicked nodes, which come before it.
Reservoir == Providers \ Range(Handpicked)

SamplingInit ==
    /\ Init
    /\ values = Handpicked /\ reservoir = Reservoir
    /\ selected = NotRead /\ policy = "sampling" /\ assigned = <<>>

-----------------------------------------------------------------------------
(* The value factory. *)

\* Mutant: one value too few.
MWanted == IF lenSuccesses + 1 < Target THEN Target - lenSuccesses - 1 ELSE 0

\* PrefetchStrategy wants as many values as successes are missing.
Wanted == IF lenSuccesses < Target THEN Target - lenSuccesses ELSE 0

\* MergedReservoir gives the handpicked nodes first, then any node of the
\* reservoir, each once; when both are empty, None.
FromList == IF Wanted < Len(values) THEN Wanted ELSE Len(values)
FromReservoir ==
    LET n == Wanted - FromList
    IN IF n < Cardinality(reservoir) THEN n ELSE Cardinality(reservoir)

\* The ways to draw n distinct elements of S one after the other.
Draws(n, S) == {d \in [1..n -> S] : \A i, j \in 1..n : d[i] = d[j] => i = j}

Prefetch ==
    \E d \in Draws(FromReservoir, reservoir) :
        LET b == SubSeq(values, 1, FromList) \o d
        IN /\ ProdBatch(b)
           /\ values' = SubSeq(values, FromList + 1, Len(values))
           /\ reservoir' = reservoir \ Range(d)
           /\ UNCHANGED sampleVars

\* Mutant: an empty reservoir raises.
MPrefetchNone ==
    /\ FromList + FromReservoir = 0
    /\ ProdNoBatch
    /\ UNCHANGED <<values, reservoir, sampleVars>>

\* An empty batch is returned as None; the factory does not raise.
PrefetchNone ==
    /\ FromList + FromReservoir = 0
    /\ ProdNoBatch
    /\ prod' = "stop"
    /\ UNCHANGED <<values, reservoir, sampleVars>>

-----------------------------------------------------------------------------
(* Policy._sample and Policy.enact, after worker_pool.start(). *)

SampleBlock ==
    /\ ClientBlock(Alice)
    /\ UNCHANGED <<values, reservoir, sampleVars>>

SampleGet ==
    /\ ClientGet(Alice)
    /\ selected' = IF targetValue.kind = "successes" THEN targetValue.values ELSE selected
    /\ UNCHANGED <<values, reservoir, policy, assigned>>

RaisedOutOfValuesOrTimedOut ==
    outcome[Alice].kind \in {"PRODUCER_STOPPED", "TIMEOUT_TRIGGERED"}

\* The except clause takes what there is by now, while results still come in.
SampleGetSuccesses ==
    /\ client[Alice] = "cancel"
    /\ RaisedOutOfValuesOrTimedOut
    /\ selected = NotRead
    /\ selected' = successes
    /\ UNCHANGED <<vars, values, reservoir, policy, assigned>>

\* The finally clause: cancel() and join(); an error of the producer goes up.
SampleCancel ==
    /\ client[Alice] = "cancel"
    /\ RaisedOutOfValuesOrTimedOut => selected # NotRead
    /\ ClientCancel(Alice)
    /\ UNCHANGED <<values, reservoir, sampleVars>>

\* Mutant: the successes are not counted.
MSampleJoinUncounted ==
    /\ ClientJoin(Alice)
    /\ policy' = IF producerError \/ outcome[Alice].kind = "error" THEN "error"
                 ELSE "publish"
    /\ UNCHANGED <<values, reservoir, selected, assigned>>

SampleJoin ==
    /\ ClientJoin(Alice)
    /\ policy' = IF producerError \/ outcome[Alice].kind = "error" THEN "error"
                 ELSE IF Cardinality(selected) < Target THEN "NotEnoughUrsulas"
                 ELSE "publish"
    /\ UNCHANGED <<values, reservoir, selected, assigned>>

\* Mutant: a payment may be left pending.
MPublish ==
    /\ policy = "publish"
    /\ policy' \in {"paid", "error", "pending"}
    /\ UNCHANGED <<vars, values, reservoir, selected, assigned>>

\* _publish pays, which may fail; only then the kfrags are assigned.
Publish ==
    /\ policy = "publish"
    /\ policy' \in {"paid", "error"}
    /\ UNCHANGED <<vars, values, reservoir, selected, assigned>>

\* zip(ursulas, self.kfrags) stops at the shorter; there are Target kfrags.
AssignKfrags ==
    /\ policy = "paid"
    /\ LET n == Cardinality(selected)
       IN \E order \in Draws(n, selected) :
             assigned' = SubSeq(order, 1, IF n < Target THEN n ELSE Target)
    /\ policy' = "enacted"
    /\ UNCHANGED <<vars, values, reservoir, selected>>

Sample == SampleBlock \/ SampleGet \/ SampleGetSuccesses \/ SampleCancel \/ SampleJoin

-----------------------------------------------------------------------------
\* The pool's own threads, up to the ping of a worker.
PoolStep ==
    /\ \/ ProdRead \/ ProdEnqueue \/ ProdEnqueueStopped \/ ProdSleep
       \/ ProdError \/ ProdErrorCancel \/ ProdStop
       \/ \E i \in DOMAIN tasks : WorkerStart(i) \/ WorkerCancelled(i)
       \/ Processor
       \/ Bail
    /\ UNCHANGED <<values, reservoir, sampleVars>>

PingEnds ==
    /\ \E i \in DOMAIN tasks : WorkerFinish(i)
    /\ UNCHANGED <<values, reservoir, sampleVars>>

OwnStep == PoolStep \/ Prefetch \/ PrefetchNone \/ Sample \/ AssignKfrags

SamplingNext == OwnStep \/ PingEnds \/ Publish

SamplingSpec == SamplingInit /\ [][SamplingNext]_allVars

\* Some thread always runs (sleeps and the timer end); every run of the pool is
\* finite, so no more is needed.  Nothing is assumed of a ping, which waits without a
\* timeout in NodeSprout.mature() before its request, nor of the payment.
SamplingFairSpec == SamplingSpec /\ WF_allVars(OwnStep)

-----------------------------------------------------------------------------
\* Every variable has its type; a policy ends in one of four ways.
SamplingTypeOK ==
    /\ TypeOK
    /\ values \in Seq(Values) /\ reservoir \subseteq Reservoir
    /\ selected = NotRead \/ selected \subseteq Values
    /\ policy \in {"sampling", "error", "NotEnoughUrsulas", "publish", "paid", "enacted"}
    /\ assigned \in Seq(Values)

\* No node is drawn, hence pinged, twice, and the handpicked ones come first: a
\* node of the reservoir is handed over only when all of them were.
DrawnOnce ==
    /\ \A i, j \in DOMAIN tasks : tasks[i].value = tasks[j].value => i = j
    /\ \A i \in DOMAIN tasks : tasks[i].value \in Reservoir =>
          \A h \in Range(Handpicked) : \E j \in 1..(i - 1) : tasks[j].value = h

\* An enacted policy gave each of its shares to a node of its own: as many
\* distinct nodes as shares, each of which answered, and no kfrag is lost in the
\* zip although the list may have been read while results still came in.
EveryShareAssigned ==
    policy = "enacted" =>
        /\ Len(assigned) = Target
        /\ Cardinality(Range(assigned)) = Target
        /\ Range(assigned) = selected
        /\ selected \subseteq successes

\* OutOfValues means that no candidate is left: each one was drawn and its result
\* was read, and the successes are still too few (unless the producer failed).
OutOfValuesMeansTried ==
    targetValue.kind = "PRODUCER_STOPPED" /\ ~producerError =>
        /\ values = <<>> /\ reservoir = {}
        /\ {tasks[i].value : i \in InStage("processed")} = Range(Handpicked) \cup Reservoir
        /\ Cardinality(successes) < Target

\* A producer error can only come from handing a node to a stopped pool, so never
\* while the target is still to be reached: no policy fails on it otherwise.
ErrorOnlyAfterStop == producerError => targetValue # Unset

\* block_until_target_successes() returns or raises, even if every ping hangs:
\* the timer, which sets its future in time, is not cancelled unless another thread
\* has set it or is about to.
AliceIsReleased == <>(outcome[Alice] # Unset)

\* enact() comes to an end, the policy is enacted or an exception says why not, unless
\* a ping or the payment never comes back.  So join() returns as soon as the pings
\* do: the three threads and the pool never wait on each other.
PolicyEnds ==
    \/ <>(policy \in {"enacted", "NotEnoughUrsulas", "error"})
    \/ <>[](InStage("running") # {})
    \/ <>[](policy = "publish")
=============================================================================
