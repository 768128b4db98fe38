--------------------------- MODULE WorkerPoolProofs ---------------------------
(***************************************************************************)
(* Proofs of the safety properties of WorkerPool, for any set of values,   *)
(* any target, pool size and number of clients.                            *)
(***************************************************************************)
EXTENDS WorkerPoolSteps

-----------------------------------------------------------------------------
(* The steps of the timer, the clients and the processor. *)

\* Only the first value set counts, so no outcome a client took is changed.
LEMMA SetTargetValueInv ==
    ASSUME IInv, NEW k \in {"successes", "TIMEOUT_TRIGGERED", "PRODUCER_STOPPED"},
           NEW S \in SUBSET Values, SetTargetValue(Result(k, S)), UNCHANGED outcome
    PROVE  /\ targetValue' = targetValue \/ targetValue' = Result(k, S)
           /\ OutcomeInv'
<1>1. Result(k, S).kind = k
  BY DEF Result
<1>2. targetValue.kind # "unset" => targetValue # Unset
  BY DEF Unset, Result
<1>3. CASE targetValue = Unset
  <2>1. targetValue' = Result(k, S)
    BY <1>3 DEF SetTargetValue
  <2>2. targetValue.kind = "unset"
    BY <1>3 DEF Unset, Result
  <2>3. \A c \in Clients : outcome[c].kind \in {"unset", "error"}
    BY <2>2 DEF IInv, OutcomeInv
  <2> QED
    BY <1>1, <2>1, <2>3 DEF OutcomeInv
<1>4. CASE targetValue # Unset
  BY <1>4 DEF SetTargetValue, IInv, OutcomeInv
<1> QED
  BY <1>3, <1>4

LEMMA BailInv ==
    ASSUME IInv, Bail
    PROVE  IInv'
<1>0. TypeOK'
  BY BailType DEF IInv
<1>1. UNCHANGED <<prodVars, tasks, pool, queue, procVars, clientVars>>
  BY DEF Bail, BailWake, BailSet, BailCancel
<1>2. QueueInv' /\ StopInv' /\ CountInv' /\ PoolInv'
  BY <1>1 DEF IInv, QueueInv, StopInv, CountInv, PoolInv, InStage, prodVars, procVars,
              clientVars
<1>3. CASE targetValue' = targetValue
  BY <1>0, <1>1, <1>2, <1>3 DEF IInv, DryInv, SuccessInv, OutcomeInv, InStage,
                                procVars, clientVars
<1>4. CASE BailSet
  <2>1. /\ targetValue' = targetValue \/ targetValue' = Result("TIMEOUT_TRIGGERED", {})
        /\ OutcomeInv'
    BY <1>1, <1>4, SetTargetValueInv DEF BailSet, clientVars
  <2>2. CASE targetValue' = Result("TIMEOUT_TRIGGERED", {})
    <3>1. targetValue'.kind = "TIMEOUT_TRIGGERED"
      BY <2>2 DEF Result
    <3>2. DryInv' /\ SuccessInv'
      BY <1>1, <3>1 DEF IInv, DryInv, SuccessInv, InStage, procVars
    <3> QED
      BY <1>0, <1>2, <2>1, <3>2 DEF IInv
  <2> QED
    BY <1>3, <2>1, <2>2
<1> QED
  BY <1>3, <1>4 DEF Bail, BailWake, BailCancel

LEMMA ClientInv ==
    ASSUME IInv, NEW c \in Clients, Client(c)
    PROVE  IInv'
<1>0. TypeOK'
  BY ClientType DEF IInv
<1>1. UNCHANGED <<prodVars, tasks, pool, queue, procVars, targetValue>>
  BY DEF Client, ClientBlock, ClientGet, ClientCancel, ClientJoin
<1>2. QueueInv' /\ StopInv' /\ CountInv' /\ DryInv' /\ SuccessInv'
  BY <1>1 DEF IInv, QueueInv, StopInv, CountInv, DryInv, SuccessInv, InStage, prodVars,
              procVars
<1>3. OutcomeInv'
  <2>1. /\ \A d \in Clients : d # c => outcome'[d] = outcome[d]
        /\ \/ outcome'[c] = outcome[c]
           \/ outcome'[c] = targetValue
           \/ outcome'[c].kind = "error"
    BY DEF Client, ClientBlock, ClientGet, ClientCancel, ClientJoin, Result, IInv, TypeOK
  <2> QED
    BY <1>1, <2>1 DEF IInv, OutcomeInv
<1>4. PoolInv'
  <2>1. \A d \in Clients : client'[d] \in {"joined", "raised"} =>
           client[d] \in {"joined", "raised"} \/ proc = "done"
    BY DEF Client, ClientBlock, ClientGet, ClientCancel, ClientJoin, IInv, TypeOK
  <2> QED
    BY <1>1, <2>1 DEF IInv, PoolInv, procVars
<1> QED
  BY <1>0, <1>2, <1>3, <1>4 DEF IInv

\* When as many results were read as tasks were started, every task was read.
LEMMA AllProcessed ==
    ASSUME NEW ts \in Seq(Tasks), NEW S \in SUBSET (DOMAIN ts), NEW n \in Nat,
           Len(ts) <= n, Cardinality(S) = n
    PROVE  S = DOMAIN ts
<1>1. Len(ts) \in Nat
  BY LenProperties
<1>2. Cardinality(S) <= Len(ts) /\ (Cardinality(S) = Len(ts) => S = DOMAIN ts)
  BY StageCount
<1> QED
  BY <1>1, <1>2

\* Reading a result: the rest of the queue keeps its invariant, and the counters
\* tell exactly when the pool has run dry.
LEMMA ProcGetInv ==
    ASSUME IInv, ProcGetStopped \/ ProcGetResult
    PROVE  IInv'
<1>0. TypeOK'
  BY ProcessorType DEF IInv, Processor
<1>1. /\ tasks \in Seq(Tasks) /\ queue \in Seq(Messages) /\ started \in Nat
      /\ Len(batch) \in Nat /\ Len(tasks) \in Nat
      /\ DOMAIN tasks = 1..Len(tasks) /\ tasks' \in Seq(Tasks)
  BY <1>0, LenProperties DEF IInv, TypeOK
<1>2. /\ queue # <<>> /\ queue' = Tail(queue) /\ proc = "get"
      /\ UNCHANGED <<prodVars, pool, targetValue, bail, clientVars>>
  BY Zenon DEF ProcGetStopped, ProcGetResult
<1>3. /\ Head(queue) = queue[1] /\ 1 \in DOMAIN queue
      /\ \A k \in DOMAIN queue' : k + 1 \in DOMAIN queue /\ queue'[k] = queue[k + 1]
  BY <1>1, <1>2, TailElements
<1>4. /\ targetValue.kind # "PRODUCER_STOPPED"
      /\ Cardinality(successes) < Target /\ IsFiniteSet(successes)
      /\ pool = "running"
  BY <1>2 DEF IInv, SuccessInv, PoolInv, TypeOK
<1>5. Len(tasks) <= started
  BY <1>1 DEF IInv, CountInv
<1>6. \A k \in DOMAIN queue' : k + 1 # 1 /\ queue'[k].task # Head(queue).task
  <2>1. \A k \in DOMAIN queue' : k \in Nat /\ k # 0
    BY <1>0, LenProperties DEF TypeOK
  <2> QED
    BY <1>3, <2>1 DEF IInv, QueueInv
<1>7. \A k, l \in DOMAIN queue' : k # l => queue'[k].task # queue'[l].task
  <2>1. \A k \in DOMAIN queue' : k \in Nat
    BY <1>0, LenProperties DEF TypeOK
  <2> QED
    BY <1>3, <2>1 DEF IInv, QueueInv
<1>8. OutcomeInv'
  BY <1>2 DEF IInv, OutcomeInv, clientVars
<1>9. CASE ProcGetStopped
  <2>1. Head(queue) = ProducerStopped
    BY <1>2, <1>9, HeadOfQueue DEF ProcGetStopped, IInv
  <2>2. UNCHANGED <<tasks, finished, successes>> /\ sawStop' = TRUE
    BY <1>9 DEF ProcGetStopped
  <2>3. QueueInv'
    BY <1>3, <1>7, <2>2 DEF IInv, QueueInv
  <2>4. StopInv'
    <3>1. prod = "done"
      BY <1>3, <2>1 DEF IInv, StopInv
    <3>2. \A k \in DOMAIN queue' : queue'[k] # ProducerStopped
      BY <1>6, <2>1
    <3> QED
      BY <1>2, <3>1, <3>2 DEF IInv, StopInv, prodVars
  <2>5. CountInv'
    BY <1>2, <2>2 DEF IInv, CountInv, InStage, prodVars
  <2>6. /\ proc' \in {"get", "outCancel"}
        /\ proc' = "outCancel" => finished = started
    BY <1>9 DEF ProcGetStopped, AfterResult
  <2>7. DryInv'
    <3>1. proc' = "outCancel" => InStage("processed") = DOMAIN tasks
      <4>1. InStage("processed") \in SUBSET (DOMAIN tasks)
        BY DEF InStage
      <4> QED
        BY <1>1, <1>5, <2>6, <4>1, AllProcessed DEF IInv, CountInv
    <3> QED
      BY <1>2, <1>4, <2>2, <2>6, <3>1 DEF DryInv, InStage
  <2>8. SuccessInv'
    BY <1>2, <1>4, <2>2, <2>6 DEF IInv, SuccessInv
  <2>9. PoolInv'
    BY <1>2, <1>4, <2>2, <2>6 DEF IInv, PoolInv, clientVars
  <2> QED
    BY <1>0, <1>8, <2>3, <2>4, <2>5, <2>7, <2>8, <2>9 DEF IInv
<1>10. CASE ProcGetResult
  <2> DEFINE i == Head(queue).task
             v == tasks[i].value
  <2>1. i \in DOMAIN tasks /\ tasks[i].stage = "reported"
    BY <1>2, <1>10, HeadOfQueue DEF ProcGetResult, IInv
  <2>2. /\ tasks' = [tasks EXCEPT ![i].stage = "processed"]
        /\ finished' = finished + 1
        /\ sawStop' = sawStop
        /\ successes' = successes \/ successes' = successes \cup {v}
        /\ Head(queue).kind # "success" => successes' = successes
        /\ proc' = AfterResult(Head(queue).kind = "success" /\ Cardinality(successes') = Target,
                               sawStop, finished')
    BY <1>10 DEF ProcGetResult
  <2> HIDE DEF i, v
  <2>3. /\ Len(tasks') = Len(tasks) /\ DOMAIN tasks' = DOMAIN tasks
        /\ tasks'[i].stage = "processed"
        /\ \A j \in DOMAIN tasks : j # i => tasks'[j] = tasks[j]
    BY <1>1, <2>1, <2>2, StageUpdate
  <2>4. InStage("processed")' = InStage("processed") \cup {i} /\ i \notin InStage("processed")
    BY <2>1, <2>3 DEF InStage
  <2>5. QueueInv'
    <3>1. \A k \in DOMAIN queue' : queue'[k].task # i
      BY <1>6 DEF i
    <3> QED
      BY <1>3, <1>7, <2>3, <3>1 DEF IInv, QueueInv
  <2>6. StopInv'
    BY <1>2, <1>3, <2>2 DEF IInv, StopInv, prodVars
  <2>7. InStage("processed") \in SUBSET (DOMAIN tasks)
        /\ InStage("processed")' \in SUBSET (DOMAIN tasks')
    BY DEF InStage
  <2>8. CountInv'
    <3>1. IsFiniteSet(InStage("processed"))
      BY <1>1, <2>7, StageCount
    <3>2. Cardinality(InStage("processed")') = Cardinality(InStage("processed")) + 1
      BY <2>4, <3>1, FS_AddElement
    <3> QED
      BY <1>2, <2>2, <2>3, <3>2 DEF IInv, CountInv, prodVars
  <2>9. /\ Cardinality(successes') \in Nat /\ IsFiniteSet(successes')
        /\ Cardinality(successes') <= Target
        /\ Head(queue).kind # "success" => Cardinality(successes') < Target
    <3>1. Cardinality(successes) \in Nat
      BY <1>4, FS_CardinalityType
    <3>2. /\ IsFiniteSet(successes \cup {v})
          /\ \/ Cardinality(successes \cup {v}) = Cardinality(successes)
             \/ Cardinality(successes \cup {v}) = Cardinality(successes) + 1
      BY <1>4, FS_AddElement
    <3> QED
      BY <1>4, <2>2, <3>1, <3>2, TargetAssumption
  <2>10. /\ proc' \in {"get", "setTarget", "outCancel"}
         /\ proc' = "setTarget" => Cardinality(successes') = Target
         /\ proc' # "setTarget" => Cardinality(successes') < Target
         /\ proc' = "outCancel" => sawStop /\ finished' = started
    BY <2>2, <2>9, TargetAssumption DEF AfterResult
  <2>11. DryInv'
    <3>1. proc' = "outCancel" => InStage("processed")' = DOMAIN tasks'
      <4>1. proc' = "outCancel" => Cardinality(InStage("processed")') = started
        BY <2>8, <2>10 DEF CountInv
      <4>2. Len(tasks') <= started
        BY <1>5, <2>3
      <4> QED
        BY <1>1, <2>7, <4>1, <4>2, AllProcessed
    <3> QED
      BY <1>2, <1>4, <2>2, <2>10, <3>1 DEF DryInv
  <2>12. SuccessInv'
    BY <1>2, <1>4, <2>9, <2>10 DEF IInv, SuccessInv
  <2>13. PoolInv'
    BY <1>2, <1>4, <2>10 DEF IInv, PoolInv, clientVars
  <2> QED
    BY <1>0, <1>8, <2>5, <2>6, <2>8, <2>11, <2>12, <2>13 DEF IInv
<1> QED
  BY <1>9, <1>10

\* Leaving the loop: setting the future, cancelling and stopping the pool.
LEMMA ProcLeaveInv ==
    ASSUME IInv,
           ProcSetTarget \/ ProcCancel \/ ProcOutSet \/ ProcStopPool \/ ProcPoolStopped
    PROVE  IInv'
<1>a. TypeOK /\ DryInv /\ SuccessInv
  BY ONLY IInv DEF IInv
<1>0. TypeOK'
  BY ProcessorType DEF IInv, Processor
<1>1. UNCHANGED <<prodVars, tasks, queue, sawStop, finished, successes, bail, clientVars>>
  <2>1. CASE ProcSetTarget
    BY ONLY <2>1 DEF ProcSetTarget
  <2>2. CASE ProcCancel
    BY ONLY <2>2 DEF ProcCancel
  <2>3. CASE ProcOutSet
    BY ONLY <2>3 DEF ProcOutSet
  <2>4. CASE ProcStopPool
    BY ONLY <2>4 DEF ProcStopPool, procVars
  <2>5. CASE ProcPoolStopped
    BY ONLY <2>5 DEF ProcPoolStopped, procVars
  <2> QED
    BY <2>1, <2>2, <2>3, <2>4, <2>5
<1>2. QueueInv' /\ StopInv' /\ CountInv'
  BY <1>1 DEF IInv, QueueInv, StopInv, CountInv, InStage, prodVars
<1>3. UNCHANGED InStage("processed")
  BY <1>1 DEF InStage
<1>4. CASE ProcSetTarget
  <2>1. successes \in SUBSET Values /\ proc = "setTarget" /\ proc' = "cancel"
    BY <1>4 DEF ProcSetTarget, IInv, TypeOK
  <2>2. /\ targetValue' = targetValue \/ targetValue' = Result("successes", successes)
        /\ OutcomeInv'
    BY <1>1, <1>4, <2>1, SetTargetValueInv DEF ProcSetTarget, clientVars
  <2>3. targetValue.kind # "PRODUCER_STOPPED"
    BY <2>1 DEF IInv, SuccessInv
  <2>4. Result("successes", successes).kind = "successes"
        /\ Result("successes", successes).values = successes
    BY DEF Result
  <2>5. SuccessInv'
    BY <1>1, <2>1, <2>2, <2>3, <2>4 DEF IInv, SuccessInv
  <2>6. DryInv'
    BY <2>1, <2>2, <2>3, <2>4 DEF DryInv
  <2>7. PoolInv'
    BY <1>1, <1>4, <2>1 DEF IInv, PoolInv, ProcSetTarget, clientVars
  <2> QED
    BY <1>0, <1>2, <2>2, <2>5, <2>6, <2>7 DEF IInv
<1>5. CASE ProcCancel
  <2>1. /\ UNCHANGED <<pool, targetValue>>
        /\ \/ proc = "cancel" /\ proc' = "stopPool"
           \/ proc = "outCancel" /\ proc' = "outSet"
    BY <1>5 DEF ProcCancel
  <2>2. DryInv' /\ SuccessInv'
    <3>1. DryInv'
      BY ONLY <1>a, <1>1, <1>3, <2>1 DEF DryInv
    <3>2. SuccessInv'
      BY ONLY <1>a, <1>1, <2>1 DEF SuccessInv
    <3> QED
      BY ONLY <3>1, <3>2
  <2>3. OutcomeInv' /\ PoolInv'
    BY <1>1, <2>1 DEF IInv, OutcomeInv, PoolInv, clientVars
  <2> QED
    BY <1>0, <1>2, <2>2, <2>3 DEF IInv
<1>6. CASE ProcOutSet
  <2>1. proc = "outSet" /\ proc' = "stopPool" /\ pool' = pool
    BY <1>6 DEF ProcOutSet
  <2>2. /\ targetValue' = targetValue \/ targetValue' = Result("PRODUCER_STOPPED", {})
        /\ OutcomeInv'
    BY <1>1, <1>6, SetTargetValueInv DEF ProcOutSet, clientVars
  <2>3. Result("PRODUCER_STOPPED", {}).kind = "PRODUCER_STOPPED"
    BY DEF Result
  <2>4. SuccessInv'
    BY <1>1, <2>1, <2>2, <2>3 DEF IInv, SuccessInv
  <2>5. DryInv'
    BY <1>1, <1>3, <2>1, <2>2 DEF IInv, DryInv
  <2>6. PoolInv'
    BY <1>1, <2>1 DEF IInv, PoolInv, clientVars
  <2> QED
    BY <1>0, <1>2, <2>2, <2>4, <2>5, <2>6 DEF IInv
<1>7. CASE ProcStopPool
  <2>1. /\ proc = "stopPool" /\ proc' = "joinPool" /\ pool' = "stopping"
        /\ targetValue' = targetValue
    BY <1>7 DEF ProcStopPool
  <2>2. DryInv' /\ SuccessInv'
    <3>1. DryInv'
      BY ONLY <1>a, <1>1, <1>3, <2>1 DEF DryInv
    <3>2. SuccessInv'
      BY ONLY <1>a, <1>1, <2>1 DEF SuccessInv
    <3> QED
      BY ONLY <3>1, <3>2
  <2>3. OutcomeInv' /\ PoolInv'
    BY <1>1, <2>1 DEF IInv, OutcomeInv, PoolInv, clientVars
  <2> QED
    BY <1>0, <1>2, <2>2, <2>3 DEF IInv
<1>8. CASE ProcPoolStopped
  <2>1. /\ proc = "joinPool" /\ proc' = "done" /\ pool' = "stopped"
        /\ targetValue' = targetValue
        /\ InStage("queued") \cup InStage("running") = {}
    BY <1>8 DEF ProcPoolStopped
  <2>2. DryInv' /\ SuccessInv' /\ OutcomeInv'
    BY <1>1, <1>3, <2>1 DEF IInv, DryInv, SuccessInv, OutcomeInv, clientVars
  <2>3. \A i \in DOMAIN tasks : tasks[i].stage \in {"reported", "processed"}
    <3> SUFFICES ASSUME NEW i \in DOMAIN tasks
                 PROVE  tasks[i].stage \in {"reported", "processed"}
      OBVIOUS
    <3>1. tasks[i] \in Tasks
      BY LenProperties DEF IInv, TypeOK
    <3>2. tasks[i].stage \notin {"queued", "running"}
      BY <2>1 DEF InStage
    <3> QED
      BY <3>1, <3>2 DEF Tasks
  <2>4. PoolInv'
    BY <1>1, <2>1, <2>3 DEF IInv, PoolInv, clientVars
  <2> QED
    BY <1>0, <1>2, <2>2, <2>4 DEF IInv
<1> QED
  BY <1>4, <1>5, <1>6, <1>7, <1>8

\* Every step of every thread preserves the inductive invariant.
LEMMA NextInv == IInv /\ [Next]_vars => IInv'
<1> SUFFICES ASSUME IInv, [Next]_vars PROVE IInv'
  OBVIOUS
<1>1. CASE UNCHANGED vars
  <2>1. /\ TypeOK /\ QueueInv /\ StopInv /\ CountInv /\ DryInv
        /\ SuccessInv /\ OutcomeInv /\ PoolInv
    BY ONLY IInv DEF IInv
  <2>2. /\ UNCHANGED <<prod, lenSuccesses, batch, started, producerError, tasks, pool, queue>>
        /\ UNCHANGED <<proc, sawStop, finished, successes, failures, targetValue>>
        /\ UNCHANGED <<cancelled, bail, client, outcome>>
    BY ONLY <1>1 DEF vars, prodVars, procVars, clientVars
  <2>3. TypeOK'
    BY ONLY <2>1, <2>2 DEF TypeOK
  <2>4. QueueInv' /\ StopInv'
    BY ONLY <2>1, <2>2, Zenon DEF QueueInv, StopInv
  <2>5. InStage("processed")' = InStage("processed")
    BY ONLY <2>2 DEF InStage
  <2>6. CountInv' /\ DryInv'
    BY ONLY <2>1, <2>2, <2>5 DEF CountInv, DryInv
  <2>7. SuccessInv' /\ OutcomeInv' /\ PoolInv'
    BY ONLY <2>1, <2>2 DEF SuccessInv, OutcomeInv, PoolInv
  <2> QED
    BY ONLY <2>3, <2>4, <2>6, <2>7 DEF IInv
<1>2. CASE Producer
  BY <1>2, ProducerInv
<1>3. ASSUME NEW i \in DOMAIN tasks, Worker(i) PROVE IInv'
  BY <1>3, WorkerInv
<1>4. CASE Processor
  BY <1>4, ProcGetInv, ProcLeaveInv DEF Processor
<1>5. CASE Bail
  BY <1>5, BailInv
<1>6. ASSUME NEW c \in Clients, Client(c) PROVE IInv'
  BY <1>6, ClientInv
<1> QED
  BY <1>1, <1>2, <1>3, <1>4, <1>5, <1>6 DEF Next, NextButProducer

\* The inductive invariant holds throughout; type correctness is part of it.
THEOREM InductiveInvariant == Spec => []IInv
BY InitInv, NextInv, PTL DEF Spec

-----------------------------------------------------------------------------
(* The safety properties. *)

\* Every reachable state of the pool is well typed.
THEOREM TypeCorrect == Spec => []TypeOK
<1>1. IInv => TypeOK
  BY DEF IInv
<1> QED
  BY <1>1, InductiveInvariant, PTL

\* _successes never outgrows target_successes, and the value handed to the
\* waiting clients holds exactly that many, for every target and pool size.
THEOREM SuccessesBounded == Spec => []SuccessesWithinTarget
<1>1. IInv => SuccessesWithinTarget
  BY DEF IInv, SuccessInv, SuccessesWithinTarget
<1> QED
  BY <1>1, InductiveInvariant, PTL

\* OutOfValues is only raised when the producer has stopped and every started
\* task was read, although the counters are compared without a lock.
THEOREM OutOfValuesFinal == Spec => []OutOfValuesIsFinal
<1>1. IInv => OutOfValuesIsFinal
  <2> SUFFICES ASSUME IInv, targetValue.kind = "PRODUCER_STOPPED"
               PROVE  prod = "done" /\ queue = <<>> /\ InStage("processed") = DOMAIN tasks
    BY DEF OutOfValuesIsFinal
  <2>1. sawStop /\ InStage("processed") = DOMAIN tasks
    BY DEF IInv, DryInv
  <2>2. prod = "done"
    BY <2>1 DEF IInv, StopInv
  <2>3. ASSUME queue # <<>> PROVE FALSE
    <3>1. 1 \in DOMAIN queue
      BY <2>3, HeadOfQueue DEF IInv
    <3>2. queue[1] # ProducerStopped
      BY <2>1, <3>1 DEF IInv, StopInv
    <3>3. queue[1].task \in DOMAIN tasks /\ tasks[queue[1].task].stage = "reported"
      BY <3>1, <3>2 DEF IInv, QueueInv
    <3> QED
      BY <2>1, <3>3 DEF InStage
  <2> QED
    BY <2>1, <2>2, <2>3
<1> QED
  BY <1>1, InductiveInvariant, PTL

\* OutOfValues means that the target number was not reached.
THEOREM OutOfValuesShort == Spec => []OutOfValuesMeansShort
<1>1. IInv => OutOfValuesMeansShort
  BY DEF IInv, SuccessInv, OutOfValuesMeansShort
<1> QED
  BY <1>1, InductiveInvariant, PTL

\* All calls of block_until_target_successes() that wait agree.
THEOREM OutcomesAgree == Spec => []ClientsAgree
<1>1. IInv => ClientsAgree
  BY Zenon DEF IInv, OutcomeInv, ClientsAgree
<1> QED
  BY <1>1, InductiveInvariant, PTL

\* After join() no task of the pool is queued or running.
THEOREM JoinIsQuiet == Spec => []JoinedMeansQuiet
<1>1. IInv => JoinedMeansQuiet
  BY DEF IInv, PoolInv, JoinedMeansQuiet
<1> QED
  BY <1>1, InductiveInvariant, PTL
=============================================================================
