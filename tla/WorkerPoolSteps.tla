---------------------------- MODULE WorkerPoolSteps ----------------------------
(***************************************************************************)
(* Lemmas for WorkerPoolProofs: every thread's steps keep the types, and   *)
(* those of the producer and the pool's threads preserve the inductive     *)
(* invariant.                                                              *)
(***************************************************************************)
EXTENDS WorkerPool, SequenceTheorems, FiniteSetTheorems, TLAPS

-----------------------------------------------------------------------------
(* Sequences: what Tail and Append do to the elements of the result queue.  *)

\* A batch is a sequence of values.
LEMMA BatchesAreSequences ==
    ASSUME NEW n, NEW b \in Batches(n), n \in Int
    PROVE  b \in Seq(Values)
<1>1. PICK k \in 1..n : b \in [1..k -> Values]
  BY DEF Batches
<1>2. k \in Nat
  OBVIOUS
<1> QED
  BY <1>1, <1>2, SeqDef

\* Reading a result removes the head and keeps the order of the rest.
LEMMA TailElements ==
    ASSUME NEW S, NEW s \in Seq(S), s # <<>>
    PROVE  /\ Tail(s) \in Seq(S)
           /\ Head(s) = s[1]
           /\ 1 \in DOMAIN s
           /\ Len(Tail(s)) = Len(s) - 1
           /\ \A k \in DOMAIN Tail(s) : k + 1 \in DOMAIN s /\ Tail(s)[k] = s[k + 1]
<1>1. /\ Len(s) \in Nat /\ DOMAIN s = 1..Len(s)
      /\ Len(s) # 0
  BY LenProperties, EmptySeq
<1>2. /\ Tail(s) \in Seq(S) /\ Len(Tail(s)) = Len(s) - 1
      /\ \A i \in 1..Len(Tail(s)) : Tail(s)[i] = s[i + 1]
  BY HeadTailProperties
<1>3. DOMAIN Tail(s) = 1..Len(Tail(s))
  BY <1>2, LenProperties
<1> QED
  BY <1>1, <1>2, <1>3

\* Reporting a result adds it at the end.
LEMMA AppendElements ==
    ASSUME NEW S, NEW s \in Seq(S), NEW e \in S
    PROVE  /\ Append(s, e) \in Seq(S)
           /\ Len(s) \in Nat
           /\ Len(Append(s, e)) = Len(s) + 1
           /\ DOMAIN s = 1..Len(s)
           /\ DOMAIN Append(s, e) = 1..(Len(s) + 1)
           /\ \A k \in DOMAIN s : Append(s, e)[k] = s[k]
           /\ Append(s, e)[Len(s) + 1] = e
BY AppendProperties, LenProperties

-----------------------------------------------------------------------------
(* Type correctness. *)

\* Moving task i to another stage changes nothing else about the tasks.
LEMMA StageUpdate ==
    ASSUME NEW ts \in Seq(Tasks), NEW i \in DOMAIN ts,
           NEW s \in {"queued", "running", "reported", "processed"}
    PROVE  LET us == [ts EXCEPT ![i].stage = s]
           IN  /\ us \in Seq(Tasks)
               /\ Len(us) = Len(ts)
               /\ DOMAIN us = DOMAIN ts
               /\ us[i].stage = s
               /\ \A j \in DOMAIN ts : j # i => us[j] = ts[j]
<1> DEFINE us == [ts EXCEPT ![i].stage = s]
<1>1. /\ Len(ts) \in Nat /\ DOMAIN ts = 1..Len(ts)
      /\ ts \in [1..Len(ts) -> Tasks]
  BY LenProperties
<1>2. ts[i] \in Tasks
  BY <1>1
<1>3. [ts[i] EXCEPT !.stage = s] \in Tasks /\ [ts[i] EXCEPT !.stage = s].stage = s
  BY <1>2 DEF Tasks
<1>4. us = [ts EXCEPT ![i] = [ts[i] EXCEPT !.stage = s]]
  BY <1>1
<1> QED
  BY <1>1, <1>3, <1>4, ExceptSeq

\* The markers and records the model builds have their types.
LEMMA MessageTypes ==
    /\ ProducerStopped \in Messages
    /\ \A i \in Nat, k \in {"success", "failure", "cancelled"} :
          /\ Message(i, k) \in Messages
          /\ Message(i, k).task = i
          /\ Message(i, k).kind = k
    /\ ProducerStopped.task = 0 /\ ProducerStopped.kind = "PRODUCER_STOPPED"
BY DEF ProducerStopped, Message, Messages

\* Future._set keeps the future a result.
LEMMA SetTargetValueType ==
    ASSUME TypeOK, NEW r \in Results, SetTargetValue(r)
    PROVE  targetValue' \in Results
BY DEF SetTargetValue, TypeOK

LEMMA InitType == Init => TypeOK
<1>1. Unset \in Results
  BY DEF Results, Result, Unset
<1>2. <<>> \in Seq(Values) /\ <<>> \in Seq(Tasks) /\ <<>> \in Seq(Messages)
  BY EmptySeq
<1> SUFFICES ASSUME Init PROVE TypeOK
  OBVIOUS
<1>3. /\ client \in [Clients -> {"idle", "wait", "cancel", "join", "joined", "raised"}]
      /\ outcome \in [Clients -> Results]
  BY <1>1 DEF Init
<1>4. /\ batch \in Seq(Values) /\ tasks \in Seq(Tasks) /\ queue \in Seq(Messages)
      /\ targetValue \in Results
  BY <1>1, <1>2 DEF Init
<1> QED
  BY <1>3, <1>4, Zenon DEF Init, TypeOK

\* The producer's steps keep the types; a batch is not empty while its values
\* are handed over.
LEMMA ProducerType ==
    ASSUME TypeOK, prod = "enqueue" => batch # <<>>, IsFiniteSet(successes), Producer
    PROVE  TypeOK'
<1> USE DEF TypeOK, prodVars, procVars, clientVars
<1>1. ASSUME NEW b \in Batches(MaxTasks - started), ProdBatch(b) PROVE TypeOK'
  <2>1. b \in Seq(Values)
    BY BatchesAreSequences, MaxTasksAssumption
  <2>2. Len(b) \in Nat
    BY <2>1, LenProperties
  <2> QED
    BY <1>1, <2>1, <2>2 DEF ProdBatch
<1>2. CASE ProdRead
  BY <1>2, FS_CardinalityType DEF ProdRead
<1>3. CASE ProdNoBatch
  BY <1>3 DEF ProdNoBatch
<1>4. CASE ProdEnqueue
  <2>1. Head(batch) \in Values /\ Tail(batch) \in Seq(Values)
    BY <1>4, HeadTailProperties DEF ProdEnqueue
  <2>2. [value |-> Head(batch), stage |-> "queued"] \in Tasks
    BY <2>1 DEF Tasks
  <2>3. tasks' \in Seq(Tasks)
    BY <1>4, <2>2, AppendElements DEF ProdEnqueue
  <2> QED
    BY <1>4, <2>1, <2>3 DEF ProdEnqueue, NextOfBatch
<1>5. CASE ProdEnqueueStopped
  <2>1. Tail(batch) \in Seq(Values)
    BY <1>5, HeadTailProperties DEF ProdEnqueueStopped
  <2>2. batch' \in Seq(Values) /\ prod' \in {"sleep", "enqueue", "error"}
    BY <1>5, <2>1, Zenon DEF ProdEnqueueStopped, NextOfBatch
  <2>3. UNCHANGED <<lenSuccesses, started, producerError, tasks, pool, queue, procVars,
                    targetValue, cancelled, bail, clientVars>>
    BY ONLY <1>5 DEF ProdEnqueueStopped
  <2> QED
    BY ONLY TypeOK, <2>2, <2>3 DEF TypeOK, procVars, clientVars
<1>6. CASE ProdSleep
  BY <1>6 DEF ProdSleep
<1>7. CASE ProdError
  BY <1>7 DEF ProdError
<1>8. CASE ProdErrorCancel
  BY <1>8 DEF ProdErrorCancel
<1>9. CASE ProdStop
  <2>1. queue' \in Seq(Messages)
    BY <1>9, MessageTypes, AppendElements DEF ProdStop
  <2> QED
    BY <1>9, <2>1 DEF ProdStop
<1> QED
  BY <1>1, <1>2, <1>3, <1>4, <1>5, <1>6, <1>7, <1>8, <1>9
  DEF Producer, ProducerButBatch

LEMMA WorkerType ==
    ASSUME TypeOK, NEW i \in DOMAIN tasks, Worker(i)
    PROVE  TypeOK'
<1>0. tasks \in Seq(Tasks)
  BY DEF TypeOK
<1>a. /\ [tasks EXCEPT ![i].stage = "running"] \in Seq(Tasks)
      /\ [tasks EXCEPT ![i].stage = "reported"] \in Seq(Tasks)
  BY <1>0, StageUpdate, Zenon
<1> USE DEF TypeOK, prodVars, procVars, clientVars
<1>1. i \in Nat
  BY LenProperties
<1>2. CASE WorkerStart(i)
  <2>1. tasks' \in Seq(Tasks)
    BY <1>2, <1>a DEF WorkerStart
  <2> QED
    BY <1>2, <2>1 DEF WorkerStart
<1>3. ASSUME NEW k \in {"success", "failure", "cancelled"}, Report(i, k)
      PROVE  TypeOK'
  <2>1. tasks' \in Seq(Tasks)
    BY <1>3, <1>a DEF Report
  <2>2. queue' \in Seq(Messages)
    BY <1>1, <1>3, MessageTypes, AppendElements DEF Report
  <2> QED
    BY <1>3, <2>1, <2>2 DEF Report
<1> QED
  BY <1>2, <1>3 DEF Worker, WorkerCancelled, WorkerFinish

\* The head of the result queue is the producer's marker, or reports a task
\* whose result was not read before.
LEMMA HeadOfQueue ==
    ASSUME TypeOK, QueueInv, queue # <<>>
    PROVE  /\ Head(queue) = queue[1]
           /\ 1 \in DOMAIN queue
           /\ Head(queue).kind = "PRODUCER_STOPPED" => Head(queue) = ProducerStopped
           /\ Head(queue).kind # "PRODUCER_STOPPED" =>
                 /\ Head(queue).task \in DOMAIN tasks
                 /\ tasks[Head(queue).task].stage = "reported"
<1>1. Head(queue) = queue[1] /\ 1 \in DOMAIN queue
  BY TailElements DEF TypeOK
<1> QED
  BY <1>1, MessageTypes DEF QueueInv

LEMMA ProcessorType ==
    ASSUME TypeOK, QueueInv, Processor
    PROVE  TypeOK'
<1> USE DEF TypeOK, prodVars, procVars, clientVars
<1>1. CASE ProcGetStopped
  <2>1. queue' \in Seq(Messages)
    BY <1>1, TailElements DEF ProcGetStopped
  <2> QED
    BY <1>1, <2>1 DEF ProcGetStopped, AfterResult
<1>2. CASE ProcGetResult
  <2> DEFINE i == Head(queue).task
  <2>1. i \in DOMAIN tasks
    BY <1>2, HeadOfQueue DEF ProcGetResult
  <2>2. queue' \in Seq(Messages)
    BY <1>2, TailElements DEF ProcGetResult
  <2>3. tasks' = [tasks EXCEPT ![i].stage = "processed"]
    BY <1>2 DEF ProcGetResult
  <2>4. tasks' \in Seq(Tasks)
    <3>1. [tasks EXCEPT ![i].stage = "processed"] \in Seq(Tasks)
      <4> HIDE DEF i
      <4> QED BY <2>1, StageUpdate, Zenon
    <3> QED
      BY <2>3, <3>1
  <2>5. tasks[i].value \in Values
    <3> HIDE DEF i
    <3>1. tasks[i] \in Tasks
      BY <2>1, LenProperties
    <3> QED
      BY <3>1 DEF Tasks
  <2>6. successes' \in SUBSET Values /\ failures' \in SUBSET Values
    BY <1>2, <2>5 DEF ProcGetResult
  <2>7. proc' \in {"get", "setTarget", "outCancel"} /\ finished' \in Nat
    BY <1>2 DEF ProcGetResult, AfterResult
  <2> QED
    <3>1. UNCHANGED <<prodVars, pool, sawStop, targetValue, cancelled, bail, clientVars>>
      BY ONLY <1>2 DEF ProcGetResult
    <3> QED
      BY ONLY TypeOK, <2>2, <2>4, <2>6, <2>7, <3>1 DEF TypeOK, prodVars, clientVars
<1>3. CASE ProcSetTarget
  <2>1. Result("successes", successes) \in Results
    BY DEF Result, Results
  <2>2. targetValue' \in Results
    BY <1>3, <2>1, SetTargetValueType DEF ProcSetTarget
  <2> QED
    BY <1>3, <2>2 DEF ProcSetTarget
<1>4. CASE ProcCancel
  BY <1>4 DEF ProcCancel
<1>5. CASE ProcOutSet
  <2>1. Result("PRODUCER_STOPPED", {}) \in Results
    BY DEF Result, Results
  <2>2. targetValue' \in Results
    BY <1>5, <2>1, SetTargetValueType DEF ProcOutSet
  <2> QED
    BY <1>5, <2>2 DEF ProcOutSet
<1>6. CASE ProcStopPool
  BY <1>6 DEF ProcStopPool
<1>7. CASE ProcPoolStopped
  BY <1>7 DEF ProcPoolStopped
<1> QED
  BY <1>1, <1>2, <1>3, <1>4, <1>5, <1>6, <1>7 DEF Processor

LEMMA BailType ==
    ASSUME TypeOK, Bail
    PROVE  TypeOK'
<1> USE DEF TypeOK, prodVars, procVars, clientVars
<1>1. CASE BailWake
  BY <1>1 DEF BailWake
<1>2. CASE BailSet
  <2>1. Result("TIMEOUT_TRIGGERED", {}) \in Results
    BY DEF Result, Results
  <2>2. targetValue' \in Results
    BY <1>2, <2>1, SetTargetValueType DEF BailSet
  <2> QED
    BY <1>2, <2>2 DEF BailSet
<1>3. CASE BailCancel
  BY <1>3 DEF BailCancel
<1> QED
  BY <1>1, <1>2, <1>3 DEF Bail

LEMMA ClientType ==
    ASSUME TypeOK, NEW c \in Clients, Client(c)
    PROVE  TypeOK'
<1> USE DEF TypeOK, prodVars, procVars, clientVars
<1>1. CASE ClientBlock(c)
  <2>1. Result("error", {}) \in Results
    BY DEF Result, Results
  <2>2. outcome' \in [Clients -> Results]
    BY <1>1, <2>1 DEF ClientBlock
  <2> QED
    BY <1>1, <2>2 DEF ClientBlock
<1>2. CASE ClientGet(c)
  BY <1>2 DEF ClientGet
<1>3. CASE ClientCancel(c)
  BY <1>3 DEF ClientCancel
<1>4. CASE ClientJoin(c)
  BY <1>4 DEF ClientJoin
<1> QED
  BY <1>1, <1>2, <1>3, <1>4 DEF Client

-----------------------------------------------------------------------------
(* The inductive invariant. *)

\* Some of the tasks are all of them if they are as many.
LEMMA StageCount ==
    ASSUME NEW ts \in Seq(Tasks), NEW S \in SUBSET (DOMAIN ts)
    PROVE  /\ IsFiniteSet(S)
           /\ Cardinality(S) \in Nat
           /\ Cardinality(S) <= Len(ts)
           /\ Cardinality(S) = Len(ts) => S = DOMAIN ts
<1>1. Len(ts) \in Nat /\ DOMAIN ts = 1..Len(ts)
  BY LenProperties
<1>2. IsFiniteSet(DOMAIN ts) /\ Cardinality(DOMAIN ts) = Len(ts)
  <2> DEFINE n == Len(ts)
  <2>1. 1 \in Int /\ n \in Int
    BY <1>1
  <2> HIDE DEF n
  <2>2. IsFiniteSet(1..n) /\ Cardinality(1..n) = IF 1 > n THEN 0 ELSE n - 1 + 1
    BY <2>1, FS_Interval
  <2> QED
    BY <1>1, <2>2 DEF n
<1> QED
  BY <1>2, FS_Subset, FS_CardinalityType

LEMMA InitInv == Init => IInv
<1> SUFFICES ASSUME Init PROVE IInv
  OBVIOUS
<1>1. TypeOK
  BY InitType
<1>2. DOMAIN queue = {} /\ DOMAIN tasks = {} /\ Len(tasks) = 0 /\ Len(batch) = 0
  BY DEF Init
<1>3. QueueInv /\ StopInv
  BY <1>2 DEF Init, QueueInv, StopInv
<1>4. InStage("processed") = {}
  BY <1>2 DEF InStage
<1>5. CountInv
  BY <1>2, <1>4, FS_EmptySet DEF Init, CountInv
<1>6. DryInv /\ OutcomeInv /\ PoolInv
  BY <1>2 DEF Init, DryInv, OutcomeInv, PoolInv, Unset, Result
<1>7. SuccessInv
  BY TargetAssumption, FS_EmptySet DEF Init, SuccessInv, Unset, Result
<1> QED
  BY <1>1, <1>3, <1>5, <1>6, <1>7 DEF IInv

\* Producer steps that touch neither the tasks nor the queue.
LEMMA QuietProducerInv ==
    ASSUME IInv, UNCHANGED <<tasks, pool, queue, procVars, targetValue, bail, clientVars>>,
           prod # "done",
           prod' = "enqueue" => batch' # <<>>,
           Len(tasks) + Len(batch') <= started'
    PROVE  (QueueInv /\ StopInv /\ CountInv /\ DryInv /\ SuccessInv /\ OutcomeInv
            /\ PoolInv)'
<1> USE DEF IInv, procVars, clientVars
<1>1. QueueInv' /\ OutcomeInv' /\ PoolInv' /\ SuccessInv'
  BY DEF QueueInv, OutcomeInv, PoolInv, SuccessInv
<1>2. StopInv'
  BY DEF StopInv
<1>3. CountInv' /\ DryInv'
  BY DEF CountInv, DryInv, InStage
<1> QED
  BY <1>1, <1>2, <1>3

LEMMA ProducerInv ==
    ASSUME IInv, Producer
    PROVE  IInv'
<1>0. TypeOK'
  BY ProducerType DEF IInv, StopInv, SuccessInv
<1>a. Len(batch) \in Nat /\ Len(tasks) \in Nat /\ started \in Nat
      /\ Len(tasks) + Len(batch) <= started
  BY LenProperties DEF IInv, TypeOK, CountInv
<1>b. batch # <<>> => /\ Len(Tail(batch)) = Len(batch) - 1 /\ Len(batch) # 0
                      /\ Len(batch) # 1 => Tail(batch) # <<>>
  <2>1. batch # <<>> => Len(Tail(batch)) = Len(batch) - 1 /\ Len(batch) # 0
    BY TailElements, EmptySeq, LenProperties DEF IInv, TypeOK
  <2>2. Tail(batch) = <<>> => Len(Tail(batch)) = 0
    <3>1. Len(<<>>) = 0
      OBVIOUS
    <3> QED
      BY <3>1, Zenon
  <2> QED
    BY <1>a, <2>1, <2>2
<1>1. ASSUME NEW b \in Batches(MaxTasks - started), ProdBatch(b) PROVE IInv'
  <2>1. b \in Seq(Values)
    BY BatchesAreSequences, MaxTasksAssumption DEF IInv, TypeOK
  <2>2. Len(b) \in Nat
    BY <2>1, LenProperties
  <2>3. prod = "factory" /\ batch' = b /\ b # <<>> /\ started' = started + Len(b)
    BY <1>1 DEF ProdBatch
  <2>4. Len(tasks) + Len(batch') <= started'
    BY <1>a, <2>2, <2>3
  <2> QED
    BY <1>0, <1>1, <2>3, <2>4, QuietProducerInv DEF ProdBatch, IInv
<1>2. CASE ProdRead
  BY <1>0, <1>a, <1>2, QuietProducerInv DEF ProdRead, IInv
<1>3. CASE ProdNoBatch
  BY <1>0, <1>a, <1>3, QuietProducerInv DEF ProdNoBatch, IInv
<1>4. CASE ProdEnqueue
  <2>1. batch # <<>> /\ prod = "enqueue"
    BY <1>4 DEF ProdEnqueue, IInv, StopInv
  <2> DEFINE t == [value |-> Head(batch), stage |-> "queued"]
  <2>2. t \in Tasks
    BY <2>1, HeadTailProperties DEF Tasks, IInv, TypeOK
  <2>3. tasks' = Append(tasks, t)
    BY <1>4 DEF ProdEnqueue
  <2>4. t.stage = "queued"
    OBVIOUS
  <2> HIDE DEF t
  <2>5. /\ Len(tasks') = Len(tasks) + 1
        /\ DOMAIN tasks = 1..Len(tasks) /\ DOMAIN tasks' = 1..(Len(tasks) + 1)
        /\ \A i \in DOMAIN tasks : tasks'[i] = tasks[i]
        /\ tasks'[Len(tasks) + 1] = t
    BY <2>2, <2>3, AppendElements DEF IInv, TypeOK
  <2>6. InStage("processed")' = InStage("processed")
    BY <1>a, <2>4, <2>5 DEF InStage
  <2>7. /\ pool = "running" /\ ~sawStop
        /\ UNCHANGED <<started, pool, queue, procVars, targetValue, bail, clientVars>>
        /\ batch' = Tail(batch) /\ prod' \in {"sleep", "enqueue"}
        /\ prod' = "enqueue" => Len(batch) # 1
    BY <1>4, <2>1 DEF ProdEnqueue, NextOfBatch, IInv, StopInv
  <2>8. QueueInv'
    BY <1>a, <2>5, <2>7 DEF QueueInv, IInv
  <2>9. prod' = "enqueue" => batch' # <<>>
    BY <1>b, <2>1, <2>7
  <2>10. StopInv'
    BY <2>1, <2>7, <2>9 DEF StopInv, IInv, procVars
  <2>11. CountInv'
    BY <1>a, <1>b, <2>1, <2>5, <2>6, <2>7 DEF CountInv, IInv, procVars
  <2>12. DryInv'
    BY <2>6, <2>7 DEF DryInv, IInv, procVars
  <2>13. SuccessInv' /\ OutcomeInv'
    BY <2>7 DEF SuccessInv, OutcomeInv, IInv, procVars, clientVars
  <2>14. PoolInv'
    BY <2>7 DEF PoolInv, IInv, procVars, clientVars
  <2> QED
    BY <1>0, <2>8, <2>10, <2>11, <2>12, <2>13, <2>14 DEF IInv
<1>5. CASE ProdEnqueueStopped
  <2>1. batch # <<>> /\ prod = "enqueue"
    BY <1>5 DEF ProdEnqueueStopped, IInv, StopInv
  <2>2. /\ prod' = "enqueue" => Len(batch) # 1 /\ batch' = Tail(batch)
        /\ batch' = Tail(batch) \/ batch' = batch
        /\ started' = started
    BY <1>5, <2>1, Zenon DEF ProdEnqueueStopped, NextOfBatch
  <2>3. prod' = "enqueue" => batch' # <<>>
    BY <1>b, <2>1, <2>2
  <2>4. Len(tasks) + Len(batch') <= started'
    BY <1>a, <1>b, <2>1, <2>2
  <2> QED
    BY <1>0, <1>5, <2>1, <2>3, <2>4, QuietProducerInv DEF ProdEnqueueStopped, IInv
<1>6. CASE ProdSleep
  BY <1>0, <1>a, <1>6, QuietProducerInv DEF ProdSleep, IInv
<1>7. CASE ProdError
  BY <1>0, <1>a, <1>7, QuietProducerInv DEF ProdError, IInv
<1>8. CASE ProdErrorCancel
  BY <1>0, <1>a, <1>8, QuietProducerInv DEF ProdErrorCancel, IInv
<1>9. CASE ProdStop
  <2>1. /\ queue' = Append(queue, ProducerStopped) /\ prod = "stop" /\ prod' = "done"
        /\ UNCHANGED <<batch, started, tasks, pool, procVars, targetValue, clientVars>>
    BY <1>9 DEF ProdStop
  <2>2. /\ Len(queue) \in Nat
        /\ DOMAIN queue = 1..Len(queue) /\ DOMAIN queue' = 1..(Len(queue) + 1)
        /\ \A k \in DOMAIN queue : queue'[k] = queue[k]
        /\ queue'[Len(queue) + 1] = ProducerStopped
    BY <2>1, AppendElements, MessageTypes DEF IInv, TypeOK
  <2>3. \A k \in DOMAIN queue :
           /\ queue[k] # ProducerStopped
           /\ queue[k].kind # "PRODUCER_STOPPED"
           /\ queue[k].task \in DOMAIN tasks
           /\ tasks[queue[k].task].stage = "reported"
           /\ queue[k].task # 0
    BY <2>1, LenProperties DEF IInv, TypeOK, StopInv, QueueInv
  <2>4. QueueInv'
    BY <2>1, <2>2, <2>3, MessageTypes DEF QueueInv, IInv
  <2>5. StopInv'
    BY <2>1, <2>2, <2>3 DEF StopInv, IInv, procVars
  <2>6. CountInv' /\ DryInv'
    BY <2>1 DEF CountInv, DryInv, InStage, IInv, procVars
  <2>7. SuccessInv' /\ OutcomeInv' /\ PoolInv'
    BY <2>1 DEF SuccessInv, OutcomeInv, PoolInv, IInv, procVars, clientVars
  <2> QED
    BY <1>0, <2>4, <2>5, <2>6, <2>7 DEF IInv
<1> QED
  BY <1>1, <1>2, <1>3, <1>4, <1>5, <1>6, <1>7, <1>8, <1>9
  DEF Producer, ProducerButBatch

\* A task that is not finished leaves the processed ones, hence the counters,
\* alone; it cannot be taken for one on the way out.
LEMMA WorkerInv ==
    ASSUME IInv, NEW i \in DOMAIN tasks, Worker(i)
    PROVE  IInv'
<1>0. TypeOK'
  BY WorkerType DEF IInv
<1>1. /\ tasks \in Seq(Tasks) /\ queue \in Seq(Messages)
      /\ i \in Nat /\ i # 0 /\ DOMAIN tasks = 1..Len(tasks)
  BY LenProperties DEF IInv, TypeOK
<1>2. PICK s \in {"running", "reported"} : tasks' = [tasks EXCEPT ![i].stage = s]
  BY DEF Worker, WorkerStart, WorkerCancelled, WorkerFinish, Report
<1>3. /\ Len(tasks') = Len(tasks) /\ DOMAIN tasks' = DOMAIN tasks
      /\ tasks'[i].stage = s
      /\ \A j \in DOMAIN tasks : j # i => tasks'[j] = tasks[j]
  <2>1. s \in {"queued", "running", "reported", "processed"}
    OBVIOUS
  <2> QED
    BY <1>1, <1>2, <2>1, StageUpdate
<1>4. tasks[i].stage \in {"queued", "running"}
  BY DEF Worker, WorkerStart, WorkerCancelled, WorkerFinish, NextQueued
<1>5. InStage("processed")' = InStage("processed")
  BY <1>3, <1>4 DEF InStage
<1>6. UNCHANGED <<prodVars, pool, procVars, targetValue, cancelled, bail, clientVars>>
  BY DEF Worker, WorkerStart, WorkerCancelled, WorkerFinish, Report
<1>7. \A k \in DOMAIN queue : queue[k].task # i
  <2> SUFFICES ASSUME NEW k \in DOMAIN queue PROVE queue[k].task # i
    OBVIOUS
  <2>1. CASE queue[k] = ProducerStopped
    BY <1>1, <2>1, MessageTypes
  <2>2. CASE tasks[queue[k].task].stage = "reported"
    BY <1>4, <2>2
  <2> QED
    BY <2>1, <2>2 DEF IInv, QueueInv
<1>8. QueueInv' /\ StopInv'
  <2>1. CASE queue' = queue
    <3>1. QueueInv'
      BY <1>3, <1>7, <2>1 DEF QueueInv, IInv
    <3>2. StopInv'
      BY <1>6, <2>1 DEF StopInv, IInv, prodVars, procVars
    <3> QED
      BY <3>1, <3>2
  <2>2. ASSUME NEW k \in {"success", "failure", "cancelled"}, Report(i, k)
        PROVE  QueueInv' /\ StopInv'
    <3> DEFINE m == Message(i, k)
    <3>1. /\ m \in Messages /\ m.task = i /\ m.kind # "PRODUCER_STOPPED"
          /\ m # ProducerStopped
      BY <1>1, MessageTypes
    <3>2. queue' = Append(queue, m)
      BY <2>2 DEF Report
    <3> HIDE DEF m
    <3>3. /\ Len(queue) \in Nat
          /\ DOMAIN queue = 1..Len(queue) /\ DOMAIN queue' = 1..(Len(queue) + 1)
          /\ \A l \in DOMAIN queue : queue'[l] = queue[l]
          /\ queue'[Len(queue) + 1] = m
      BY <1>1, <3>1, <3>2, AppendElements
    <3>4. tasks'[i].stage = "reported"
      BY <1>1, <2>2, StageUpdate DEF Report
    <3>5. QueueInv'
      <4>1. ASSUME NEW l \in DOMAIN queue'
            PROVE  \/ queue'[l] = ProducerStopped
                   \/ /\ queue'[l].kind # "PRODUCER_STOPPED"
                      /\ queue'[l].task \in DOMAIN tasks'
                      /\ tasks'[queue'[l].task].stage = "reported"
        <5>1. CASE l = Len(queue) + 1
          BY <1>3, <3>1, <3>3, <3>4, <5>1
        <5>2. CASE l \in DOMAIN queue
          BY <1>3, <1>7, <3>3, <5>2 DEF QueueInv, IInv
        <5> QED
          BY <3>3, <5>1, <5>2
      <4>2. ASSUME NEW l \in DOMAIN queue', NEW n \in DOMAIN queue', l # n
            PROVE  queue'[l].task # queue'[n].task
        <5>1. l \in DOMAIN queue \/ l = Len(queue) + 1
          BY <3>3
        <5>2. n \in DOMAIN queue \/ n = Len(queue) + 1
          BY <3>3
        <5> QED
          BY <1>7, <3>1, <3>3, <4>2, <5>1, <5>2 DEF QueueInv, IInv
      <4> QED
        BY ONLY <4>1, <4>2 DEF QueueInv
    <3>6. StopInv'
      BY <1>6, <3>1, <3>3 DEF StopInv, IInv, prodVars, procVars
    <3> QED
      BY <3>5, <3>6
  <2> QED
    BY <2>1, <2>2 DEF Worker, WorkerStart, WorkerCancelled, WorkerFinish
<1>9. CountInv' /\ DryInv'
  BY <1>3, <1>5, <1>6 DEF CountInv, DryInv, IInv, prodVars, procVars
<1>10. SuccessInv' /\ OutcomeInv'
  BY <1>6 DEF SuccessInv, OutcomeInv, IInv, procVars, clientVars
<1>11. PoolInv'
  BY <1>3, <1>4, <1>6 DEF PoolInv, IInv, procVars, clientVars
<1> QED
  BY <1>0, <1>8, <1>9, <1>10, <1>11 DEF IInv
=============================================================================
