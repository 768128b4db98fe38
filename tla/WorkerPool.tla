------------------------------ MODULE WorkerPool ------------------------------
(***************************************************************************)
(* The thread pool of nucypher/utilities/concurrency.py.  A WorkerPool     *)
(* runs three service threads (the producer _produce_values, the processor *)
(* _process_results and the timer _bail_on_timeout) beside the threads of  *)
(* a Twisted ThreadPool, and any number of client threads call             *)
(* block_until_target_successes(), cancel() and join() on it.              *)
(*                                                                         *)
(* What a worker computes is abstracted to whether it succeeds; the value  *)
(* factory is any callable, so it may return any batch, nothing, or raise. *)
(* Every step below is what one thread does between two points at which    *)
(* another thread can observe or change shared state.                      *)
(***************************************************************************)
EXTENDS Naturals, Sequences, FiniteSets

CONSTANTS Values,    \* what the value factory may produce
          Target,    \* target_successes
          PoolSize,  \* maximum number of threads of the Twisted pool
          MaxTasks,  \* bound: tasks produced in one behaviour
          Clients    \* threads using the pool

\* The callers ask for at least one success (a threshold or a quantity).
ASSUME TargetAssumption == Target \in Nat \ {0}
ASSUME PoolSizeAssumption == PoolSize \in Nat \ {0}
ASSUME MaxTasksAssumption == MaxTasks \in Nat

VARIABLES prod,           \* where the producer thread is
          lenSuccesses,   \* the producer's local len_successes
          batch,          \* values of the current batch not handed over yet
          started,        \* _started_tasks
          tasks,          \* tasks handed to the Twisted pool, oldest first
          pool,           \* state of the Twisted pool
          queue,          \* _result_queue
          proc,           \* where the processor thread is
          sawStop,        \* the processor's local producer_stopped
          finished,       \* _finished_tasks
          successes,      \* keys of _successes
          failures,       \* keys of _failures
          targetValue,    \* the future _target_value
          producerError,  \* the future _producer_error is set
          cancelled,      \* _cancel_event
          bail,           \* where the timer thread is
          client,         \* where each client thread is
          outcome         \* what block_until_target_successes() gave a client

prodVars   == <<prod, lenSuccesses, batch, started, producerError>>
procVars   == <<proc, sawStop, finished, successes, failures>>
clientVars == <<client, outcome>>
vars == <<prodVars, tasks, pool, queue, procVars, targetValue, cancelled,
          bail, clientVars>>

(***************************************************************************)
(* A message of the result queue reports task m.task, or is the marker     *)
(* PRODUCER_STOPPED (task 0).                                              *)
(***************************************************************************)
Message(i, k) == [task |-> i, kind |-> k]
ProducerStopped == Message(0, "PRODUCER_STOPPED")
Messages == [task : Nat, kind : {"success", "failure", "cancelled",
                                 "PRODUCER_STOPPED"}]

Result(k, S) == [kind |-> k, values |-> S]
Unset == Result("unset", {})
Results == [kind : {"unset", "successes", "TIMEOUT_TRIGGERED",
                    "PRODUCER_STOPPED", "error"},
            values : SUBSET Values]

Tasks == [value : Values, stage : {"queued", "running", "reported", "processed"}]

InStage(s) == {i \in DOMAIN tasks : tasks[i].stage = s}

Init ==
    /\ prod = "read" /\ lenSuccesses = 0 /\ batch = <<>> /\ started = 0
    /\ producerError = FALSE
    /\ tasks = <<>> /\ pool = "running" /\ queue = <<>>
    /\ proc = "get" /\ sawStop = FALSE /\ finished = 0
    /\ successes = {} /\ failures = {}
    /\ targetValue = Unset /\ cancelled = FALSE /\ bail = "wait"
    /\ client = [c \in Clients |-> "idle"]
    /\ outcome = [c \in Clients |-> Unset]

\* Mutant: Future._set overwrites.
MSetTargetValue(r) == targetValue' = r

\* Future._set: all sets after the first are ignored.
SetTargetValue(r) ==
    targetValue' = IF targetValue = Unset THEN r ELSE targetValue

-----------------------------------------------------------------------------
(* The producer thread, _produce_values. *)

ProdRead ==
    /\ prod = "read"
    /\ lenSuccesses' = Cardinality(successes)
    /\ prod' = "factory"
    /\ UNCHANGED <<batch, started, producerError, tasks, pool, queue, procVars,
                   targetValue, cancelled, bail, clientVars>>

\* Mutant: a batch is counted as one started task.
MProdBatchUncounted(b) ==
    /\ prod = "factory"
    /\ b # <<>>
    /\ batch' = b
    /\ started' = started + 1
    /\ prod' = "enqueue"
    /\ UNCHANGED <<lenSuccesses, producerError, tasks, pool, queue, procVars,
                   targetValue, cancelled, bail, clientVars>>

\* _value_factory returns a non-empty batch b.
ProdBatch(b) ==
    /\ prod = "factory"
    /\ b # <<>>
    /\ batch' = b
    /\ started' = started + Len(b)
    /\ prod' = "enqueue"
    /\ UNCHANGED <<lenSuccesses, producerError, tasks, pool, queue, procVars,
                   targetValue, cancelled, bail, clientVars>>

\* _value_factory returns nothing, or raises.
ProdNoBatch ==
    /\ prod = "factory"
    /\ prod' \in {"stop", "error"}
    /\ UNCHANGED <<lenSuccesses, batch, started, producerError, tasks, pool,
                   queue, procVars, targetValue, cancelled, bail, clientVars>>

\* The rest of the for loop over the batch, after one value was handed over.
NextOfBatch ==
    /\ batch' = Tail(batch)
    /\ prod' = IF Len(batch) = 1 THEN "sleep" ELSE "enqueue"

\* callInThread on a live pool appends to the pool's queue.
ProdEnqueue ==
    /\ prod = "enqueue"
    /\ pool = "running"
    /\ tasks' = Append(tasks, [value |-> Head(batch), stage |-> "queued"])
    /\ NextOfBatch
    /\ UNCHANGED <<lenSuccesses, started, producerError, pool, queue, procVars,
                   targetValue, cancelled, bail, clientVars>>

\* callInThread on a pool that stop() was called on: the call is dropped, or,
\* when stop() ran between callInThread's check and its hand-over, raises.
ProdEnqueueStopped ==
    /\ prod = "enqueue"
    /\ pool # "running"
    /\ \/ NextOfBatch
       \/ prod' = "error" /\ UNCHANGED batch
    /\ UNCHANGED <<lenSuccesses, started, producerError, tasks, pool, queue,
                   procVars, targetValue, cancelled, bail, clientVars>>

\* _sleep(_stagger_timeout) ends, raising Cancelled if the event is set.
ProdSleep ==
    /\ prod = "sleep"
    /\ prod' = IF cancelled THEN "stop" ELSE "read"
    /\ UNCHANGED <<lenSuccesses, batch, started, producerError, tasks, pool,
                   queue, procVars, targetValue, cancelled, bail, clientVars>>

ProdError ==
    /\ prod = "error"
    /\ producerError' = TRUE
    /\ prod' = "errorCancel"
    /\ UNCHANGED <<lenSuccesses, batch, started, tasks, pool, queue, procVars,
                   targetValue, cancelled, bail, clientVars>>

ProdErrorCancel ==
    /\ prod = "errorCancel"
    /\ cancelled' = TRUE
    /\ prod' = "stop"
    /\ UNCHANGED <<lenSuccesses, batch, started, producerError, tasks, pool,
                   queue, procVars, targetValue, bail, clientVars>>

ProdStop ==
    /\ prod = "stop"
    /\ queue' = Append(queue, ProducerStopped)
    /\ prod' = "done"
    /\ UNCHANGED <<lenSuccesses, batch, started, producerError, tasks, pool,
                   procVars, targetValue, cancelled, bail, clientVars>>

Batches(n) == UNION {[1..k -> Values] : k \in 1..n}

\* Everything but the value factory's choice of a batch.
ProducerButBatch ==
    \/ ProdRead \/ ProdNoBatch \/ ProdEnqueue \/ ProdEnqueueStopped
    \/ ProdSleep \/ ProdError \/ ProdErrorCancel \/ ProdStop

Producer ==
    \/ \E b \in Batches(MaxTasks - started) : ProdBatch(b)
    \/ ProducerButBatch

-----------------------------------------------------------------------------
(* A thread of the Twisted pool running _worker_wrapper on task i.          *)

\* The pool hands out its queue in order to whichever thread is free.
NextQueued(i) ==
    /\ tasks[i].stage = "queued"
    /\ \A j \in 1..(i - 1) : tasks[j].stage # "queued"
    /\ Cardinality(InStage("running")) < PoolSize

\* _sleep(0) finds the event not set and the worker is called.
WorkerStart(i) ==
    /\ NextQueued(i)
    /\ ~cancelled
    /\ tasks' = [tasks EXCEPT ![i].stage = "running"]
    /\ UNCHANGED <<prodVars, pool, queue, procVars, targetValue, cancelled,
                   bail, clientVars>>

\* Mutant: a cancelled task does not report.
MReportNotCancelled(i, k) ==
    /\ tasks' = [tasks EXCEPT ![i].stage = "reported"]
    /\ queue' = IF k = "cancelled" THEN queue ELSE Append(queue, Message(i, k))
    /\ UNCHANGED <<prodVars, pool, procVars, targetValue, cancelled, bail,
                   clientVars>>

Report(i, k) ==
    /\ tasks' = [tasks EXCEPT ![i].stage = "reported"]
    /\ queue' = Append(queue, Message(i, k))
    /\ UNCHANGED <<prodVars, pool, procVars, targetValue, cancelled, bail,
                   clientVars>>

\* _sleep(0) raises Cancelled.
WorkerCancelled(i) ==
    /\ NextQueued(i)
    /\ cancelled
    /\ Report(i, "cancelled")

\* The worker returns or raises.
WorkerFinish(i) ==
    /\ tasks[i].stage = "running"
    /\ \E k \in {"success", "failure"} : Report(i, k)

Worker(i) == WorkerStart(i) \/ WorkerCancelled(i) \/ WorkerFinish(i)

-----------------------------------------------------------------------------
(* The processor thread, _process_results. *)

\* Mutants of AfterResult: success does not leave the loop; exhaustion is decided
\* before success; exhaustion does not wait for the started tasks.
MAfterResultNoBreak(reached, stopped, fin) ==
    IF stopped /\ fin = started THEN "outCancel" ELSE "get"
MAfterResultDryFirst(reached, stopped, fin) ==
    IF stopped /\ fin = started THEN "outCancel"
    ELSE IF reached THEN "setTarget" ELSE "get"
MAfterResultNoCount(reached, stopped, fin) ==
    IF reached THEN "setTarget" ELSE IF stopped THEN "outCancel" ELSE "get"

\* Where the loop body continues: leave on success, leave when the producer
\* stopped and every started task is finished, or take the next result.
AfterResult(reached, stopped, fin) ==
    IF reached THEN "setTarget"
    ELSE IF stopped /\ fin = started THEN "outCancel" ELSE "get"

ProcGetStopped ==
    /\ proc = "get"
    /\ queue # <<>>
    /\ Head(queue).kind = "PRODUCER_STOPPED"
    /\ queue' = Tail(queue)
    /\ sawStop' = TRUE
    /\ proc' = AfterResult(FALSE, TRUE, finished)
    /\ UNCHANGED <<prodVars, tasks, pool, finished, successes, failures,
                   targetValue, cancelled, bail, clientVars>>

ProcGetResult ==
    /\ proc = "get"
    /\ queue # <<>>
    /\ Head(queue).kind # "PRODUCER_STOPPED"
    /\ LET m == Head(queue)
           v == tasks[m.task].value
       IN /\ successes' = IF m.kind = "success" THEN successes \cup {v} ELSE successes
          /\ failures' = IF m.kind = "failure" THEN failures \cup {v} ELSE failures
          /\ tasks' = [tasks EXCEPT ![m.task].stage = "processed"]
          /\ finished' = finished + 1
          /\ proc' = AfterResult(m.kind = "success" /\ Cardinality(successes') = Target,
                                 sawStop, finished')
    /\ queue' = Tail(queue)
    /\ UNCHANGED <<prodVars, pool, sawStop, targetValue, cancelled, bail, clientVars>>

ProcSetTarget ==
    /\ proc = "setTarget"
    /\ SetTargetValue(Result("successes", successes))
    /\ proc' = "cancel"
    /\ UNCHANGED <<prodVars, tasks, pool, queue, sawStop, finished, successes,
                   failures, cancelled, bail, clientVars>>

\* cancel() on either way out; "outCancel" has the future still to set.
ProcCancel ==
    /\ proc \in {"cancel", "outCancel"}
    /\ cancelled' = TRUE
    /\ proc' = IF proc = "cancel" THEN "stopPool" ELSE "outSet"
    /\ UNCHANGED <<prodVars, tasks, pool, queue, sawStop, finished, successes,
                   failures, targetValue, bail, clientVars>>

ProcOutSet ==
    /\ proc = "outSet"
    /\ SetTargetValue(Result("PRODUCER_STOPPED", {}))
    /\ proc' = "stopPool"
    /\ UNCHANGED <<prodVars, tasks, pool, queue, sawStop, finished, successes,
                   failures, cancelled, bail, clientVars>>

\* _stop_threadpool: ThreadPool.stop() refuses new calls at once, then waits
\* for its threads, which first empty the pool's queue.
ProcStopPool ==
    /\ proc = "stopPool"
    /\ pool' = "stopping"
    /\ proc' = "joinPool"
    /\ UNCHANGED <<prodVars, tasks, queue, sawStop, finished, successes,
                   failures, targetValue, cancelled, bail, clientVars>>

\* Mutant: stop() does not wait for the pool's threads.
MProcPoolStopped ==
    /\ proc = "joinPool"
    /\ pool' = "stopped"
    /\ proc' = "done"
    /\ UNCHANGED <<prodVars, tasks, queue, sawStop, finished, successes,
                   failures, targetValue, cancelled, bail, clientVars>>

ProcPoolStopped ==
    /\ proc = "joinPool"
    /\ InStage("queued") \cup InStage("running") = {}
    /\ pool' = "stopped"
    /\ proc' = "done"
    /\ UNCHANGED <<prodVars, tasks, queue, sawStop, finished, successes,
                   failures, targetValue, cancelled, bail, clientVars>>

Processor ==
    \/ ProcGetStopped \/ ProcGetResult \/ ProcSetTarget \/ ProcCancel
    \/ ProcOutSet \/ ProcStopPool \/ ProcPoolStopped

-----------------------------------------------------------------------------
(* The timer thread, _bail_on_timeout. *)

\* _cancel_event.wait(timeout) returns: TRUE if the event is set, and FALSE
\* when the time is up first.
BailWake ==
    /\ bail = "wait"
    /\ bail' = IF cancelled THEN "cancel" ELSE "set"
    /\ UNCHANGED <<prodVars, tasks, pool, queue, procVars, targetValue,
                   cancelled, clientVars>>

BailSet ==
    /\ bail = "set"
    /\ SetTargetValue(Result("TIMEOUT_TRIGGERED", {}))
    /\ bail' = "cancel"
    /\ UNCHANGED <<prodVars, tasks, pool, queue, procVars, cancelled, clientVars>>

BailCancel ==
    /\ bail = "cancel"
    /\ cancelled' = TRUE
    /\ bail' = "done"
    /\ UNCHANGED <<prodVars, tasks, pool, queue, procVars, targetValue, clientVars>>

Bail == BailWake \/ BailSet \/ BailCancel

-----------------------------------------------------------------------------
(* A client: block_until_target_successes() (or not), cancel(), join().    *)

\* block_until_target_successes() first looks for a producer error.
ClientBlock(c) ==
    /\ client[c] = "idle"
    /\ IF producerError
       THEN /\ client' = [client EXCEPT ![c] = "cancel"]
            /\ outcome' = [outcome EXCEPT ![c] = Result("error", {})]
       ELSE /\ client' = [client EXCEPT ![c] = "wait"]
            /\ UNCHANGED outcome
    /\ UNCHANGED <<prodVars, tasks, pool, queue, procVars, targetValue,
                   cancelled, bail>>

\* ... then waits for the future; TIMEOUT_TRIGGERED is raised as TimedOut and
\* PRODUCER_STOPPED as OutOfValues.
ClientGet(c) ==
    /\ client[c] = "wait"
    /\ targetValue # Unset
    /\ outcome' = [outcome EXCEPT ![c] = targetValue]
    /\ client' = [client EXCEPT ![c] = "cancel"]
    /\ UNCHANGED <<prodVars, tasks, pool, queue, procVars, targetValue,
                   cancelled, bail>>

\* cancel(), also by a client that does not wait for an outcome.
ClientCancel(c) ==
    /\ client[c] \in {"idle", "cancel"}
    /\ cancelled' = TRUE
    /\ client' = [client EXCEPT ![c] = "join"]
    /\ UNCHANGED <<prodVars, tasks, pool, queue, procVars, targetValue, bail,
                   outcome>>

\* join() waits for the three service threads; the pool is stopped by then,
\* and _check_for_producer_error decides whether join() raises.
ClientJoin(c) ==
    /\ client[c] = "join"
    /\ prod = "done" /\ proc = "done" /\ bail = "done"
    /\ client' = [client EXCEPT ![c] = IF producerError THEN "raised" ELSE "joined"]
    /\ UNCHANGED <<prodVars, tasks, pool, queue, procVars, targetValue,
                   cancelled, bail, outcome>>

Client(c) == ClientBlock(c) \/ ClientGet(c) \/ ClientCancel(c) \/ ClientJoin(c)

-----------------------------------------------------------------------------
NextButProducer ==
    \/ \E i \in DOMAIN tasks : Worker(i)
    \/ Processor
    \/ Bail
    \/ \E c \in Clients : Client(c)

Next == Producer \/ NextButProducer

Spec == Init /\ [][Next]_vars

-----------------------------------------------------------------------------
(* Type correctness. *)

\* Every variable has the type its Python counterpart has.
TypeOK ==
    /\ prod \in {"read", "factory", "enqueue", "sleep", "error", "errorCancel",
                 "stop", "done"}
    /\ lenSuccesses \in Nat
    /\ batch \in Seq(Values)
    /\ started \in Nat
    /\ producerError \in BOOLEAN
    /\ tasks \in Seq(Tasks)
    /\ pool \in {"running", "stopping", "stopped"}
    /\ queue \in Seq(Messages)
    /\ proc \in {"get", "setTarget", "cancel", "outCancel", "outSet", "stopPool",
                 "joinPool", "done"}
    /\ sawStop \in BOOLEAN
    /\ finished \in Nat
    /\ successes \in SUBSET Values
    /\ failures \in SUBSET Values
    /\ targetValue \in Results
    /\ cancelled \in BOOLEAN
    /\ bail \in {"wait", "set", "cancel", "done"}
    /\ client \in [Clients -> {"idle", "wait", "cancel", "join", "joined", "raised"}]
    /\ outcome \in [Clients -> Results]

(* Safety. *)

\* _process_results leaves its loop in the very iteration that reaches the
\* target, so _successes never outgrows it however late or repeated the results
\* are: Policy.enact zips the successes with exactly target_successes kfrags.
SuccessesWithinTarget ==
    /\ Cardinality(successes) <= Target
    /\ targetValue.kind = "successes" => Cardinality(targetValue.values) = Target

\* When block_until_target_successes() raises OutOfValues, the pool has really
\* run dry: the producer has stopped, nothing is queued, running or reported
\* but unread, even though _started_tasks is read without a lock (line 314).
OutOfValuesIsFinal ==
    targetValue.kind = "PRODUCER_STOPPED" =>
        /\ prod = "done"
        /\ queue = <<>>
        /\ InStage("processed") = DOMAIN tasks

\* OutOfValues is "Raised if the value factory is out of values, but the target
\* number was not reached" (line 132): at that point successes are short of it.
OutOfValuesMeansShort ==
    targetValue.kind = "PRODUCER_STOPPED" => Cardinality(successes) < Target

\* block_until_target_successes() "can be called several times" (line 233), from
\* several threads: all calls that wait give the same outcome, although success,
\* timeout and exhaustion race to set the future.
ClientsAgree ==
    \A c, d \in Clients :
        {outcome[c].kind, outcome[d].kind} \cap {"unset", "error"} = {}
            => outcome[c] = outcome[d]

\* join() returns with nothing of the pool alive: no task queued or running.
JoinedMeansQuiet ==
    \A c \in Clients : client[c] \in {"joined", "raised"} =>
        /\ pool = "stopped"
        /\ \A i \in DOMAIN tasks : tasks[i].stage \in {"reported", "processed"}

\* "There is a possible race between callInThread() and stop(), But we never
\* execute them at the same time" (lines 332-334): once the pool is being
\* stopped, the producer is not handing it values.
NoCallWhileStopping == pool # "running" => prod # "enqueue"

-----------------------------------------------------------------------------
(* The inductive invariant behind the safety properties. *)

\* Every message reports a task whose result was not read yet, and no task is
\* reported twice; the producer's marker is unique too (it has task 0).
QueueInv ==
    /\ \A k \in DOMAIN queue :
          \/ queue[k] = ProducerStopped
          \/ /\ queue[k].kind # "PRODUCER_STOPPED"
             /\ queue[k].task \in DOMAIN tasks
             /\ tasks[queue[k].task].stage = "reported"
    /\ \A k, l \in DOMAIN queue : k # l => queue[k].task # queue[l].task

\* The marker is the producer's last act, so _started_tasks is final when the
\* processor has seen it.
StopInv ==
    /\ prod = "enqueue" => batch # <<>>
    /\ sawStop => prod = "done"
    /\ \A k \in DOMAIN queue :
          queue[k] = ProducerStopped => prod = "done" /\ ~sawStop

\* _finished_tasks counts the tasks whose result was read; _started_tasks may
\* only be ahead of what the pool holds (values not handed over, or dropped).
CountInv ==
    /\ Len(tasks) + Len(batch) <= started
    /\ finished = Cardinality(InStage("processed"))

\* On the way out for lack of values every task was read.
DryInv ==
    proc \in {"outCancel", "outSet"} \/ targetValue.kind = "PRODUCER_STOPPED"
        => sawStop /\ InStage("processed") = DOMAIN tasks

\* How far the processor is tells how many successes there are.
SuccessInv ==
    /\ IsFiniteSet(successes)
    /\ Cardinality(successes) <= Target
    /\ proc \in {"get", "outCancel", "outSet"} => Cardinality(successes) < Target
    /\ proc = "setTarget" => Cardinality(successes) = Target
    /\ targetValue.kind = "successes" => Cardinality(targetValue.values) = Target
    /\ targetValue.kind = "PRODUCER_STOPPED" =>
          /\ Cardinality(successes) < Target
          /\ proc \in {"stopPool", "joinPool", "done"}

\* A client's outcome is the future's value, which is never set to an error.
OutcomeInv ==
    /\ targetValue.kind # "error"
    /\ targetValue.kind = "unset" => targetValue = Unset
    /\ \A c \in Clients :
          outcome[c].kind \notin {"unset", "error"} => outcome[c] = targetValue

\* The pool's state follows the processor, and a stopped pool is empty.
PoolInv ==
    /\ pool = "stopped" <=> proc = "done"
    /\ pool = "stopping" <=> proc = "joinPool"
    /\ pool = "stopped" =>
          \A i \in DOMAIN tasks : tasks[i].stage \in {"reported", "processed"}
    /\ \A c \in Clients : client[c] \in {"joined", "raised"} => proc = "done"

\* The strengthening of the safety properties that every step preserves.
IInv == TypeOK /\ QueueInv /\ StopInv /\ CountInv /\ DryInv /\ SuccessInv
        /\ OutcomeInv /\ PoolInv
=============================================================================
