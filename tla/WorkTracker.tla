------------------------------ MODULE WorkTracker ------------------------------
(***************************************************************************)
(* The WorkTracker of a node (blockchain/eth/token.py): a Twisted          *)
(* LoopingCall that sends the transaction confirming the operator's        *)
(* address, follows it, replaces it when it is not mined in time, and      *)
(* stops once the operator is confirmed.  The chain moves between its      *)
(* calls: blocks and transactions are mined, transactions of the same      *)
(* account come in from elsewhere, the provider bonds and unbonds the      *)
(* operator and changes the stake behind it.  Any call to Ethereum may     *)
(* fail, also one that had its effect.  Only differences of block numbers  *)
(* matter: they are kept within 1..MaxBlock by shifting all of them down   *)
(* (NewBlock).                                                             *)
(***************************************************************************)
EXTENDS Naturals, Sequences, FiniteSets, Functions

CONSTANTS MaxWait,    \* max_confirmation_time(), in blocks
          MaxBlock,   \* bound: block numbers
          MaxMempool, \* bound: transactions of the account waiting
          MaxEvents   \* bound: outside events (errors, other transactions, bondings)

ASSUME BoundsAssumption ==
    /\ {MaxWait, MaxBlock, MaxMempool, MaxEvents} \subseteq Nat
    /\ MaxWait < MaxBlock - 1

VARIABLES node,         \* "waiting" in block_until_ready, "up" or "down"
          ready,        \* what block_until_ready has seen: funded, bonded
          running,      \* _tracking_task.running
          requirement,  \* __requirement is the check of the worker, not None
          pending,      \* __pending: block number -> transaction
          fails,        \* _consecutive_fails, counted up to 2
          pc, current,  \* where _do_work is, and its current_block_number
          block,        \* the chain: block number
          mempool,      \*   the account's transactions, by nonce
          mined,        \*   a transaction has a receipt
          bonded, authorized, confirmed,  \* the contract's view of the operator
          events

tracker == <<running, requirement, pending, fails, pc, current>>
contract == <<bonded, authorized, confirmed>>
ethereum == <<block, mempool, mined, contract>>
workVars == <<node, ready, tracker, ethereum, events>>

\* Transactions are told apart by an identity; only those waiting in the mempool
\* and those tracked matter, so the identities are used again.
TxIds == 1..(MaxMempool + 2)
Other == 0             \* a transaction of the account that is no commitment
Untracked == MaxMempool + 3   \* UNTRACKED_PENDING_TRANSACTION

Tracked == {pending[b] : b \in DOMAIN pending} \ {Untracked}
InMempool == {mempool[i] : i \in DOMAIN mempool}
FreshTx == CHOOSE t \in TxIds : t \notin Tracked \cup InMempool

WorkInit ==
    /\ node = "waiting" /\ ready = {}
    /\ running = FALSE /\ requirement = FALSE /\ pending = <<>> /\ fails = 0
    /\ pc = "idle" /\ current = 1
    /\ block = 1 /\ mempool = <<>> /\ mined = {}
    /\ bonded = FALSE /\ authorized \in BOOLEAN /\ confirmed = FALSE
    /\ events = 0

-----------------------------------------------------------------------------
(* The chain and the rest of the world. *)

Down1(b) == IF b > 1 THEN b - 1 ELSE 1
\* Key 0 is the untracked transaction.
Shifted(p) == [b \in {IF k = 0 THEN 0 ELSE Down1(k) : k \in DOMAIN p} |->
                  IF b = 0 THEN p[0] ELSE p[CHOOSE k \in DOMAIN p \ {0} : Down1(k) = b]]

\* Blocks at least MaxWait older than the current one end up in 1; no two of them
\* meet there, and a round of the task is not left behind (a bound on its length).
NextBlock ==
    IF block < MaxBlock THEN block' = block + 1 /\ UNCHANGED <<pending, current>>
    ELSE /\ ~({1, 2} \subseteq DOMAIN pending)
         /\ pc # "idle" => current > MaxWait + 1
         /\ pending' = Shifted(pending) /\ current' = Down1(current)
         /\ UNCHANGED block

NewBlock ==
    /\ NextBlock
    /\ UNCHANGED <<node, ready, running, requirement, fails, pc, mempool, mined,
                   contract, events>>

\* The account's next transaction is mined; the receipts of those nobody tracks
\* are forgotten.  A commitment confirms the operator or is reverted: for
\* one that is not bonded, or whose provider's stake is too small.
Mine ==
    /\ mempool # <<>>
    /\ NextBlock
    /\ mempool' = Tail(mempool)
    /\ mined' = (mined \cup {Head(mempool)}) \cap Tracked
    /\ confirmed' = (confirmed \/ (Head(mempool) # Other /\ bonded /\ authorized))
    /\ UNCHANGED <<node, ready, running, requirement, fails, pc, bonded, authorized,
                   events>>

Event == events < MaxEvents /\ events' = events + 1

\* The operator sends a transaction of their own.
OtherTx ==
    /\ Event
    /\ Len(mempool) < MaxMempool
    /\ mempool' = Append(mempool, Other)
    /\ UNCHANGED <<node, ready, tracker, block, mined, contract>>

\* The mempool of the node's provider forgets the last transaction.
Drop ==
    /\ Event
    /\ mempool # <<>>
    /\ mempool' = SubSeq(mempool, 1, Len(mempool) - 1)
    /\ UNCHANGED <<node, ready, tracker, block, mined, contract>>

\* bondOperator: the confirmation starts anew.
Bond(b) ==
    /\ Event
    /\ b # bonded
    /\ bonded' = b /\ confirmed' = FALSE
    /\ UNCHANGED <<node, ready, tracker, block, mempool, mined, authorized>>

\* The authorized stake of the provider passes the minimum, up or down.
Authorize(a) ==
    /\ Event
    /\ a # authorized
    /\ authorized' = a
    /\ UNCHANGED <<node, ready, tracker, block, mempool, mined, bonded, confirmed>>

-----------------------------------------------------------------------------
(* The node. *)

\* Operator.block_until_ready: one round of polling, the balance being external.
Poll ==
    /\ node = "waiting" /\ ready # {"funded", "bonded"}
    /\ \E funded \in BOOLEAN :
          ready' = ready \cup (IF funded THEN {"funded"} ELSE {})
                         \cup (IF bonded THEN {"bonded"} ELSE {})
    /\ UNCHANGED <<node, tracker, ethereum, events>>

\* Ursula.run: work_tracker.start(requirement_func = worker.get_work_is_needed_check())
Start ==
    /\ node = "waiting" /\ ready = {"funded", "bonded"}
    /\ node' = "up"
    /\ running' = TRUE /\ requirement' = TRUE
    /\ UNCHANGED <<ready, pending, fails, pc, current, ethereum, events>>

\* OperatorBondedTracker.run, between two runs of _do_work on the reactor thread:
\* the node of an operator that is not bonded any more shuts down.
BondedCheck ==
    /\ node = "up" /\ pc = "idle"
    /\ ~bonded
    /\ node' = "down"
    /\ running' = FALSE
    /\ UNCHANGED <<ready, requirement, pending, fails, pc, current, ethereum, events>>

-----------------------------------------------------------------------------
(* WorkTrackerBase._do_work, one step per look at the chain. *)

Needed == requirement => ~confirmed   \* _should_do_work_now

\* The tail of every error: handle_working_errors starts the task again, with the
\* requirement_func of start(), which is None.
Restarted ==
    /\ requirement' = FALSE
    /\ fails' = IF fails < 2 THEN fails + 1 ELSE fails
    /\ pc' = "idle"

Begin ==
    /\ running /\ pc = "idle"
    /\ IF ~Needed THEN running' = FALSE /\ UNCHANGED <<pc, current>>
       ELSE pc' = "track" /\ current' = block /\ UNCHANGED running
    /\ UNCHANGED <<node, ready, requirement, pending, fails, ethereum, events>>

\* Mutants: an untracked transaction is not noted; it is recorded as if it were tracked.
MNotNoted(p) == p
MNoted(p) == IF Len(mempool) > Cardinality(DOMAIN p)
             THEN [b \in DOMAIN p \cup {0} |-> IF b = 0 THEN mempool[Len(mempool)] ELSE p[b]]
             ELSE p

\* The mempool has more of the account's transactions than are tracked.
Noted(p) == IF Len(mempool) > Cardinality(DOMAIN p)
            THEN [b \in DOMAIN p \cup {0} |-> IF b = 0 THEN Untracked ELSE p[b]]
            ELSE p

\* The entries are looked at in the order of their blocks, and those that are mined
\* deleted one by one.
LookedUpTo(last) ==
    Restrict(pending, {b \in DOMAIN pending : b > last \/ pending[b] \notin mined})

StillPending == LookedUpTo(MaxBlock)

Track ==
    /\ pc = "track"
    /\ pending' = Noted(StillPending)
    /\ mined' = mined \cap {pending'[b] : b \in DOMAIN pending'}
    /\ pc' = IF pending' = <<>> THEN "work" ELSE "replace"
    /\ UNCHANGED <<node, ready, running, requirement, fails, current, block, mempool,
                   contract, events>>

\* Mutant: a commitment takes the next nonce, as a pending one would.
MWithCommitment(t) == Append(mempool, t)

\* fire_and_forget: the nonce is the number of transactions mined, so that the
\* commitment takes the place of the account's first waiting transaction.
WithCommitment(t) == IF mempool = <<>> THEN <<t>> ELSE [mempool EXCEPT ![1] = t]

\* The contract would reject the transaction, which estimating its gas finds out.
WouldRevert == ~bonded \/ ~authorized \/ confirmed

Oldest == CHOOSE b \in DOMAIN pending : \A c \in DOMAIN pending : b <= c

\* Mutant: the replaced transaction stays tracked.
MReplacedBy(t) == [b \in DOMAIN pending \cup {current} |-> IF b = current THEN t ELSE pending[b]]

\* The new one is tracked before the old one is deleted.
ReplacedBy(t) ==
    LET p == [b \in DOMAIN pending \cup {current} |-> IF b = current THEN t ELSE pending[b]]
    IN Restrict(p, DOMAIN p \ {Oldest})

\* Mutant: a transaction that was tracked is waited for for ever.
MOverdue == pending[Oldest] = Untracked

Overdue == pending[Oldest] = Untracked \/ current >= Oldest + MaxWait

KeepWaiting ==
    /\ pc = "replace" /\ ~Overdue
    /\ pc' = "idle"
    /\ UNCHANGED <<node, ready, running, requirement, pending, fails, current, ethereum,
                   events>>

FireReplacement ==
    /\ pc = "replace" /\ Overdue
    /\ ~WouldRevert
    /\ LET t == FreshTx
       IN mempool' = WithCommitment(t) /\ pending' = ReplacedBy(t)
    /\ mined' = mined \cap {pending'[b] : b \in DOMAIN pending'}
    /\ pc' = "idle"
    /\ UNCHANGED <<node, ready, running, requirement, fails, current, block, contract, events>>

\* "COMMIT PREVENTED": not needed, or not bonded.
Prevented ==
    /\ pc = "work"
    /\ ~Needed \/ ~bonded
    /\ pc' = "idle"
    /\ UNCHANGED <<node, ready, running, requirement, pending, fails, current, ethereum,
                   events>>

Fire ==
    /\ pc = "work" /\ Needed
    /\ ~WouldRevert
    /\ mempool' = WithCommitment(FreshTx)
    /\ pending' = [b \in DOMAIN pending \cup {current} |->
                      IF b = current THEN FreshTx ELSE pending[b]]
    /\ pc' = "idle"
    /\ UNCHANGED <<node, ready, running, requirement, fails, current, block, mined,
                   contract, events>>

\* Estimating the gas of a commitment fails.
FireRejected ==
    /\ \/ pc = "work" /\ Needed /\ bonded
       \/ pc = "replace" /\ Overdue
    /\ WouldRevert
    /\ Restarted
    /\ UNCHANGED <<node, ready, running, pending, current, ethereum, events>>

\* Any call to Ethereum fails, or it takes the price of a replacement for too low;
\* the sending of a commitment may fail before or after it has reached the mempool.
Error ==
    /\ running
    /\ Event
    /\ Restarted
    /\ \/ UNCHANGED <<pending, mempool, mined>>
       \/ /\ pc = "track"
          /\ \E last \in DOMAIN pending : pending' = LookedUpTo(last)
          /\ mined' = mined \cap {pending'[b] : b \in DOMAIN pending'}
          /\ UNCHANGED mempool
       \/ /\ (pc = "replace" /\ Overdue) \/ (pc = "work" /\ Needed)
          /\ ~WouldRevert
          /\ mempool' = WithCommitment(FreshTx)
          /\ UNCHANGED <<pending, mined>>
    /\ UNCHANGED <<node, ready, running, current, block, contract>>

DoWork == \/ Begin \/ Track \/ KeepWaiting \/ FireReplacement \/ Prevented \/ Fire
          \/ FireRejected

World == NewBlock \/ Mine \/ OtherTx \/ Drop \/ Error \/ \E b \in BOOLEAN : Bond(b) \/ Authorize(b)

WorkNext == DoWork \/ World \/ Poll \/ Start \/ BondedCheck

WorkSpec == WorkInit /\ [][WorkNext]_workVars

\* The reactor runs the task again and again; blocks are mined, and an account that
\* has a transaction waiting again and again gets one mined.
WorkFairSpec == WorkSpec /\ WF_workVars(DoWork) /\ SF_workVars(NewBlock) /\ SF_workVars(Mine)

-----------------------------------------------------------------------------
\* Every variable has its type.
WorkTypeOK ==
    /\ node \in {"waiting", "up", "down"} /\ ready \subseteq {"funded", "bonded"}
    /\ {running, requirement, bonded, authorized, confirmed} \subseteq BOOLEAN
    /\ pc \in {"idle", "track", "replace", "work"}
    /\ DOMAIN pending \subseteq 0..MaxBlock /\ Tracked \subseteq TxIds
    /\ mempool \in Seq(TxIds \cup {Other}) /\ mined \subseteq TxIds
    /\ {current, block} \subseteq 1..MaxBlock /\ fails \in 0..2 /\ events \in 0..MaxEvents

\* The tracker never has two commitments waiting at once, although it sends a
\* replacement without knowing what became of the first, starts again after errors
\* that leave open whether one was sent, and shares the account with other
\* transactions.
OneCommitment ==
    Cardinality({i \in DOMAIN mempool : mempool[i] # Other}) <= 1

\* A commitment whose sending failed after it had reached the mempool is tracked by
\* nothing, but it is noticed: the tracker goes on to send a first commitment only
\* when none waits, whatever failed, was replaced or was mined in between.
LostIsNoticed == pc = "work" => InMempool \subseteq {Other}

\* _pending does not grow: it never has more entries than the account may have
\* transactions waiting, however many are replaced, dropped or lost to errors.
PendingBounded == Cardinality(DOMAIN pending) <= MaxMempool

\* The comment in WorkTracker._all_work_completed: "only a one-and-done - work is no
\* longer needed".  A round that begins with the operator confirmed ends the task.
OneAndDone ==
    [][running /\ pc = "idle" /\ pc' = "track" => ~confirmed]_workVars

\* The operator gets confirmed: while it is bonded to a provider with enough stake,
\* with the tracker running, and the outside trouble coming to an end, it is
\* confirmed eventually.
WorkGetsDone ==
    running /\ bonded /\ authorized ~> (confirmed \/ ~bonded \/ ~authorized \/ ~running)
=============================================================================
