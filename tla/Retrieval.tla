------------------------------- MODULE Retrieval -------------------------------
(***************************************************************************)
(* Bob.retrieve (characters/lawful.py) and the RetrievalClient with its    *)
(* RetrievalPlan (network/retrieval.py): the capsule frags of some         *)
(* messages are collected from the Ursulas of a treasure map, over several *)
(* attempts; what an attempt finds is kept in the message kits and not     *)
(* asked for again.  A cfrag is abstracted to the Ursula it came from.     *)
(***************************************************************************)
EXTENDS Naturals, Sequences, SequencesExt, FiniteSets

CONSTANTS Ursulas,       \* treasure_map.destinations
          Capsules,
          Threshold,     \* treasure_map.threshold
          MaxRetrievals  \* bound: calls of retrieve()

ASSUME ThresholdAssumption == Threshold \in 1..Cardinality(Ursulas)
ASSUME MaxRetrievalsAssumption == MaxRetrievals \in Nat

VARIABLES known,       \* Ursulas of the map among the learner's known_nodes
          kits,        \* per capsule: whose cfrags the PolicyMessageKit holds
          crashed,     \* the learner's _crashed
          retrievals,  \* calls of retrieve() made
          phase,       \* where retrieve() is
          sought,      \* unknown_ursulas of _ensure_ursula_availability
          asked,       \* RetrievalPlan._capsules
          pickOrder,   \* _ursulas_pick_order
          queried,     \* _queried_addresses
          processed,   \* _processed_capsules
          results,     \* _results
          workOrder,
          gaveUp       \* history: Ursulas unknown or failing in this attempt

plan == <<asked, pickOrder, queried, processed, results>>
learner == <<known, crashed>>
retrievalVars == <<learner, kits, retrievals, phase, sought, plan, workOrder, gaveUp>>

NoOrder == [ursula |-> {}, capsules |-> {}]

Nothing == [c \in Capsules |-> {}]

\* retrieve() is left: its plan is gone.
End ==
    /\ phase' = "idle" /\ sought' = {}
    /\ asked' = {} /\ pickOrder' = <<>>
    /\ queried' = Nothing /\ results' = Nothing
    /\ processed' = [u \in Ursulas |-> {}]
    /\ workOrder' = NoOrder /\ gaveUp' = {}

RetrievalInit ==
    /\ known \in SUBSET Ursulas /\ crashed = FALSE
    /\ kits = Nothing
    /\ retrievals = 0 /\ phase = "idle" /\ sought = {}
    /\ asked = {} /\ pickOrder = <<>>
    /\ queried = Nothing /\ results = Nothing
    /\ processed = [u \in Ursulas |-> {}]
    /\ workOrder = NoOrder /\ gaveUp = {}

\* The learning loop, in threads of its own, finds a node or drops one that turned
\* out to be invalid (mark_as), at any time.
Learn(u) ==
    /\ u \notin known
    /\ known' = known \cup {u}
    /\ UNCHANGED <<crashed, kits, retrievals, phase, sought, plan, workOrder, gaveUp>>

Forget(u) ==
    /\ u \in known
    /\ known' = known \ {u}
    /\ UNCHANGED <<crashed, kits, retrievals, phase, sought, plan, workOrder, gaveUp>>

\* An error ends the learning loop.
Crash ==
    /\ ~crashed
    /\ crashed' = TRUE
    /\ UNCHANGED <<known, kits, retrievals, phase, sought, plan, workOrder, gaveUp>>

-----------------------------------------------------------------------------
(* RetrievalPlan. *)

\* The Ursulas that gave some cfrag before come last, in any order.
PickOrders(S) ==
    LET last == UNION {kits[c] : c \in S}
    IN {first \o end : first \in SetToSeqs(Ursulas \ last), end \in SetToSeqs(last)}

\* Mutant: a capsule is wanted although this Ursula processed it.
MWantedAgain(u) == {c \in asked : Cardinality(queried[c]) < Threshold}

\* The capsules get_work_order() would put in an order for u.
WantedFrom(u) == {c \in asked : c \notin processed[u] /\ Cardinality(queried[c]) < Threshold}

\* Mutant: the next Ursula gets an order, if there is something to ask of it or not.
MUseful == DOMAIN pickOrder

\* Where in the pick order there is an Ursula to ask something of.
Useful == {i \in DOMAIN pickOrder : WantedFrom(pickOrder[i]) # {}}

\* Mutant: complete with any capsule complete.
MIsComplete ==
    \/ pickOrder = <<>>
    \/ \E c \in asked : Cardinality(queried[c]) >= Threshold

IsComplete ==
    \/ pickOrder = <<>>
    \/ \A c \in asked : Cardinality(queried[c]) >= Threshold

\* Mutant: the Ursula of the order stays in the pick order.
MRemaining(i) == SubSeq(pickOrder, i, Len(pickOrder))

Remaining(i) == SubSeq(pickOrder, i + 1, Len(pickOrder))

\* Mutant: _processed_capsules is not updated.
MUpdate ==
    /\ queried' = [c \in Capsules |-> IF c \in workOrder.capsules
                                      THEN queried[c] \cup {workOrder.ursula} ELSE queried[c]]
    /\ results' = [c \in Capsules |-> IF c \in workOrder.capsules
                                      THEN results[c] \cup {workOrder.ursula} ELSE results[c]]
    /\ UNCHANGED processed

\* update(): the answer has a cfrag for every capsule of the order.
Update ==
    /\ queried' = [c \in Capsules |-> IF c \in workOrder.capsules
                                      THEN queried[c] \cup {workOrder.ursula} ELSE queried[c]]
    /\ results' = [c \in Capsules |-> IF c \in workOrder.capsules
                                      THEN results[c] \cup {workOrder.ursula} ELSE results[c]]
    /\ processed' = [processed EXCEPT ![workOrder.ursula] = @ \cup workOrder.capsules]

-----------------------------------------------------------------------------
(* retrieve() and retrieve_cfrags(). *)

\* Some of the messages are retrieved; the kits are turned into retrieval kits,
\* and _ensure_ursula_availability() looks whether enough nodes are known.
Retrieve(S) ==
    /\ phase = "idle"
    /\ retrievals < MaxRetrievals
    /\ S # {}
    /\ retrievals' = retrievals + 1
    /\ asked' = S
    /\ phase' = IF Cardinality(known) >= Threshold THEN "plan" ELSE "learning"
    /\ sought' = IF Cardinality(known) >= Threshold THEN {} ELSE Ursulas \ known
    /\ UNCHANGED <<learner, kits, pickOrder, queried, processed, results, workOrder, gaveUp>>

\* block_until_specific_nodes_are_known(unknown, allow_missing = shares - threshold)
\* returns with few enough missing, or at once when the learning has crashed.
Learned ==
    /\ phase = "learning"
    /\ crashed \/ Cardinality(sought \ known) <= Cardinality(Ursulas) - Threshold
    /\ phase' = "plan" /\ sought' = {}
    /\ UNCHANGED <<learner, kits, retrievals, plan, workOrder, gaveUp>>

\* ... and raises NotEnoughTeachers after its timeout.
LearningTimesOut ==
    /\ phase = "learning"
    /\ ~crashed
    /\ Cardinality(sought \ known) > Cardinality(Ursulas) - Threshold
    /\ End
    /\ UNCHANGED <<learner, kits, retrievals>>

MakePlan ==
    /\ phase = "plan"
    /\ \E order \in PickOrders(asked) : pickOrder' = order
    /\ queried' = [c \in Capsules |-> IF c \in asked THEN kits[c] ELSE {}]
    /\ results' = Nothing
    /\ processed' = [u \in Ursulas |-> {c \in asked : u \in kits[c]}]
    /\ phase' = "loop"
    /\ UNCHANGED <<learner, kits, retrievals, sought, asked, workOrder, gaveUp>>

IsKnown(u) == u \in known

\* get_work_order(): the first Ursula there is something to ask of.
GetWorkOrder ==
    /\ phase = "loop"
    /\ ~IsComplete
    /\ LET i == CHOOSE n \in Useful : \A m \in Useful : n <= m
           u == pickOrder[i]
       IN /\ Useful # {}
          /\ pickOrder' = Remaining(i)
          /\ IF IsKnown(u)
             THEN /\ workOrder' = [ursula |-> u, capsules |-> WantedFrom(u)]
                  /\ phase' = "lookup"
                  /\ UNCHANGED gaveUp
             ELSE /\ gaveUp' = gaveUp \cup {u}
                  /\ UNCHANGED <<workOrder, phase>>
    /\ UNCHANGED <<learner, kits, retrievals, sought, asked, queried, processed, results>>

\* known_nodes[ursula], outside the try: the node may be gone since it was looked for,
\* and the KeyError leaves retrieve() with what was found in this attempt lost.
Lookup ==
    /\ phase = "lookup"
    /\ IF IsKnown(workOrder.ursula)
       THEN phase' = "request" /\ UNCHANGED <<sought, plan, workOrder, gaveUp>>
       ELSE End
    /\ UNCHANGED <<learner, kits, retrievals>>

\* raise RuntimeError("No Ursulas left"): what was found in this attempt is lost.
NoUrsulasLeft ==
    /\ phase = "loop"
    /\ ~IsComplete
    /\ Useful = {}
    /\ pickOrder' = <<>>
    /\ phase' = "No Ursulas left"
    /\ UNCHANGED <<learner, kits, retrievals, sought, asked, queried, processed, results,
                   workOrder, gaveUp>>

\* The exception leaves retrieve(); the caller may try again with the same kits.
Raised ==
    /\ phase = "No Ursulas left"
    /\ End
    /\ UNCHANGED <<learner, kits, retrievals>>

\* _request_reencryption(): a verified answer, or any of its exceptions.
Answered ==
    /\ phase = "request"
    /\ Update
    /\ workOrder' = NoOrder
    /\ phase' = "loop"
    /\ UNCHANGED <<learner, kits, retrievals, sought, asked, pickOrder, gaveUp>>

Failed ==
    /\ phase = "request"
    /\ gaveUp' = gaveUp \cup {workOrder.ursula}
    /\ workOrder' = NoOrder
    /\ phase' = "loop"
    /\ UNCHANGED <<learner, kits, retrievals, sought, plan>>

\* message_kit.with_result(retrieval_result)
WithResult == [c \in Capsules |-> kits[c] \cup results[c]]

Complete ==
    /\ phase = "loop"
    /\ IsComplete
    /\ kits' = WithResult
    /\ End
    /\ UNCHANGED <<learner, retrievals>>

\* What retrieve() does by itself, and what it waits for on the network.
OwnStep == MakePlan \/ GetWorkOrder \/ Lookup \/ NoUrsulasLeft \/ Raised \/ Complete

Bob == \/ \E S \in SUBSET Capsules : Retrieve(S)
       \/ OwnStep
       \/ Learned \/ LearningTimesOut \/ Answered \/ Failed

RetrievalNext == Bob \/ Crash \/ \E u \in Ursulas : Learn(u) \/ Forget(u)

RetrievalSpec == RetrievalInit /\ [][RetrievalNext]_retrievalVars

\* The thread that called retrieve() goes on.  Nothing is assumed of its calls over
\* the network, learning and re-encryption: the requests have timeouts, but before
\* them NodeSprout.mature() waits on a queue without one.
RetrievalFairSpec == RetrievalSpec /\ WF_retrievalVars(OwnStep)

-----------------------------------------------------------------------------
\* Every variable has its type; an order is for some of the capsules asked for.
RetrievalTypeOK ==
    /\ known \subseteq Ursulas /\ crashed \in BOOLEAN
    /\ asked \subseteq Capsules /\ sought \subseteq Ursulas
    /\ {kits, queried, results} \subseteq [Capsules -> SUBSET Ursulas]
    /\ processed \in [Ursulas -> SUBSET Capsules]
    /\ pickOrder \in Seq(Ursulas)
    /\ phase \in {"idle", "learning", "plan", "loop", "lookup", "request", "No Ursulas left"}
    /\ IF phase \in {"lookup", "request"}
       THEN workOrder \in [ursula : Ursulas, capsules : (SUBSET asked) \ {{}}]
       ELSE workOrder = NoOrder
    /\ gaveUp \subseteq Ursulas /\ retrievals \in 0..MaxRetrievals

InAttempt == phase \in {"loop", "lookup", "request"}

\* _processed_capsules is the inverse of _queried_addresses, as the comment on it
\* says, through every update; and an Ursula still to be asked has given no
\* cfrag in this attempt.
PlanConsistent ==
    InAttempt =>
        /\ \A u \in Ursulas, c \in asked : c \in processed[u] <=> u \in queried[c]
        /\ \A i \in DOMAIN pickOrder, c \in asked : pickOrder[i] \notin results[c]

\* No cfrag is asked for that Bob has from an earlier attempt, so that with_result()
\* never overwrites one (kits.py: "check for overlap?"), and no more cfrags are
\* collected than are needed to decrypt.
NoOverlap ==
    /\ InAttempt => \A c \in asked : results[c] \cap kits[c] = {}
    /\ \A c \in Capsules : Cardinality(kits[c]) <= Threshold

\* An attempt that completes has tried everything: each capsule can be decrypted or
\* each Ursula that gave nothing for it was unknown or failed in this attempt.
EnoughOrExhausted ==
    [][phase = "loop" /\ phase' = "idle" =>
          \A c \in asked : \/ Cardinality(kits'[c]) >= Threshold
                           \/ Ursulas = kits'[c] \cup gaveUp]_retrievalVars

\* The comment in get_work_order(): "Execution will not reach this point if
\* `is_complete()` returned `False` before this call."
NeverOutOfUrsulas == phase # "No Ursulas left"

\* retrieve() returns or raises, whatever the Ursulas answer and the learning loop
\* does, unless one call over the network, for learning or for a re-encryption,
\* never comes back.
RetrievalEnds ==
    []<>(phase = "idle") \/ <>[](phase = "learning") \/ <>[](phase = "request")
=============================================================================
