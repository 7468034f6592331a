------------------------- MODULE PollerChain_proofs -------------------------
(* Theorems about PollerChain, for any feed, page, retention and bounds.   *)
EXTENDS PollerChain, FiniteSetTheorems, TLAPS

-----------------------------------------------------------------------------
(* Typing.                                                                 *)

\* A page begins and ends at positions of the feed.
LEMMA PageTyped ==
    ASSUME TypeOK, NEW c \in Cursors
    PROVE  From(c) \in Position /\ PageEnd(From(c)) \in Position
<1>1. From(c) \in Position
    BY ChainAssumption DEF TypeOK, From, Position, Cursors, Default
<1>2. PageEnd(From(c)) \in Position
    BY <1>1, ChainAssumption DEF TypeOK, PageEnd, Position
<1>. QED
    BY <1>1, <1>2

\* The initial state is well typed and has all its attempts left.
LEMMA InitTyped == Init => TypeOK /\ AttemptsLeft
BY ChainAssumption DEF Init, TypeOK, AttemptsLeft, Statuses, Stages, Position, Items, Cursors

\* Every step keeps the state well typed and an attempt in hand.
LEMMA NextTyped == TypeOK /\ AttemptsLeft /\ [Next]_vars => TypeOK' /\ AttemptsLeft'
<1> SUFFICES ASSUME TypeOK, AttemptsLeft, [Next]_vars
             PROVE  TypeOK' /\ AttemptsLeft'
    OBVIOUS
<1> USE ChainAssumption DEF TypeOK, AttemptsLeft, Statuses, Stages, Position, Items, Cursors
<1>1. CASE Publish
    BY <1>1 DEF Publish, chainVars
<1>2. ASSUME NEW s \in Slots, Start(s) \/ Throttle(s) PROVE TypeOK' /\ AttemptsLeft'
    <2>1. Running \in SUBSET Slots
        BY DEF Running
    <2>2. attempts' \in [Slots -> 0..MaxAttempts] /\ earlier' \in [Slots -> SUBSET Slots]
        BY <1>2, <2>1 DEF Start, Throttle, Received
    <2>3. status' \in [Slots -> Statuses]
        BY <1>2 DEF Start, Throttle
    <2>4. AttemptsLeft'
        BY <1>2 DEF Start, Throttle, Received
    <2>. QED
        BY <1>2, <2>2, <2>3, <2>4 DEF Start, Throttle, Received
<1>3. ASSUME NEW s \in Slots, Poll(s) PROVE TypeOK' /\ AttemptsLeft'
    <2> DEFINE from == From(cursor[s])
    <2>1. from \in Position /\ PageEnd(from) \in Position
        BY PageTyped
    <2>2. ((from + 1)..PageEnd(from)) \ Unusable \subseteq Items /\ 1..from \subseteq Items
        BY <2>1
    <2>3. next' \in [Slots -> Cursors] /\ omissions' \in 0..MaxOmissions
        BY <1>3, <2>1 DEF Poll
    <2>4. todo' \in [Slots -> SUBSET Items] /\ skipped' \in SUBSET Items
        BY <1>3, <2>2 DEF Poll
    <2>5. status' \in [Slots -> Statuses] /\ AttemptsLeft'
        BY <1>3 DEF Poll
    <2>. QED
        BY <1>3, <2>3, <2>4, <2>5 DEF Poll
<1>4. ASSUME NEW s \in Slots, Send(s) PROVE TypeOK' /\ AttemptsLeft'
    BY <1>4 DEF Send
<1>5. ASSUME NEW s \in Slots, QueueNext(s) PROVE TypeOK' /\ AttemptsLeft'
    BY <1>5 DEF QueueNext
<1>6. ASSUME NEW s \in Slots, Return(s) \/ Expire(s) PROVE TypeOK' /\ AttemptsLeft'
    <2>1. Free(s)
        BY <1>6 DEF Return, Expire
    <2>2. earlier' \in [Slots -> SUBSET Slots]
        BY <2>1 DEF Free, Over
    <2>3. status' \in [Slots -> Statuses] /\ attempts' \in [Slots -> 0..MaxAttempts]
        BY <2>1 DEF Free
    <2>4. cursor' \in [Slots -> Cursors] /\ next' \in [Slots -> Cursors]
        BY <2>1 DEF Free
    <2>5. AttemptsLeft'
        BY <2>1 DEF Free
    <2>6. UNCHANGED <<published, ingested, skipped, faults, omissions, todo>>
        BY <1>6 DEF Return, Expire, Free
    <2>. QED
        BY <2>2, <2>3, <2>4, <2>5, <2>6
<1>7. ASSUME NEW s \in Slots, Fail(s) PROVE TypeOK' /\ AttemptsLeft'
    BY <1>7 DEF Fail, Over
<1>8. ASSUME NEW s \in Slots, Reappear(s) PROVE TypeOK' /\ AttemptsLeft'
    BY <1>8 DEF Reappear
<1>9. ASSUME NEW s \in Slots, KickOff(s) PROVE TypeOK' /\ AttemptsLeft'
    BY <1>9 DEF KickOff
<1>10. CASE UNCHANGED vars
    BY <1>10 DEF vars, chainVars
<1>. QED
    BY <1>1, <1>2, <1>3, <1>4, <1>5, <1>6, <1>7, <1>8, <1>9, <1>10 DEF Next, Run

-----------------------------------------------------------------------------
(* No item is skipped.                                                     *)

\* Every step keeps the page of a sending invocation accounted for, and no
\* message ahead of what has been ingested.
LEMMA NextSkipsNothing == IInv /\ [Next]_vars => PageAccounted' /\ NothingSkipped'
<1> SUFFICES ASSUME IInv, [Next]_vars PROVE PageAccounted' /\ NothingSkipped'
    OBVIOUS
<1> USE DEF IInv, TypeOK, PageAccounted, NothingSkipped, Alive, Stages
<1>1. CASE Publish
    BY <1>1 DEF Publish, chainVars
<1>2. ASSUME NEW s \in Slots, Start(s) \/ Throttle(s)
      PROVE  PageAccounted' /\ NothingSkipped'
    BY <1>2 DEF Start, Throttle, Received
<1>3. ASSUME NEW s \in Slots, Poll(s) PROVE PageAccounted' /\ NothingSkipped'
    <2> DEFINE from == From(cursor[s])
               end == PageEnd(from)
    <2>1. from \in Nat /\ end \in Nat
        BY PageTyped, ChainAssumption DEF Position
    <2>2. 1..end \subseteq (1..from) \union ((from + 1)..end)
        BY <2>1
    <2>3. skipped \subseteq skipped' /\ UNCHANGED ingested
        BY <1>3 DEF Poll
    <2>4. (1..from) \ Unusable \subseteq ingested \union skipped'
        <3>1. CASE cursor[s] = Default
            BY <1>3, <3>1 DEF Poll
        <3>2. CASE cursor[s] # Default
            BY <1>3, <2>3, <3>2 DEF Poll, From
        <3>. QED
            BY <3>1, <3>2
    <2>5. /\ next'[s] # Default => next'[s] = end
          /\ todo'[s] = ((from + 1)..end) \ Unusable
        BY <1>3 DEF Poll
    <2>6. next'[s] # Default =>
              (1..next'[s]) \ Unusable \subseteq ingested' \union todo'[s] \union skipped'
        BY <2>2, <2>3, <2>4, <2>5
    <2>7. \A t \in Slots \ {s} : /\ next'[t] = next[t] /\ todo'[t] = todo[t]
                                 /\ status'[t] = status[t]
        BY <1>3 DEF Poll
    <2>8. NothingSkipped'
        BY <1>3, <2>3 DEF Poll
    <2>9. PageAccounted'
        BY <1>3, <2>3, <2>6, <2>7 DEF Poll
    <2>. QED
        BY <2>8, <2>9
<1>4. ASSUME NEW s \in Slots, Send(s) PROVE PageAccounted' /\ NothingSkipped'
    <2>1. PICK i \in todo[s] : /\ todo' = [todo EXCEPT ![s] = @ \ {i}]
                               /\ ingested' = ingested \union {i}
        BY <1>4 DEF Send
    <2>2. \A t \in Slots : ingested \union todo[t] \subseteq ingested' \union todo'[t]
        BY <2>1
    <2>3. UNCHANGED <<status, cursor, next, skipped>>
        BY <1>4 DEF Send
    <2>. QED
        BY <2>1, <2>2, <2>3
<1>5. ASSUME NEW s \in Slots, QueueNext(s) PROVE PageAccounted' /\ NothingSkipped'
    BY <1>5 DEF QueueNext
<1>6. ASSUME NEW s \in Slots, Return(s) \/ Expire(s)
      PROVE  PageAccounted' /\ NothingSkipped'
    BY <1>6 DEF Return, Expire, Free
<1>7. ASSUME NEW s \in Slots, Fail(s) PROVE PageAccounted' /\ NothingSkipped'
    BY <1>7 DEF Fail
<1>8. ASSUME NEW s \in Slots, Reappear(s) PROVE PageAccounted' /\ NothingSkipped'
    BY <1>8 DEF Reappear
<1>9. ASSUME NEW s \in Slots, KickOff(s) PROVE PageAccounted' /\ NothingSkipped'
    BY <1>9 DEF KickOff
<1>10. CASE UNCHANGED vars
    BY <1>10 DEF vars, chainVars
<1>. QED
    BY <1>1, <1>2, <1>3, <1>4, <1>5, <1>6, <1>7, <1>8, <1>9, <1>10 DEF Next, Run

\* The inductive invariant holds in every reachable state.
THEOREM PollerInvariance == Spec => []IInv
<1>1. Init => IInv
    <2>1. Init => PageAccounted /\ NothingSkipped
        BY DEF Init, PageAccounted, NothingSkipped, Alive
    <2>. QED
        BY <2>1, InitTyped DEF IInv
<1>2. IInv /\ [Next]_vars => IInv'
    BY NextTyped, NextSkipsNothing DEF IInv
<1>. QED
    BY <1>1, <1>2, PTL DEF Spec

\* The types of the chain's state (PollerChain.TypeOK).
THEOREM PollerTypes == Spec => []TypeOK
<1>1. IInv => TypeOK
    BY DEF IInv
<1>. QED
    BY <1>1, PollerInvariance, PTL

\* No invocation, whatever fails and whenever, moves the poller past an item
\* that has not been handed to the ingestion lambda, but for what a poll without
\* a position leaves behind.
THEOREM PollerSkipsNothing == Spec => []NothingSkipped
<1>1. IInv => NothingSkipped
    BY DEF IInv
<1>. QED
    BY <1>1, PollerInvariance, PTL

-----------------------------------------------------------------------------
(* How many chains there can be.                                           *)

\* There are finitely many chains.
LEMMA UnqueuedFinite == IsFiniteSet(Unqueued) /\ Cardinality(Unqueued) \in Nat
<1>1. Unqueued \in SUBSET Slots
    BY DEF Unqueued
<1>. QED
    BY <1>1, ChainAssumption, FS_Subset, FS_CardinalityType

\* Removing members does not make the set of chains larger.
LEMMA FewerChains ==
    ASSUME Unqueued' \subseteq Unqueued
    PROVE  Cardinality(Unqueued') <= Cardinality(Unqueued)
BY UnqueuedFinite, FS_Subset

\* One more member makes it larger by one at most.
LEMMA OneMoreChain ==
    ASSUME NEW s, Unqueued' \subseteq Unqueued \union {s}
    PROVE  Cardinality(Unqueued') <= Cardinality(Unqueued) + 1
<1>1. /\ IsFiniteSet(Unqueued \union {s})
      /\ Cardinality(Unqueued \union {s}) <= Cardinality(Unqueued) + 1
      /\ Cardinality(Unqueued \union {s}) \in Nat
    BY UnqueuedFinite, FS_AddElement, FS_CardinalityType
<1>2. Cardinality(Unqueued') <= Cardinality(Unqueued \union {s})
    BY <1>1, FS_Subset
<1>3. Cardinality(Unqueued') \in Nat
    BY <1>1, FS_Subset, FS_CardinalityType
<1>. QED
    BY <1>1, <1>2, <1>3, UnqueuedFinite

\* An invocation that queues its successor hands its place in the chain over.
LEMMA HandOver ==
    ASSUME TypeOK, NEW s \in Slots, QueueNext(s)
    PROVE  Cardinality(Unqueued') <= Cardinality(Unqueued)
<1>1. PICK n \in Slots : /\ status[n] = "free"
                         /\ status' = [status EXCEPT ![s] = "queued", ![n] = "visible"]
    BY DEF QueueNext
<1>2. s \in Unqueued /\ n \notin Unqueued /\ n # s
    BY <1>1 DEF QueueNext, Unqueued
<1>3. Unqueued' = (Unqueued \ {s}) \union {n}
    BY <1>1, <1>2 DEF TypeOK, Unqueued
<1>4. /\ IsFiniteSet(Unqueued \ {s})
      /\ Cardinality(Unqueued \ {s}) = Cardinality(Unqueued) - 1
    BY <1>2, UnqueuedFinite, FS_RemoveElement
<1>5. Cardinality(Unqueued') = Cardinality(Unqueued \ {s}) + 1
    BY <1>2, <1>3, <1>4, FS_AddElement
<1>. QED
    BY <1>4, <1>5, UnqueuedFinite

\* Only a fault adds a chain.
LEMMA NextChainsBounded ==
    TypeOK /\ ChainsBounded /\ [Next]_vars => ChainsBounded'
<1> SUFFICES ASSUME TypeOK, ChainsBounded, [Next]_vars
             PROVE  ChainsBounded'
    OBVIOUS
<1> USE DEF TypeOK, Stages, Statuses
<1>1. faults \in Nat /\ Cardinality(Unqueued) <= 1 + faults
    BY ChainAssumption DEF ChainsBounded
<1>2. ASSUME Unqueued' \subseteq Unqueued, faults' = faults PROVE ChainsBounded'
    <2>1. Cardinality(Unqueued') <= Cardinality(Unqueued)
        BY <1>2, FewerChains
    <2>2. Cardinality(Unqueued') \in Nat
        BY <1>2, UnqueuedFinite, FS_Subset, FS_CardinalityType
    <2>. QED
        BY <1>1, <1>2, <2>1, <2>2, UnqueuedFinite DEF ChainsBounded
<1>3. CASE Publish
    BY <1>2, <1>3 DEF Publish, chainVars, Unqueued
<1>4. ASSUME NEW s \in Slots,
             \/ Start(s) \/ Throttle(s) \/ Poll(s) \/ Send(s)
             \/ Return(s) \/ Reappear(s) \/ Expire(s)
      PROVE  ChainsBounded'
    <2>1. Unqueued' \subseteq Unqueued
        BY <1>4 DEF Start, Throttle, Received, Poll, Send, Return, Reappear,
                    Expire, Free, Unqueued
    <2>2. faults' = faults
        BY <1>4 DEF Start, Throttle, Received, Poll, Send, Return, Reappear, Expire
    <2>. QED
        BY <1>2, <2>1, <2>2
<1>5. ASSUME NEW s \in Slots, QueueNext(s) PROVE ChainsBounded'
    <2>1. Cardinality(Unqueued') <= Cardinality(Unqueued)
        BY <1>5, HandOver
    <2>2. faults' = faults
        BY <1>5 DEF QueueNext
    <2>3. Unqueued' \in SUBSET Slots
        BY DEF Unqueued
    <2>4. Cardinality(Unqueued') \in Nat
        BY <2>3, ChainAssumption, FS_Subset, FS_CardinalityType
    <2>. QED
        BY <1>1, <2>1, <2>2, <2>4, UnqueuedFinite DEF ChainsBounded
<1>6. ASSUME NEW s \in Slots, Fail(s) PROVE ChainsBounded'
    <2>1. Unqueued' \subseteq Unqueued \union {s}
        BY <1>6 DEF Fail, Unqueued
    <2>2. faults' = faults + 1
        BY <1>6 DEF Fail
    <2>3. Unqueued' \in SUBSET Slots
        BY DEF Unqueued
    <2>4. Cardinality(Unqueued') \in Nat
        BY <2>3, ChainAssumption, FS_Subset, FS_CardinalityType
    <2>5. Cardinality(Unqueued') <= Cardinality(Unqueued) + 1
        BY <2>1, OneMoreChain
    <2>. QED
        BY <1>1, <2>2, <2>4, <2>5, UnqueuedFinite DEF ChainsBounded
<1>7. ASSUME NEW s \in Slots, KickOff(s) PROVE ChainsBounded'
    <2>1. Unqueued' = {s} /\ faults' = faults
        BY <1>7 DEF KickOff, Unqueued
    <2>2. Cardinality(Unqueued') = 1
        BY <2>1, FS_Singleton, Zenon
    <2>. QED
        BY <1>1, <2>1, <2>2 DEF ChainsBounded
<1>8. CASE UNCHANGED vars
    BY <1>2, <1>8 DEF vars, chainVars, Unqueued
<1>. QED
    BY <1>3, <1>4, <1>5, <1>6, <1>7, <1>8 DEF Next, Run

\* However a poller's invocations fail and are retried, there is never more
\* than one chain for every fault, besides the first.
THEOREM PollerChainsBounded == Spec => []ChainsBounded
<1>1. Init => ChainsBounded
    <2> SUFFICES ASSUME Init PROVE ChainsBounded
        OBVIOUS
    <2>1. Unqueued = {}
        BY DEF Init, Unqueued
    <2>2. Cardinality(Unqueued) = 0
        BY <2>1, FS_EmptySet, Zenon
    <2>. QED
        BY <2>2 DEF Init, ChainsBounded
<1>2. IInv => TypeOK
    BY DEF IInv
<1>. QED
    BY <1>1, <1>2, NextChainsBounded, PollerInvariance, PTL DEF Spec

-----------------------------------------------------------------------------
(* When a chain can end.                                                   *)

\* Faults are only added, and attempts are numbers.
LEMMA OnlyFails ==
    ASSUME TypeOK, [Next]_vars
    PROVE  /\ faults \in Nat /\ faults' \in Nat /\ faults <= faults'
           /\ \A s \in Slots : attempts[s] \in Nat
<1>1. faults \in Nat /\ \A s \in Slots : attempts[s] \in Nat
    BY ChainAssumption DEF TypeOK
<1>2. faults' = faults \/ faults' = faults + 1
    BY DEF Next, Run, Publish, Start, Throttle, Received, Poll, Send, QueueNext, Return, Fail,
       Reappear, Expire, KickOff, vars
<1>. QED
    BY <1>1, <1>2

\* Fewer faults are few enough, too.
LEMMA FewerFaults == \A a, b, c \in Nat : a <= b /\ b + 1 < c => a + 1 < c
OBVIOUS

\* While an invocation that has queued its successor runs on, the chain goes on
\* from a message that was received at most once.
LEMMA SuccessorFreshStep == IInv /\ SuccessorFresh /\ [Next]_vars => SuccessorFresh'
<1> DEFINE W(q, n) == /\ n \in Unqueued
                      /\ \/ attempts[n] = 0
                         \/ attempts[n] = 1 /\ status[n] # "visible" /\ q \in earlier[n]
<1> SUFFICES ASSUME IInv, SuccessorFresh, [Next]_vars,
                    NEW q \in Slots, status'[q] = "queued"
             PROVE  \E n \in Unqueued' : W(q, n)'
    BY DEF SuccessorFresh
<1> USE DEF Unqueued
<1>0. TypeOK /\ AttemptsLeft
    BY DEF IInv
<1>1. ASSUME NEW s \in Slots, QueueNext(s) PROVE \E n \in Unqueued' : W(q, n)'
    <2>1. PICK n \in Slots : /\ status[n] = "free"
                             /\ status' = [status EXCEPT ![s] = "queued", ![n] = "visible"]
        BY <1>1 DEF QueueNext
    <2>2. attempts'[n] = 0 /\ status'[n] = "visible"
        BY <1>0, <1>1, <2>1 DEF QueueNext, TypeOK, AttemptsLeft
    <2>. QED
        BY <2>2
<1>2. ASSUME status[q] = "queued" PROVE \E n \in Slots : W(q, n)
    BY <1>2 DEF SuccessorFresh
<1>3. ASSUME NEW s \in Slots, Start(s) \/ Throttle(s) PROVE \E n \in Unqueued' : W(q, n)'
    <2>1. status[q] = "queued"
        BY <1>0, <1>3 DEF Start, Throttle, TypeOK
    <2>2. PICK n \in Slots : W(q, n)
        BY <1>2, <2>1
    <2>3. CASE n = s
        <3>1. attempts[n] = 0 /\ q \in Running
            BY <1>3, <2>1, <2>2, <2>3 DEF Start, Throttle, Received, Running, Stages
        <3>2. attempts'[n] = 1 /\ earlier'[n] = Running
            BY <1>0, <1>3, <2>3, <3>1 DEF Start, Throttle, Received, TypeOK
        <3>3. status'[n] \in {"started", "inflight"}
            BY <1>0, <1>3, <2>3 DEF Start, Throttle, TypeOK
        <3>. QED
            BY <3>1, <3>2, <3>3
    <2>4. CASE n # s
        <3>1. /\ attempts'[n] = attempts[n] /\ earlier'[n] = earlier[n]
              /\ status'[n] = status[n]
            BY <1>0, <1>3, <2>4 DEF Start, Throttle, Received, TypeOK
        <3>. QED
            BY <2>2, <3>1
    <2>. QED
        BY <2>3, <2>4
<1>4. ASSUME NEW s \in Slots, Poll(s) \/ Send(s) PROVE \E n \in Unqueued' : W(q, n)'
    <2>1. /\ status[q] = "queued" /\ UNCHANGED <<attempts, earlier>>
          /\ \A n \in Slots : status'[n] = status[n]
                           \/ (status[n] = "started" /\ status'[n] = "sending")
        BY <1>0, <1>4 DEF Poll, Send, TypeOK
    <2>2. PICK n \in Slots : W(q, n)
        BY <1>2, <2>1
    <2>3. W(q, n)' /\ n \in Unqueued'
        BY <2>1, <2>2
    <2>. QED
        BY <2>3
<1>5. ASSUME NEW s \in Slots, Return(s) \/ Fail(s) PROVE \E n \in Unqueued' : W(q, n)'
    <2>1. status[q] = "queued" /\ q # s
        BY <1>0, <1>5 DEF Return, Free, Fail, TypeOK
    <2>2. PICK n \in Slots : W(q, n)
        BY <1>2, <2>1
    <2>3. Return(s) => n # s
        BY <2>2 DEF Return
    <2>4. /\ attempts'[n] = attempts[n] /\ earlier'[n] = earlier[n] \ {s}
          /\ status'[n] = status[n] \/ status'[n] = "inflight"
        BY <1>0, <1>5, <2>3 DEF Return, Free, Fail, Over, TypeOK
    <2>5. W(q, n)' /\ n \in Unqueued'
        BY <2>1, <2>2, <2>4
    <2>. QED
        BY <2>5
<1>6. ASSUME NEW s \in Slots, Reappear(s) \/ Expire(s) PROVE \E n \in Unqueued' : W(q, n)'
    <2>1. status[q] = "queued" /\ earlier[s] = {}
        BY <1>0, <1>6 DEF Reappear, Expire, Free, TypeOK
    <2>2. PICK n \in Slots : W(q, n)
        BY <1>2, <2>1
    <2>3. n = s => attempts[n] = 0 /\ Reappear(s)
        BY <1>6, <2>1, <2>2, ChainAssumption DEF Expire
    <2>4. CASE n = s
        <3>1. attempts'[n] = 0 /\ status'[n] = "visible"
            BY <1>0, <2>3, <2>4 DEF Reappear, TypeOK
        <3>. QED
            BY <3>1
    <2>5. CASE n # s
        <3>1. /\ attempts'[n] = attempts[n] /\ status'[n] = status[n]
              /\ earlier'[n] = earlier[n] \/ earlier'[n] = earlier[n] \ {s}
            BY <1>0, <1>6, <2>5 DEF Reappear, Expire, Free, Over, TypeOK
        <3>2. q # s
            BY <1>6, <2>1 DEF Reappear, Expire
        <3>3. W(q, n)' /\ n \in Unqueued'
            BY <2>2, <3>1, <3>2
        <3>. QED
            BY <3>3
    <2>. QED
        BY <2>4, <2>5
<1>7. ASSUME NEW s \in Slots, KickOff(s) PROVE FALSE
    BY <1>0, <1>7 DEF KickOff, TypeOK
<1>8. CASE Publish \/ UNCHANGED vars
    <2>1. UNCHANGED <<status, attempts, earlier>>
        BY <1>8 DEF Publish, vars, chainVars
    <2>2. PICK n \in Slots : W(q, n)
        BY <1>2, <2>1
    <2>3. W(q, n)' /\ n \in Unqueued'
        BY <2>1, <2>2
    <2>. QED
        BY <2>3
<1>. QED
    BY <1>1, <1>3, <1>4, <1>5, <1>6, <1>7, <1>8 DEF Next, Run

\* Some message always has an attempt to spare, while faults are few.
LEMMA ChainHoldsStep ==
    IInv /\ SuccessorFresh /\ ChainHolds /\ [Next]_vars /\ TypeOK' /\ SuccessorFresh'
        => ChainHolds'
<1> DEFINE Spent(s) == attempts[s] <= faults + (IF Undecided(s) THEN 2 ELSE 1)
<1> SUFFICES ASSUME IInv, SuccessorFresh, ChainHolds, [Next]_vars, TypeOK', SuccessorFresh',
                    (faults + 1 < MaxAttempts)', (Alive # {})'
             PROVE  \E s \in Unqueued' : Spent(s)'
    BY DEF ChainHolds
<1>0. TypeOK /\ AttemptsLeft /\ faults \in Nat /\ faults' \in Nat /\ faults <= faults'
      /\ (\A s \in Slots : attempts[s] \in Nat) /\ MaxAttempts \in Nat
    BY OnlyFails, ChainAssumption DEF IInv
<1>1. ASSUME NEW s \in Slots, KickOff(s) PROVE \E n \in Unqueued' : Spent(n)'
    <2>1. status'[s] = "visible" /\ attempts'[s] = 0
        BY <1>0, <1>1 DEF KickOff, TypeOK, AttemptsLeft
    <2>. QED
        BY <1>0, <2>1 DEF Unqueued
<1>2. ASSUME Alive # {} PROVE \E s \in Unqueued : Spent(s)
    <2>1. faults + 1 < MaxAttempts
        BY <1>0, FewerFaults
    <2>. QED
        BY <1>2, <2>1 DEF ChainHolds
<1>3. ASSUME NEW q \in Slots, status'[q] = "queued" PROVE \E n \in Unqueued' : Spent(n)'
    <2>1. PICK n \in Unqueued' : attempts'[n] = 0 \/ attempts'[n] = 1
        BY <1>3 DEF SuccessorFresh
    <2>. QED
        BY <1>0, <2>1
<1>4. ASSUME NEW s \in Slots, Start(s) \/ Throttle(s), \A q \in Slots : status'[q] # "queued"
      PROVE  \E n \in Unqueued' : Spent(n)'
    <2>1. s \in Alive /\ status[s] = "visible" /\ faults' = faults
          /\ attempts'[s] = attempts[s] + 1 /\ earlier'[s] = Running
          /\ \A n \in Slots \ {s} : /\ attempts'[n] = attempts[n] /\ earlier'[n] = earlier[n]
                                    /\ status'[n] = status[n]
        BY <1>0, <1>4 DEF Start, Throttle, Received, TypeOK, Alive
    <2>2. PICK n \in Unqueued : Spent(n)
        BY <1>2, <2>1
    <2>3. CASE n = s
        <3>1. ~Undecided(n) /\ attempts[n] <= faults + 1
            BY <2>1, <2>2, <2>3 DEF Undecided, Working
        <3>2. Undecided(n)'
            <4>1. CASE Start(s)
                BY <1>0, <2>3, <4>1 DEF Start, Undecided, Working, TypeOK
            <4>2. CASE Throttle(s)
                <5>1. Cardinality(Running) # 0
                    BY <4>2, ChainAssumption DEF Throttle
                <5>2. PICK r \in Running : TRUE
                    BY <5>1, FS_EmptySet
                <5>3. r # s /\ status'[r] \in {"started", "sending"}
                    BY <1>4, <2>1, <5>2 DEF Running, Stages
                <5>4. r \in Working' /\ r \in earlier'[s] /\ status'[s] = "inflight"
                    BY <1>0, <2>1, <4>2, <5>2, <5>3 DEF Working, Throttle, TypeOK, Running
                <5>. QED
                    BY <2>3, <5>4 DEF Undecided
            <4>. QED
                BY <1>4, <4>1, <4>2
        <3>3. n \in Unqueued'
            BY <1>0, <1>4, <2>3 DEF Unqueued, Start, Throttle, TypeOK
        <3>. QED
            BY <1>0, <2>1, <2>3, <3>1, <3>2, <3>3
    <2>4. CASE n # s
        <3>1. n \in Unqueued' /\ n \in Slots
            BY <2>1, <2>4 DEF Unqueued
        <3>2. s \notin Working
            BY <2>1 DEF Working
        <3>3. Undecided(n) => Undecided(n)'
            BY <2>1, <2>4, <3>1, <3>2 DEF Undecided, Working
        <3>. QED
            BY <1>0, <2>1, <2>2, <2>4, <3>1, <3>3
    <2>. QED
        BY <2>3, <2>4
<1>5. ASSUME NEW s \in Slots, Poll(s) \/ Send(s) PROVE \E n \in Unqueued' : Spent(n)'
    <2>1. s \in Alive /\ UNCHANGED <<attempts, earlier, faults>>
          /\ \A n \in Slots : status'[n] = status[n]
                           \/ (status[n] = "started" /\ status'[n] = "sending")
        BY <1>0, <1>5 DEF Poll, Send, TypeOK, Alive
    <2>2. PICK n \in Unqueued : Spent(n)
        BY <1>2, <2>1
    <2>3. n \in Slots /\ n \in Unqueued' /\ Working \subseteq Working'
        BY <2>1 DEF Unqueued, Working
    <2>4. Undecided(n) => Undecided(n)'
        BY <2>1, <2>3 DEF Undecided, Unqueued
    <2>. QED
        BY <1>0, <2>1, <2>2, <2>3, <2>4
<1>6. ASSUME NEW s \in Slots, Return(s) PROVE \E n \in Unqueued' : Spent(n)'
    <2>1. s \in Alive /\ status[s] = "queued" /\ faults' = faults
          /\ (\A n \in Slots : earlier'[n] = earlier[n] \ {s})
          /\ \A n \in Slots \ {s} : attempts'[n] = attempts[n] /\ status'[n] = status[n]
        BY <1>0, <1>6 DEF Return, Free, Over, TypeOK, Alive
    <2>2. PICK n \in Unqueued : Spent(n)
        BY <1>2, <2>1
    <2>3. n \in Slots /\ n # s /\ n \in Unqueued' /\ s \notin Working
        BY <2>1 DEF Unqueued, Working
    <2>4. Undecided(n) => Undecided(n)'
        BY <2>1, <2>3 DEF Undecided, Working
    <2>. QED
        BY <1>0, <2>1, <2>2, <2>3, <2>4
<1>7. ASSUME NEW s \in Slots, Fail(s) PROVE \E n \in Unqueued' : Spent(n)'
    <2>1. /\ s \in Alive /\ faults' = faults + 1 /\ UNCHANGED attempts
          /\ \A n \in Slots : status'[n] = status[n] \/ status'[n] = "inflight"
        BY <1>0, <1>7 DEF Fail, TypeOK, Alive, Stages
    <2>2. PICK n \in Unqueued : Spent(n)
        BY <1>2, <2>1
    <2>3. n \in Unqueued' /\ n \in Slots
        BY <2>1 DEF Unqueued
    <2>4. attempts'[n] <= faults' + 1
        BY <1>0, <2>1, <2>2, <2>3
    <2>. QED
        BY <1>0, <2>1, <2>3, <2>4
<1>8. ASSUME NEW s \in Slots, Reappear(s) \/ Expire(s) PROVE \E n \in Unqueued' : Spent(n)'
    <2>1. /\ s \in Alive /\ status[s] = "inflight" /\ earlier[s] = {} /\ faults' = faults
          /\ \A n \in Slots \ {s} : /\ attempts'[n] = attempts[n] /\ status'[n] = status[n]
                                    /\ earlier'[n] = earlier[n] \/ earlier'[n] = earlier[n] \ {s}
        BY <1>0, <1>8 DEF Reappear, Expire, Free, Over, TypeOK, Alive
    <2>2. PICK n \in Unqueued : Spent(n)
        BY <1>2, <2>1
    <2>3. CASE n = s
        <3>1. ~Undecided(n) /\ attempts[n] <= faults + 1
            BY <2>1, <2>2, <2>3 DEF Undecided, Working
        <3>2. Reappear(s)
            BY <1>0, <1>8, <2>1, <2>3, <3>1 DEF Expire
        <3>3. n \in Unqueued' /\ attempts'[n] = attempts[n]
            BY <1>0, <2>3, <3>2 DEF Unqueued, Reappear, TypeOK
        <3>4. attempts'[n] <= faults' + 1
            BY <1>0, <2>1, <2>3, <3>1, <3>3
        <3>. QED
            BY <1>0, <2>1, <2>3, <3>3, <3>4
    <2>4. CASE n # s
        <3>1. n \in Slots /\ n \in Unqueued' /\ s \notin Working
            BY <2>1, <2>4 DEF Unqueued, Working
        <3>2. Undecided(n) => Undecided(n)'
            BY <2>1, <2>4, <3>1 DEF Undecided, Working
        <3>. QED
            BY <1>0, <2>1, <2>2, <2>4, <3>1, <3>2
    <2>. QED
        BY <2>3, <2>4
<1>9. CASE Publish \/ UNCHANGED vars
    <2>1. UNCHANGED <<status, attempts, earlier, faults>>
        BY <1>9 DEF Publish, vars, chainVars
    <2>2. PICK n \in Unqueued : Spent(n)
        BY <1>2, <2>1 DEF Alive
    <2>3. n \in Unqueued' /\ Spent(n)'
        BY <2>1, <2>2 DEF Unqueued, Undecided, Working
    <2>. QED
        BY <2>3
<1>. QED
    <2>1. ASSUME NEW s \in Slots, QueueNext(s) PROVE status'[s] = "queued"
        BY <1>0, <2>1 DEF QueueNext, TypeOK
    <2>. QED
        BY <1>1, <1>3, <1>4, <1>5, <1>6, <1>7, <1>8, <1>9, <2>1 DEF Next, Run

\* The invariant behind KeepsGoing holds in every reachable state.
THEOREM PollerGoingInvariance == Spec => []GoingInv
<1>1. Init => SuccessorFresh /\ ChainHolds
    BY DEF Init, SuccessorFresh, ChainHolds, Alive
<1>2. IInv /\ SuccessorFresh /\ [Next]_vars => SuccessorFresh'
    BY SuccessorFreshStep
<1>3. IInv /\ SuccessorFresh /\ ChainHolds /\ [Next]_vars /\ IInv' /\ SuccessorFresh'
        => ChainHolds'
    BY ChainHoldsStep DEF IInv
<1>. QED
    BY <1>1, <1>2, <1>3, PollerInvariance, PTL DEF Spec, GoingInv

\* Fewer faults than a message has attempts, less one for being throttled, do
\* not end a poller's chain, however many chains the faults make and however
\* they hold each other up.
THEOREM PollerKeepsGoing == Spec => KeepsGoing
<1>1. GoingInv /\ [Next]_vars
        => [faults' + 1 < MaxAttempts /\ Alive # {} => Alive' # {}]_vars
    <2> SUFFICES ASSUME GoingInv, Next, faults' + 1 < MaxAttempts, Alive # {}
                 PROVE  Alive' # {}
        OBVIOUS
    <2>0. /\ TypeOK /\ faults \in Nat /\ faults' \in Nat /\ faults <= faults'
          /\ MaxAttempts \in Nat /\ \A s \in Slots : attempts[s] \in Nat
        BY OnlyFails, ChainAssumption DEF GoingInv, IInv
    <2>1. PICK n \in Unqueued : attempts[n] <= faults + (IF Undecided(n) THEN 2 ELSE 1)
        <3>1. faults + 1 < MaxAttempts
            BY <2>0, FewerFaults
        <3>. QED
            BY <3>1 DEF GoingInv, ChainHolds
    <2>2. n \in Slots /\ status[n] # "free" /\ status[n] # "queued"
        BY DEF Unqueued
    <2>3. ASSUME Expire(n) PROVE FALSE
        <3>1. status[n] = "inflight" /\ earlier[n] = {} /\ attempts[n] = MaxAttempts
              /\ faults' = faults
            BY <2>3 DEF Expire
        <3>2. ~Undecided(n)
            BY <3>1 DEF Undecided, Working
        <3>. QED
            BY <2>0, <2>1, <2>2, <3>1, <3>2
    <2>4. ASSUME NEW s \in Slots, Return(s) \/ (Expire(s) /\ s # n) PROVE status'[n] # "free"
        BY <2>0, <2>2, <2>4 DEF Return, Expire, Free, TypeOK
    <2>5. ASSUME NEW s \in Slots, \/ Start(s) \/ Throttle(s) \/ Poll(s) \/ Send(s) \/ Fail(s)
                                  \/ Reappear(s) \/ KickOff(s)
          PROVE  status'[n] # "free"
        BY <2>0, <2>2, <2>5
        DEF Start, Throttle, Poll, Send, Fail, Reappear, KickOff, TypeOK
    <2>6. ASSUME NEW s \in Slots, QueueNext(s) PROVE status'[n] # "free"
        BY <2>0, <2>2, <2>6 DEF QueueNext, TypeOK
    <2>7. Publish => status'[n] # "free"
        BY <2>2 DEF Publish, chainVars
    <2>8. status'[n] # "free"
        BY <2>3, <2>4, <2>5, <2>6, <2>7 DEF Next, Run
    <2>. QED
        BY <2>2, <2>8 DEF Alive
<1>. QED
    BY <1>1, PollerGoingInvariance, PTL DEF Spec, KeepsGoing
=============================================================================
