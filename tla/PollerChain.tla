---------------------------- MODULE PollerChain ----------------------------
(***************************************************************************)
(* A poller lambda (poller-lambdas/src/index.ts, pollerWrapper) and the    *)
(* queue through which it invokes itself (cdk pollerLambda.ts).  Each      *)
(* message carries the value for the next poll, here a position in the     *)
(* agency's feed; an invocation polls from there, sends what it got to the *)
(* ingestion lambda item by item, queues its successor, stores a renewed   *)
(* secret, and returns, whereupon SQS deletes its own message.  When it    *)
(* throws or times out instead, its message comes back.                    *)
(***************************************************************************)
EXTENDS Naturals, FiniteSets

CONSTANTS
    FeedLength,    \* bound: how many items the agency ever publishes
    Unusable,      \* items a poller leaves out (apPoller: no NITF rendition)
    PageSize,      \* items in a page of the feed
    Concurrency,   \* reservedConcurrentExecutions of a poller lambda
    MaxAttempts,   \* receives of a message before its retention period is over
    MaxFaults,     \* bound: how often an invocation throws or times out
    MaxOmissions,  \* bound: answers of the agency without a next_page
    Slots          \* room for the messages alive at once

ASSUME ChainAssumption ==
    /\ FeedLength \in Nat /\ Unusable \subseteq 1..FeedLength
    /\ PageSize \in Nat \ {0}
    /\ Concurrency \in Nat \ {0}
    /\ MaxAttempts \in Nat \ {0}
    /\ MaxFaults \in Nat /\ MaxOmissions \in Nat
    /\ IsFiniteSet(Slots) /\ Slots # {}

Position == 0..FeedLength
Items == 1..FeedLength

\* The value for the next poll: a position, or the URL without one
\* (defaultFeedUrl of apPoller), which answers with the newest page.
Default == FeedLength + 1
Cursors == Position \union {Default}

VARIABLES
    published,   \* items 1..published are in the agency's feed
    status,      \* what each message is doing
    cursor,      \* its body: the position to poll from
    attempts,    \* its receive count
    todo,        \* items its invocation has still to send
    next,        \* valueForNextPoll, once its invocation has polled
    earlier,     \* the invocations that were running when it was received
    ingested,    \* items handed to S3 and the ingestion queue
    skipped,     \* items that a poll without a position left behind it
    faults, omissions

chainVars == <<status, cursor, attempts, todo, next, earlier>>
vars == <<published, chainVars, ingested, skipped, faults, omissions>>

\* free: no message.  visible: waiting.  inflight: its invocation failed and
\* the visibility timeout runs.  The others: the stages of its invocation.
Stages == {"started", "sending", "queued"}
Statuses == {"free", "visible", "inflight"} \union Stages

Running == {s \in Slots : status[s] \in Stages}
Alive == {s \in Slots : status[s] # "free"}

TypeOK ==
    /\ published \in Position
    /\ status \in [Slots -> Statuses]
    /\ cursor \in [Slots -> Cursors]
    /\ attempts \in [Slots -> 0..MaxAttempts]
    /\ todo \in [Slots -> SUBSET Items]
    /\ next \in [Slots -> Cursors]
    /\ earlier \in [Slots -> SUBSET Slots]
    /\ ingested \in SUBSET Items /\ skipped \in SUBSET Items
    /\ faults \in 0..MaxFaults /\ omissions \in 0..MaxOmissions

\* The queue is deployed empty: a developer has yet to kick the poller off.
Init ==
    /\ published = 0
    /\ status = [s \in Slots |-> "free"]
    /\ cursor = [s \in Slots |-> 0]
    /\ attempts = [s \in Slots |-> 0]
    /\ todo = [s \in Slots |-> {}]
    /\ next = [s \in Slots |-> 0]
    /\ earlier = [s \in Slots |-> {}]
    /\ ingested = {} /\ skipped = {}
    /\ faults = 0 /\ omissions = 0

-----------------------------------------------------------------------------
\* The agency publishes an item.
Publish ==
    /\ published < FeedLength
    /\ published' = published + 1
    /\ UNCHANGED <<chainVars, ingested, faults, skipped, omissions>>

\* The event source receives a message (batchSize 1): its visibility timeout
\* starts.
Received(s) ==
    /\ status[s] = "visible"
    /\ attempts' = [attempts EXCEPT ![s] = @ + 1]
    /\ earlier' = [earlier EXCEPT ![s] = Running]
    /\ UNCHANGED <<published, cursor, todo, next, ingested, faults, skipped, omissions>>

\* It invokes the lambda, or the invocation is throttled.
Start(s) ==
    /\ Received(s)
    /\ Cardinality(Running) < Concurrency
    /\ status' = [status EXCEPT ![s] = "started"]

Throttle(s) ==
    /\ Received(s)
    /\ Cardinality(Running) = Concurrency
    /\ status' = [status EXCEPT ![s] = "inflight"]

\* The invocation of s is over.
Over(s) == earlier' = [t \in Slots |-> earlier[t] \ {s}]

\* pollerFunction: the page after the cursor, and where the next one starts,
\* unless the agency sends no next_page.
From(c) == IF c # Default THEN c
           ELSE IF PageSize <= published THEN published - PageSize ELSE 0
PageEnd(from) == IF from + PageSize <= published THEN from + PageSize ELSE published
Poll(s) ==
    /\ status[s] = "started"
    /\ LET from == From(cursor[s])
       IN  /\ \/ next' = [next EXCEPT ![s] = PageEnd(from)] /\ UNCHANGED omissions
              \/ /\ omissions < MaxOmissions /\ omissions' = omissions + 1
                 /\ next' = [next EXCEPT ![s] = Default]
           /\ todo' = [todo EXCEPT ![s] = ((from + 1)..PageEnd(from)) \ Unusable]
           /\ skipped' = IF cursor[s] = Default
                         THEN skipped \union ((1..from) \ (Unusable \union ingested))
                         ELSE skipped
    /\ status' = [status EXCEPT ![s] = "sending"]
    /\ UNCHANGED <<published, cursor, attempts, earlier, ingested, faults>>

\* putToS3AndQueueIngestion of the next item, in the order of the page.
Send(s) ==
    /\ status[s] = "sending"
    /\ \E i \in todo[s] :
          /\ \A j \in todo[s] : i <= j
          /\ todo' = [todo EXCEPT ![s] = @ \ {i}]
          /\ ingested' = ingested \union {i}
    /\ UNCHANGED <<published, status, cursor, attempts, next, earlier, faults, skipped,
                   omissions>>

\* Mutants: the successor is queued before the items are sent; not at all; or
\* with the cursor of this poll.
QueueNextFirst(s) ==
    /\ status[s] = "sending"
    /\ \E n \in Slots :
          /\ status[n] = "free"
          /\ status' = [status EXCEPT ![s] = "queued", ![n] = "visible"]
          /\ cursor' = [cursor EXCEPT ![n] = next[s]]
    /\ UNCHANGED <<published, attempts, todo, next, earlier, ingested, faults, skipped,
                   omissions>>

QueueNothing(s) ==
    /\ status[s] = "sending"
    /\ todo[s] = {}
    /\ status' = [status EXCEPT ![s] = "queued"]
    /\ UNCHANGED <<published, cursor, attempts, todo, next, earlier, ingested, faults,
                   skipped, omissions>>

QueueSame(s) ==
    /\ status[s] = "sending"
    /\ todo[s] = {}
    /\ \E n \in Slots :
          /\ status[n] = "free"
          /\ status' = [status EXCEPT ![s] = "queued", ![n] = "visible"]
          /\ cursor' = [cursor EXCEPT ![n] = cursor[s]]
    /\ UNCHANGED <<published, attempts, todo, next, earlier, ingested, faults, skipped,
                   omissions>>

\* queueNextInvocation, once every item has been sent.
QueueNext(s) ==
    /\ status[s] = "sending"
    /\ todo[s] = {}
    /\ \E n \in Slots :
          /\ status[n] = "free"
          /\ status' = [status EXCEPT ![s] = "queued", ![n] = "visible"]
          /\ cursor' = [cursor EXCEPT ![n] = next[s]]
    /\ UNCHANGED <<published, attempts, todo, next, earlier, ingested, faults, skipped,
                   omissions>>

\* A message is gone: its slot is as good as new.
Free(s) ==
    /\ status' = [status EXCEPT ![s] = "free"]
    /\ cursor' = [cursor EXCEPT ![s] = 0]
    /\ attempts' = [attempts EXCEPT ![s] = 0]
    /\ next' = [next EXCEPT ![s] = 0]
    /\ Over(s)
    /\ UNCHANGED todo

\* A renewed secret, if any, is stored, the handler returns, and SQS deletes
\* the message.
Return(s) ==
    /\ status[s] = "queued"
    /\ Free(s)
    /\ UNCHANGED <<published, ingested, faults, skipped, omissions>>

\* Mutant: the catch block queues the successor too, as its comment considers.
FailAndQueue(s) ==
    /\ status[s] \in Stages
    /\ faults < MaxFaults
    /\ faults' = faults + 1
    /\ \E n \in Slots :
          /\ status[n] = "free"
          /\ status' = [status EXCEPT ![s] = "inflight", ![n] = "visible"]
          /\ cursor' = [cursor EXCEPT ![n] = cursor[s]]
    /\ todo' = [todo EXCEPT ![s] = {}]
    /\ next' = [next EXCEPT ![s] = 0]
    /\ Over(s)
    /\ UNCHANGED <<published, attempts, ingested, skipped, omissions>>

\* Anything in pollerWrapper throws (no secret, the poll, a put or a send, the
\* queueing of the successor, the storing of the secret), or the lambda times
\* out.  A call that took effect and then failed is that effect, then this.
Fail(s) ==
    /\ status[s] \in Stages
    /\ faults < MaxFaults
    /\ faults' = faults + 1
    /\ status' = [status EXCEPT ![s] = "inflight"]
    /\ todo' = [todo EXCEPT ![s] = {}]
    /\ next' = [next EXCEPT ![s] = 0]
    /\ Over(s)
    /\ UNCHANGED <<published, cursor, attempts, ingested, skipped, omissions>>

\* The visibility timeout passes; the message returns, or its retention period
\* is over and SQS drops it (there is no dead letter queue).  The lambda's own
\* timeout is as long, so the invocations that were running when the message
\* was received are over by then.
Reappear(s) ==
    /\ status[s] = "inflight"
    /\ earlier[s] = {}
    /\ attempts[s] < MaxAttempts
    /\ status' = [status EXCEPT ![s] = "visible"]
    /\ UNCHANGED <<published, cursor, attempts, todo, next, earlier, ingested, faults,
                   skipped, omissions>>

Expire(s) ==
    /\ status[s] = "inflight"
    /\ earlier[s] = {}
    /\ attempts[s] = MaxAttempts
    /\ Free(s)
    /\ UNCHANGED <<published, ingested, faults, skipped, omissions>>

\* A developer sends the first message, or restarts a poller that has stalled,
\* from a position the README leaves to them: here one up to which every item
\* has been ingested.
KickOff(s) ==
    /\ \A t \in Slots : status[t] = "free"
    /\ \E p \in 0..published :
          /\ (1..p) \ Unusable \subseteq ingested
          /\ cursor' = [cursor EXCEPT ![s] = p]
    /\ status' = [status EXCEPT ![s] = "visible"]
    /\ UNCHANGED <<published, attempts, todo, next, earlier, ingested, faults, skipped,
                   omissions>>

Run(s) == Poll(s) \/ Send(s) \/ QueueNext(s) \/ Return(s)

Next ==
    \/ Publish
    \/ \E s \in Slots : \/ Start(s) \/ Throttle(s) \/ Run(s) \/ Fail(s)
                        \/ Reappear(s) \/ Expire(s) \/ KickOff(s)

Spec == Init /\ [][Next]_vars

\* SQS offers a waiting message again and again, and an invocation runs on.
FairSpec ==
    Spec /\ \A s \in Slots : WF_vars(Run(s) \/ Reappear(s)) /\ SF_vars(Start(s))

-----------------------------------------------------------------------------
\* The cursor never runs ahead of the items: whatever a message would skip has
\* been handed to the ingestion lambda, so a crash anywhere loses no item; only
\* an answer without a next_page leaves behind what is older than a page.
NothingSkipped ==
    \A s \in Alive :
        cursor[s] # Default => (1..cursor[s]) \ Unusable \subseteq ingested \union skipped

\* The poller stalls only after about as many faults as a message has attempts
\* (one attempt may be spent on being throttled): after fewer, no step ends the
\* chain.
KeepsGoing ==
    [][faults' + 1 < MaxAttempts /\ Alive # {} => Alive' # {}]_vars

\* A message whose invocation has not queued its successor yet.
Unqueued == {s \in Slots : status[s] \notin {"free", "queued"}}

\* Each fault forks the chain at most once: there are never more chains than
\* one plus the faults so far.
ChainsBounded == Cardinality(Unqueued) <= 1 + faults

\* What the comment in pollerLambda.ts says: one lambda at a time, save for
\* one that has queued its successor and is about to return.
OneAtATime == Cardinality({s \in Running : status[s] # "queued"}) <= 1

\* What makes NothingSkipped inductive: an invocation that is sending has
\* ingested, or has yet to send, all that its successor will skip; and a
\* message that is offered has an attempt left.
PageAccounted ==
    \A s \in Slots : status[s] = "sending" /\ next[s] # Default =>
        (1..next[s]) \ Unusable \subseteq ingested \union todo[s] \union skipped

AttemptsLeft ==
    \A s \in Slots : /\ status[s] = "free" => attempts[s] = 0
                     /\ status[s] = "visible" => attempts[s] < MaxAttempts

IInv == TypeOK /\ AttemptsLeft /\ PageAccounted /\ NothingSkipped

\* What makes KeepsGoing hold.  While an invocation that has queued its
\* successor runs on, the chain goes on from a message that was received at
\* most once: being received then, it waits until that invocation is over.
SuccessorFresh ==
    \A q \in Slots : status[q] = "queued" =>
        \E n \in Unqueued :
            \/ attempts[n] = 0
            \/ attempts[n] = 1 /\ status[n] # "visible" /\ q \in earlier[n]

\* Some message has spent no more attempts than there were faults, but for one
\* on which it was throttled, and for one of an invocation that is still to
\* succeed or to fail: its own, or one that it waits for.
Working == {s \in Slots : status[s] \in {"started", "sending"}}
Undecided(s) == s \in Working \/ (status[s] = "inflight" /\ earlier[s] \intersect Working # {})
ChainHolds ==
    faults + 1 < MaxAttempts /\ Alive # {} =>
        \E s \in Unqueued : attempts[s] <= faults + (IF Undecided(s) THEN 2 ELSE 1)

GoingInv == IInv /\ SuccessorFresh /\ ChainHolds

\* Once kicked off, and while the poller cannot have stalled, whatever the
\* agency publishes reaches the ingestion lambda, unless it was left behind.
EventuallyIngested ==
    \A i \in Items \ Unusable :
        published >= i /\ Alive # {} ~> (i \in ingested \union skipped \/ faults + 1 >= MaxAttempts)
=============================================================================
