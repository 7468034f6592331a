-------------------------- MODULE EventSourceQueue --------------------------
(***************************************************************************)
(* An SQS queue feeding a Lambda function through an event source mapping, *)
(* as createTopicQueue (cdk/lib/wires-feeds.ts) and the SqsEventSource of  *)
(* cdk/lib/newswires.ts configure it: standard delivery, a visibility      *)
(* timeout longer than any invocation, a dead letter queue after           *)
(* MaxReceiveCount receives, batches, and partial batch responses          *)
(* (reportBatchItemFailures).  FeedIngestion instantiates it once for the  *)
(* fingerpost queue and once for the source queue.                         *)
(***************************************************************************)
EXTENDS Naturals, FiniteSets

CONSTANTS
    Message,          \* every message the queue may ever hold
    MaxReceiveCount,  \* maxReceiveCount of the redrive policy
    BatchSize,        \* most records one invocation is handed
    Concurrency       \* most invocations that run at once

VARIABLES
    state,            \* where each message is
    receives,         \* SQS's receive count of each message
    invocations       \* the batches of the invocations that are running

QueueState == {"absent", "visible", "inflight", "deleted", "dead"}

TypeOK ==
    /\ state \in [Message -> QueueState]
    /\ receives \in [Message -> 0..MaxReceiveCount]
    /\ invocations \in SUBSET (SUBSET Message)

Init ==
    /\ state = [m \in Message |-> "absent"]
    /\ receives = [m \in Message |-> 0]
    /\ invocations = {}

\* The messages some running invocation was handed.
Held == UNION invocations

-----------------------------------------------------------------------------
\* A new message arrives; it is visible to the event source at once.
Send(m) ==
    /\ state[m] = "absent"
    /\ state' = [state EXCEPT ![m] = "visible"]
    /\ UNCHANGED <<receives, invocations>>

\* The event source receives a batch and invokes the function with it.
Receive(batch) ==
    /\ batch # {}
    /\ Cardinality(batch) <= BatchSize
    /\ Cardinality(invocations) < Concurrency
    /\ \A m \in batch : state[m] = "visible" /\ receives[m] < MaxReceiveCount
    /\ state' = [m \in Message |-> IF m \in batch THEN "inflight" ELSE state[m]]
    /\ receives' = [m \in Message |->
                      IF m \in batch THEN receives[m] + 1 ELSE receives[m]]
    /\ invocations' = invocations \union {batch}

\* The function returned batchItemFailures = batch \ done: the rest of the
\* batch is deleted, the failures stay in flight until they time out.
Respond(batch, done) ==
    /\ batch \in invocations
    /\ done \subseteq batch
    /\ state' = [m \in Message |-> IF m \in done THEN "deleted" ELSE state[m]]
    /\ invocations' = invocations \ {batch}
    /\ UNCHANGED receives

\* The invocation threw, timed out or was throttled: nothing is deleted.
Crash(batch) ==
    /\ batch \in invocations
    /\ invocations' = invocations \ {batch}
    /\ UNCHANGED <<state, receives>>

\* The visibility timeout passes.  It is five minutes and no invocation runs
\* that long, so it never passes while an invocation holds the message.
VisibilityTimeout(m) ==
    /\ state[m] = "inflight"
    /\ m \notin Held
    /\ state' = [state EXCEPT ![m] = "visible"]
    /\ UNCHANGED <<receives, invocations>>

\* Mutant: the message goes to the dead letter queue one receive early.
RedriveEarly(m) ==
    /\ state[m] = "visible"
    /\ receives[m] = MaxReceiveCount - 1
    /\ state' = [state EXCEPT ![m] = "dead"]
    /\ UNCHANGED <<receives, invocations>>

\* SQS moves a message received MaxReceiveCount times to the dead letter queue.
Redrive(m) ==
    /\ state[m] = "visible"
    /\ receives[m] = MaxReceiveCount
    /\ state' = [state EXCEPT ![m] = "dead"]
    /\ UNCHANGED <<receives, invocations>>

=============================================================================
