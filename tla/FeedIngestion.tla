--------------------------- MODULE FeedIngestion ---------------------------
(***************************************************************************)
(* The path of a Fingerpost message into the database:                     *)
(*                                                                         *)
(*   fingerpost queue -> fingerpost-queueing-lambda -> S3 + source queue   *)
(*                    -> ingestion-lambda -> fingerpost_wire_entry         *)
(*                                                                         *)
(* A published message stands for its own body; an S3 object and a row     *)
(* hold the message whose body they hold.  A source queue message is the   *)
(* pair <<m, n>>: the one the n-th delivery of m sent.                     *)
(***************************************************************************)
EXTENDS Naturals, Sequences, FiniteSets

CONSTANTS
    Messages,           \* the messages Fingerpost publishes
    ExternalIds,        \* values of the Message-Id attribute
    NoExternalId,       \* the attribute is absent or blank
    NoObject,           \* no S3 object under that key
    ExternalId,         \* the Message-Id of each message
    Kind,               \* what processFingerpostJsonContent makes of each body
    MaxReceiveCount,    \* redrive policy of both queues
    BatchSize,          \* records per invocation
    QueueingConcurrency,   \* invocations of fingerpost-queueing-lambda
    IngestionConcurrency,  \* reservedConcurrentExecutions of ingestion-lambda
    MaxFaults           \* bound: how often a service call fails or a lambda dies

Kinds == {"story", "heartbeat", "unparseable"}

ASSUME MessagesAssumption ==
    /\ ExternalId \in [Messages -> ExternalIds \union {NoExternalId}]
    /\ Kind \in [Messages -> Kinds]
    /\ NoExternalId \notin ExternalIds
    /\ NoObject \notin Messages

ASSUME BoundsAssumption ==
    /\ MaxReceiveCount \in Nat \ {0}
    /\ MaxFaults \in Nat

\* Fingerpost does not give a heartbeat the external id of a story.
ASSUME HeartbeatAssumption ==
    \A m, n \in Messages :
        ExternalId[m] = ExternalId[n] /\ Kind[m] = "heartbeat" => Kind[n] = "heartbeat"

HasExternalId(m) == ExternalId[m] # NoExternalId
Deliveries == 1..MaxReceiveCount
Identified == {m \in Messages : HasExternalId(m)}
Copies == Identified \X Deliveries
IdOf(c) == ExternalId[c[1]]

VARIABLES
    fpState, fpReceives, fpInvocations,   \* the fingerpost queue
    fpStage,      \* how far the queueing lambda is with a record
    archive,      \* feeds bucket: fingerpost-queueing-lambda/<externalId>.json
    quarantine,   \* feeds bucket: GuMissingExternalId/<sqsMessageId>.json
    inState, inReceives, inInvocations,   \* the source queue
    inStage,      \* how far the ingestion lambda is with a record
    inBody,       \* the S3 body the ingestion lambda read for a record
    rows,         \* the rows of each external id, in insertion order
    faults        \* faults so far

fpVars == <<fpState, fpReceives, fpInvocations, fpStage>>
inVars == <<inState, inReceives, inInvocations, inStage, inBody>>
vars == <<fpVars, archive, quarantine, inVars, rows, faults>>

Fp == INSTANCE EventSourceQueue WITH
        Message <- Messages, Concurrency <- QueueingConcurrency,
        state <- fpState, receives <- fpReceives, invocations <- fpInvocations
In == INSTANCE EventSourceQueue WITH
        Message <- Copies, Concurrency <- IngestionConcurrency,
        state <- inState, receives <- inReceives, invocations <- inInvocations

FpStages == {"idle", "started", "archived", "done", "failed"}
InStages == {"idle", "started", "fetched", "done", "failed"}
Bodies == Messages \union {NoObject}

TypeOK ==
    /\ Fp!TypeOK
    /\ In!TypeOK
    /\ fpStage \in [Messages -> FpStages]
    /\ archive \in [ExternalIds -> Bodies]
    /\ quarantine \in SUBSET Messages
    /\ inStage \in [Copies -> InStages]
    /\ inBody \in [Copies -> Bodies]
    /\ rows \in [ExternalIds -> Seq(Messages)]
    /\ faults \in 0..MaxFaults

Init ==
    /\ Fp!Init
    /\ In!Init
    /\ fpStage = [m \in Messages |-> "idle"]
    /\ archive = [e \in ExternalIds |-> NoObject]
    /\ quarantine = {}
    /\ inStage = [c \in Copies |-> "idle"]
    /\ inBody = [c \in Copies |-> NoObject]
    /\ rows = [e \in ExternalIds |-> <<>>]
    /\ faults = 0

\* One more service failure or lambda death.
Fault == faults < MaxFaults /\ faults' = faults + 1

-----------------------------------------------------------------------------
(* Fingerpost and the fingerpost-queueing-lambda.                          *)

\* Fingerpost publishes to the topic, which puts the message on the queue.
Publish(m) ==
    /\ Fp!Send(m)
    /\ UNCHANGED <<fpStage, archive, quarantine, inVars, rows, faults>>

\* main starts on every record of the batch (Promise.all).
FpReceive(batch) ==
    /\ Fp!Receive(batch)
    /\ fpStage' = [m \in Messages |-> IF m \in batch THEN "started" ELSE fpStage[m]]
    /\ UNCHANGED <<archive, quarantine, inVars, rows, faults>>

FpStep(m, from, to) ==
    /\ fpStage[m] = from
    /\ fpStage' = [fpStage EXCEPT ![m] = to]
    /\ UNCHANGED <<fpState, fpReceives, fpInvocations, inReceives, inInvocations,
                   inStage, inBody, rows>>

\* putToS3AndQueueIngestion, first half: the body goes to S3 under the
\* external id, over whatever was there.
Archive(m) ==
    /\ HasExternalId(m)
    /\ FpStep(m, "started", "archived")
    /\ archive' = [archive EXCEPT ![ExternalId[m]] = m]
    /\ UNCHANGED <<quarantine, inState, faults>>

\* The put is reported failed; it may have taken effect all the same.
ArchiveFails(m) ==
    /\ HasExternalId(m)
    /\ FpStep(m, "started", "failed")
    /\ Fault
    /\ \/ UNCHANGED archive
       \/ archive' = [archive EXCEPT ![ExternalId[m]] = m]
    /\ UNCHANGED <<quarantine, inState>>

\* putToS3AndQueueIngestion, second half: queue the ingestion.
Enqueue(m) ==
    /\ FpStep(m, "archived", "done")
    /\ inState' = [inState EXCEPT ![<<m, fpReceives[m]>>] = "visible"]
    /\ UNCHANGED <<archive, quarantine, faults>>

\* Mutant: a failed send is not reported in batchItemFailures.
EnqueueFailsSilently(m) ==
    /\ FpStep(m, "archived", "done")
    /\ Fault
    /\ UNCHANGED <<archive, quarantine, inState>>

\* The send is reported failed; the message may be on the queue all the same.
EnqueueFails(m) ==
    /\ FpStep(m, "archived", "failed")
    /\ Fault
    /\ \/ UNCHANGED inState
       \/ inState' = [inState EXCEPT ![<<m, fpReceives[m]>>] = "visible"]
    /\ UNCHANGED <<archive, quarantine>>

\* A message without an external id is stored for inspection, not queued.
Quarantine(m) ==
    /\ ~HasExternalId(m)
    /\ FpStep(m, "started", "done")
    /\ quarantine' = quarantine \union {m}
    /\ UNCHANGED <<archive, inState, faults>>

QuarantineFails(m) ==
    /\ ~HasExternalId(m)
    /\ FpStep(m, "started", "failed")
    /\ Fault
    /\ \/ UNCHANGED quarantine
       \/ quarantine' = quarantine \union {m}
    /\ UNCHANGED <<archive, inState>>

\* Mutant: main returns no batchItemFailures.
FpRespondAllDone(batch) ==
    /\ \A m \in batch : fpStage[m] \in {"done", "failed"}
    /\ Fp!Respond(batch, batch)
    /\ fpStage' = [m \in Messages |-> IF m \in batch THEN "idle" ELSE fpStage[m]]
    /\ UNCHANGED <<archive, quarantine, inVars, rows, faults>>

\* Every record has settled: main returns the failed ones.
FpRespond(batch) ==
    /\ \A m \in batch : fpStage[m] \in {"done", "failed"}
    /\ Fp!Respond(batch, {m \in batch : fpStage[m] = "done"})
    /\ fpStage' = [m \in Messages |-> IF m \in batch THEN "idle" ELSE fpStage[m]]
    /\ UNCHANGED <<archive, quarantine, inVars, rows, faults>>

\* The invocation dies or times out before its response is recorded.
FpCrash(batch) ==
    /\ Fp!Crash(batch)
    /\ Fault
    /\ fpStage' = [m \in Messages |-> IF m \in batch THEN "idle" ELSE fpStage[m]]
    /\ UNCHANGED <<archive, quarantine, inVars, rows>>

\* Mutant: a message that was received once is never offered again.
FpTimerNoRetry(m) ==
    /\ Fp!Redrive(m)
    /\ UNCHANGED <<fpStage, archive, quarantine, inVars, rows, faults>>

FpTimer(m) ==
    /\ Fp!VisibilityTimeout(m) \/ Fp!Redrive(m)
    /\ UNCHANGED <<fpStage, archive, quarantine, inVars, rows, faults>>

-----------------------------------------------------------------------------
(* The ingestion-lambda.                                                   *)

\* main starts on every record of the batch; processSQSRecord reads the
\* external id and the object key the queueing lambda wrote.
InReceive(batch) ==
    /\ In!Receive(batch)
    /\ inStage' = [c \in Copies |-> IF c \in batch THEN "started" ELSE inStage[c]]
    /\ UNCHANGED <<fpVars, archive, quarantine, inBody, rows, faults>>

InStep(c, from, to) ==
    /\ inStage[c] = from
    /\ inStage' = [inStage EXCEPT ![c] = to]
    /\ UNCHANGED <<fpVars, archive, quarantine, inState, inReceives, inInvocations>>

\* fileService.getObject: whatever body the key holds by now.
GetObject(c) ==
    /\ archive[IdOf(c)] # NoObject
    /\ InStep(c, "started", "fetched")
    /\ inBody' = [inBody EXCEPT ![c] = archive[IdOf(c)]]
    /\ UNCHANGED <<rows, faults>>

GetObjectFails(c) ==
    /\ InStep(c, "started", "failed")
    /\ Fault
    /\ UNCHANGED <<inBody, rows>>

\* processFingerpostJsonContent returns a failure.
ParseFails(c) ==
    /\ inBody[c] # NoObject /\ Kind[inBody[c]] = "unparseable"
    /\ InStep(c, "fetched", "failed")
    /\ UNCHANGED <<inBody, rows, faults>>

\* The supplier is HEARTBEAT: success, and nothing is inserted.
Heartbeat(c) ==
    /\ inBody[c] # NoObject /\ Kind[inBody[c]] = "heartbeat"
    /\ InStep(c, "fetched", "done")
    /\ UNCHANGED <<inBody, rows, faults>>

\* Mutants: no unique constraint; an upsert.
InsertAlways(e, body) == rows' = [rows EXCEPT ![e] = Append(@, body)]
InsertOrReplace(e, body) == rows' = [rows EXCEPT ![e] = <<body>>]

\* INSERT ... ON CONFLICT (external_id) DO NOTHING
InsertRow(e, body) ==
    rows' = IF rows[e] = <<>> THEN [rows EXCEPT ![e] = <<body>>] ELSE rows

\* Mutant: whatever was read is inserted, parsed or not.
PutAnythingToDb(c) ==
    /\ inBody[c] # NoObject
    /\ InStep(c, "fetched", "done")
    /\ InsertRow(IdOf(c), inBody[c])
    /\ UNCHANGED <<inBody, faults>>

\* putItemToDb succeeds, whether it inserted a row or found a duplicate.
PutItemToDb(c) ==
    /\ inBody[c] # NoObject /\ Kind[inBody[c]] = "story"
    /\ InStep(c, "fetched", "done")
    /\ InsertRow(IdOf(c), inBody[c])
    /\ UNCHANGED <<inBody, faults>>

\* putItemToDb catches an error; the insert may have been committed.
PutItemToDbFails(c) ==
    /\ inBody[c] # NoObject /\ Kind[inBody[c]] = "story"
    /\ InStep(c, "fetched", "failed")
    /\ Fault
    /\ UNCHANGED rows \/ InsertRow(IdOf(c), inBody[c])
    /\ UNCHANGED inBody

\* The end of an invocation, whatever its outcome, forgets what it read.
InForget(batch) ==
    /\ inStage' = [c \in Copies |-> IF c \in batch THEN "idle" ELSE inStage[c]]
    /\ inBody' = [c \in Copies |-> IF c \in batch THEN NoObject ELSE inBody[c]]

\* Mutant: main returns no batchItemFailures.
InRespondAllDone(batch) ==
    /\ \A c \in batch : inStage[c] \in {"done", "failed"}
    /\ In!Respond(batch, batch)
    /\ InForget(batch)
    /\ UNCHANGED <<fpVars, archive, quarantine, rows, faults>>

InRespond(batch) ==
    /\ \A c \in batch : inStage[c] \in {"done", "failed"}
    /\ In!Respond(batch, {c \in batch : inStage[c] = "done"})
    /\ InForget(batch)
    /\ UNCHANGED <<fpVars, archive, quarantine, rows, faults>>

InCrash(batch) ==
    /\ In!Crash(batch)
    /\ Fault
    /\ InForget(batch)
    /\ UNCHANGED <<fpVars, archive, quarantine, rows>>

InTimer(c) ==
    /\ In!VisibilityTimeout(c) \/ In!Redrive(c)
    /\ UNCHANGED <<fpVars, archive, quarantine, inStage, inBody, rows, faults>>

-----------------------------------------------------------------------------
\* Nothing moves any more: every message was deleted or dead-lettered.
Settled ==
    /\ \A m \in Messages : fpState[m] \in {"deleted", "dead"}
    /\ \A c \in Copies : inState[c] \in {"absent", "deleted", "dead"}

Quiescent == Settled /\ UNCHANGED vars

FpProgress ==
    \/ \E batch \in SUBSET Messages : FpReceive(batch)
    \/ \E batch \in fpInvocations : FpRespond(batch)
    \/ \E m \in Messages : Archive(m) \/ Enqueue(m) \/ Quarantine(m) \/ FpTimer(m)

InProgress ==
    \/ \E batch \in SUBSET Copies : InReceive(batch)
    \/ \E batch \in inInvocations : InRespond(batch)
    \/ \E c \in Copies : \/ GetObject(c) \/ ParseFails(c) \/ Heartbeat(c)
                         \/ PutItemToDb(c) \/ InTimer(c)

Faulty ==
    \/ \E batch \in fpInvocations : FpCrash(batch)
    \/ \E m \in Messages : ArchiveFails(m) \/ EnqueueFails(m) \/ QuarantineFails(m)
    \/ \E batch \in inInvocations : InCrash(batch)
    \/ \E c \in Copies : GetObjectFails(c) \/ PutItemToDbFails(c)

Next ==
    \/ \E m \in Messages : Publish(m)
    \/ FpProgress
    \/ InProgress
    \/ Faulty
    \/ Quiescent

Spec == Init /\ [][Next]_vars

\* SQS keeps offering messages and the lambdas keep running what they started;
\* nothing obliges Fingerpost to publish, or a fault to happen.
FairSpec == Spec /\ WF_vars(FpProgress) /\ WF_vars(InProgress)

-----------------------------------------------------------------------------
(* What becomes of a message.                                              *)

CopiesOf(m) == {c \in Copies : c[1] = m}
Live == {"visible", "inflight"}
Pending(m) == fpState[m] \in Live \/ \E c \in CopiesOf(m) : inState[c] \in Live
Delivered(m) == \E c \in CopiesOf(m) : inState[c] = "deleted"
DeadLettered(m) == fpState[m] = "dead" \/ \E c \in CopiesOf(m) : inState[c] = "dead"

\* A published message is never lost: whatever fails, it is on a queue, was
\* acknowledged by the ingestion lambda, sits in a dead letter queue, or was
\* stored under GuMissingExternalId.  The two handlers report a failure for
\* every record they did not finish (handler.ts, batchItemFailures).
NoLoss ==
    \A m \in Messages :
        \/ fpState[m] = "absent"
        \/ Pending(m) \/ Delivered(m) \/ DeadLettered(m)
        \/ m \in quarantine

\* When the ingestion lambda acknowledges a story, its row is in the database.
StoryStored ==
    \A c \in Copies :
        inState[c] = "deleted" /\ Kind[c[1]] = "story" => rows[IdOf(c)] # <<>>

\* The ingestion lambda is only ever told of S3 objects that exist:
\* putToS3AndQueueIngestion puts before it sends.
ArchivedBeforeQueued ==
    \A c \in Copies : inState[c] # "absent" => archive[IdOf(c)] # NoObject

\* However often a message is redelivered, and however many invocations race,
\* the database holds at most one row for an external id ...
OneRowPerExternalId == \A e \in ExternalIds : Len(rows[e]) <= 1

\* ... which is a published story with that external id ...
RowsGenuine ==
    \A e \in ExternalIds : \A i \in DOMAIN rows[e] :
        /\ ExternalId[rows[e][i]] = e
        /\ Kind[rows[e][i]] = "story"
        /\ fpState[rows[e][i]] # "absent"

\* ... and which later deliveries never replace (ON CONFLICT DO NOTHING).
RowsImmutable ==
    [][\A e \in ExternalIds : rows[e] # <<>> => rows'[e] = rows[e]]_vars

\* A message is never in two invocations at once, and while it is in one it is
\* neither visible nor gone.
HeldOnce ==
    /\ \A b1, b2 \in fpInvocations : b1 # b2 => b1 \cap b2 = {}
    /\ \A m \in Fp!Held : fpState[m] = "inflight"
    /\ \A b1, b2 \in inInvocations : b1 # b2 => b1 \cap b2 = {}
    /\ \A c \in In!Held : inState[c] = "inflight"

\* A story survives any number of faults below maxReceiveCount: until then it
\* reaches no dead letter queue, unless a body under its id does not parse.
Parseable(m) ==
    \A n \in Messages : ExternalId[n] = ExternalId[m] => Kind[n] # "unparseable"
FaultTolerance ==
    \A m \in Messages :
        Parseable(m) /\ faults < MaxReceiveCount => ~DeadLettered(m)

\* The delivery contract (WireDelivery) this pipeline implements.
Status ==
    [m \in Messages |->
        IF fpState[m] = "absent" THEN "unpublished"
        ELSE IF Delivered(m) THEN "delivered"
        ELSE IF m \in quarantine THEN "quarantined"
        ELSE IF Pending(m) THEN "pending"
        ELSE IF DeadLettered(m) THEN "dead"
        ELSE "lost"]
Contract == INSTANCE WireDelivery WITH status <- Status
ImplementsContract == Contract!Spec

\* Every published message comes to an outcome: the retries are bounded.
EventuallySettled == Contract!EventuallySettled

-----------------------------------------------------------------------------
(* The inductive invariant behind the safety properties, in parts.         *)

\* A record is being worked on exactly while an invocation holds it.
StagesMatchQueues ==
    /\ \A m \in Messages : fpStage[m] # "idle" <=> m \in Fp!Held
    /\ \A m \in Messages : fpStage[m] # "idle" => fpReceives[m] >= 1
    /\ \A c \in Copies : inStage[c] # "idle" <=> c \in In!Held

\* The copy a delivery sends is fresh: copies come from earlier deliveries, or
\* from the running one once it has sent.
CopiesAreOfPast ==
    \A c \in Copies : inState[c] # "absent" =>
        /\ c[2] <= fpReceives[c[1]]
        /\ fpStage[c[1]] \in {"started", "archived"} => c[2] < fpReceives[c[1]]

\* S3 objects are bodies published under their id, and a delivery that has
\* archived its body, or sent its copy, left one there.
ArchiveSound ==
    /\ \A e \in ExternalIds : archive[e] # NoObject =>
            ExternalId[archive[e]] = e /\ fpState[archive[e]] # "absent"
    /\ \A m \in Messages : fpStage[m] = "archived" =>
            HasExternalId(m) /\ archive[ExternalId[m]] # NoObject
    /\ ArchivedBeforeQueued

\* What the queueing lambda reports as done, and SQS deletes, went on.
QueueingSound ==
    \A m \in Messages : fpStage[m] = "done" \/ fpState[m] = "deleted" =>
        IF HasExternalId(m) THEN \E c \in CopiesOf(m) : inState[c] # "absent"
                            ELSE m \in quarantine

\* The ingestion lambda works on a body published under the record's id, and
\* what it reports as done is in the database unless it is a heartbeat.
IngestionSound ==
    /\ \A c \in Copies : inBody[c] # NoObject =>
            /\ ExternalId[inBody[c]] = IdOf(c)
            /\ fpState[inBody[c]] # "absent"
    /\ \A c \in Copies : inStage[c] = "fetched" => inBody[c] # NoObject
    /\ \A c \in Copies : (inStage[c] = "done" \/ inState[c] = "deleted")
            /\ Kind[c[1]] = "story" => rows[IdOf(c)] # <<>>
    /\ OneRowPerExternalId
    /\ RowsGenuine

\* Each delivery beyond the one that works is paid for by a fault.
Budget ==
    /\ \A m \in Messages :
          /\ fpReceives[m] <=
                IF fpState[m] = "deleted" \/ fpStage[m] \in {"started", "archived", "done"}
                THEN faults + 1 ELSE faults
          /\ fpState[m] = "dead" => fpReceives[m] = MaxReceiveCount
    /\ \A c \in Copies : Parseable(c[1]) =>
          /\ inReceives[c] <=
                IF inState[c] = "deleted" \/ inStage[c] \in {"started", "fetched", "done"}
                THEN faults + 1 ELSE faults
          /\ inState[c] = "dead" => inReceives[c] = MaxReceiveCount

IInv ==
    /\ TypeOK /\ HeldOnce /\ StagesMatchQueues /\ CopiesAreOfPast
    /\ ArchiveSound /\ QueueingSound /\ IngestionSound /\ Budget

\* What the refinement of the contract needs besides: a message that is not
\* published has left no trace, and only one without an external id is ever
\* stored under GuMissingExternalId.
Untouched ==
    /\ \A m \in Messages : fpState[m] = "absent" => fpReceives[m] = 0
    /\ \A m \in quarantine : fpState[m] # "absent" /\ ~HasExternalId(m)
=============================================================================
