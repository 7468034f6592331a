------------------------ MODULE FeedIngestion_proofs ------------------------
(* Theorems about FeedIngestion, for any messages, ids and bounds.         *)
EXTENDS FeedIngestion, TLAPS

-----------------------------------------------------------------------------
(* Typing.                                                                 *)

\* A copy is a delivery of an identified message.
LEMMA CopiesTyped ==
    \A c \in Copies : /\ c[1] \in Messages /\ HasExternalId(c[1])
                      /\ c[2] \in Deliveries
                      /\ IdOf(c) \in ExternalIds
                      /\ c = <<c[1], c[2]>>
BY MessagesAssumption DEF Copies, Identified, HasExternalId, IdOf

\* The initial state is well typed.
LEMMA InitTypeOK == Init => TypeOK
BY BoundsAssumption DEF Init, TypeOK, Fp!Init, Fp!TypeOK, Fp!QueueState,
   In!Init, In!TypeOK, In!QueueState, FpStages, InStages, Bodies

\* Every step keeps the state well typed.
LEMMA NextTypeOK == TypeOK /\ [Next]_vars => TypeOK'
<1> SUFFICES ASSUME TypeOK, [Next]_vars PROVE TypeOK'
    OBVIOUS
<1>0. Fault => faults' \in 0..MaxFaults
    BY BoundsAssumption DEF Fault, TypeOK
<1> USE <1>0 DEF TypeOK, Fp!TypeOK, In!TypeOK, Fp!QueueState, In!QueueState
<1>1. ASSUME NEW m \in Messages, Publish(m) PROVE TypeOK'
    BY <1>1 DEF Publish, Fp!Send, inVars
<1>2. ASSUME NEW batch \in SUBSET Messages, FpReceive(batch) PROVE TypeOK'
    BY <1>2, BoundsAssumption DEF FpReceive, Fp!Receive, inVars, FpStages
<1>3. ASSUME NEW batch \in fpInvocations, FpRespond(batch) \/ FpCrash(batch)
      PROVE  TypeOK'
    BY <1>3 DEF FpRespond, FpCrash, Fp!Respond, Fp!Crash, inVars, FpStages
<1>4. ASSUME NEW m \in Messages, Archive(m) \/ ArchiveFails(m) PROVE TypeOK'
    <2>1. archive' \in [ExternalIds -> Bodies]
        BY <1>4 DEF Archive, ArchiveFails, Bodies
    <2>2. faults' \in 0..MaxFaults
        BY <1>4 DEF Archive, ArchiveFails
    <2>. QED
        BY <1>4, <2>1, <2>2 DEF Archive, ArchiveFails, FpStep, FpStages
<1>5. ASSUME NEW m \in Messages, Enqueue(m) \/ EnqueueFails(m) PROVE TypeOK'
    BY <1>5 DEF Enqueue, EnqueueFails, FpStep, FpStages
<1>6. ASSUME NEW m \in Messages, Quarantine(m) \/ QuarantineFails(m) PROVE TypeOK'
    BY <1>6 DEF Quarantine, QuarantineFails, FpStep, FpStages
<1>7. ASSUME NEW m \in Messages, FpTimer(m) PROVE TypeOK'
    BY <1>7 DEF FpTimer, Fp!VisibilityTimeout, Fp!Redrive, inVars
<1>8. ASSUME NEW batch \in SUBSET Copies, InReceive(batch) PROVE TypeOK'
    BY <1>8, BoundsAssumption DEF InReceive, In!Receive, fpVars, InStages
<1>9. ASSUME NEW batch \in inInvocations, InRespond(batch) \/ InCrash(batch)
      PROVE  TypeOK'
    BY <1>9 DEF InRespond, InCrash, In!Respond, In!Crash, InForget, fpVars,
       InStages, Bodies
<1>10. ASSUME NEW c \in Copies, GetObject(c) \/ GetObjectFails(c) PROVE TypeOK'
    <2>1. inBody' \in [Copies -> Bodies]
        BY <1>10, CopiesTyped DEF GetObject, GetObjectFails
    <2>2. faults' \in 0..MaxFaults
        BY <1>10 DEF GetObject, GetObjectFails
    <2>. QED
        BY <1>10, <2>1, <2>2 DEF GetObject, GetObjectFails, InStep, fpVars, InStages
<1>11. ASSUME NEW c \in Copies, ParseFails(c) \/ Heartbeat(c) PROVE TypeOK'
    BY <1>11 DEF ParseFails, Heartbeat, InStep, fpVars, InStages
<1>12. ASSUME NEW c \in Copies, PutItemToDb(c) \/ PutItemToDbFails(c) PROVE TypeOK'
    <2>1. inBody[c] \in Messages
        BY <1>12 DEF PutItemToDb, PutItemToDbFails, Bodies
    <2>2. rows' \in [ExternalIds -> Seq(Messages)]
        <3>1. <<inBody[c]>> \in Seq(Messages)
            BY <2>1
        <3>. QED
            BY <1>12, <3>1, CopiesTyped DEF PutItemToDb, PutItemToDbFails, InsertRow
    <2>. QED
        BY <1>12, <2>2 DEF PutItemToDb, PutItemToDbFails, InStep, fpVars, InStages
<1>13. ASSUME NEW c \in Copies, InTimer(c) PROVE TypeOK'
    BY <1>13 DEF InTimer, In!VisibilityTimeout, In!Redrive, fpVars
<1>14. CASE UNCHANGED vars
    BY <1>14 DEF vars, fpVars, inVars
<1>. QED
    BY <1>1, <1>2, <1>3, <1>4, <1>5, <1>6, <1>7, <1>8, <1>9, <1>10, <1>11, <1>12,
       <1>13, <1>14 DEF Next, FpProgress, InProgress, Faulty, Quiescent

\* Every reachable state is well typed.
THEOREM TypeCorrect == Spec => []TypeOK
BY InitTypeOK, NextTypeOK, PTL DEF Spec

-----------------------------------------------------------------------------
(* The queues and the work on their records.                               *)

\* The copy a delivery sends has not been sent before.
LEMMA EnqueueFresh ==
    ASSUME IInv, NEW m \in Messages, Enqueue(m) \/ EnqueueFails(m)
    PROVE  /\ <<m, fpReceives[m]>> \in Copies
           /\ inState[<<m, fpReceives[m]>>] = "absent"
<1>1. fpStage[m] = "archived"
    BY DEF Enqueue, EnqueueFails, FpStep
<1>2. m \in Identified
    BY <1>1 DEF IInv, ArchiveSound, Identified
<1>3. fpReceives[m] \in Deliveries
    BY <1>1 DEF IInv, TypeOK, Fp!TypeOK, StagesMatchQueues, Deliveries
<1>4. <<m, fpReceives[m]>> \in Copies
    BY <1>2, <1>3 DEF Copies
<1>5. ASSUME inState[<<m, fpReceives[m]>>] # "absent" PROVE FALSE
    <2>1. fpReceives[m] < fpReceives[m]
        BY <1>1, <1>4, <1>5 DEF IInv, CopiesAreOfPast
    <2>. QED
        BY <2>1, <1>3, BoundsAssumption DEF Deliveries
<1>. QED
    BY <1>4, <1>5

\* The part of the invariant about one queue and the records of its batches.
FpShape ==
    /\ \A b1, b2 \in fpInvocations : b1 # b2 => b1 \cap b2 = {}
    /\ \A m \in Fp!Held : fpState[m] = "inflight"
    /\ \A m \in Messages : fpStage[m] # "idle" <=> m \in Fp!Held
    /\ \A m \in Messages : fpStage[m] # "idle" => fpReceives[m] >= 1

InShape ==
    /\ \A b1, b2 \in inInvocations : b1 # b2 => b1 \cap b2 = {}
    /\ \A c \in In!Held : inState[c] = "inflight"
    /\ \A c \in Copies : inStage[c] # "idle" <=> c \in In!Held

\* The shape of the two queues is the shape of each.
LEMMA ShapeSplit == HeldOnce /\ StagesMatchQueues <=> FpShape /\ InShape
BY DEF HeldOnce, StagesMatchQueues, FpShape, InShape

\* The fingerpost queue hands a message to one invocation at a time.
LEMMA FpShapeStep == IInv /\ [Next]_vars => FpShape'
<1> SUFFICES ASSUME IInv, [Next]_vars PROVE FpShape'
    OBVIOUS
<1>0. TypeOK /\ FpShape
    BY ShapeSplit DEF IInv
<1> USE <1>0 DEF TypeOK, Fp!TypeOK, FpShape, Fp!Held
<1>1. ASSUME NEW m \in Messages, Publish(m) PROVE FpShape'
    BY <1>1 DEF Publish, Fp!Send
<1>2. ASSUME NEW batch \in SUBSET Messages, FpReceive(batch) PROVE FpShape'
    <2>1. \A m \in batch : m \notin Fp!Held
        BY <1>2 DEF FpReceive, Fp!Receive
    <2>2. Fp!Held' = Fp!Held \union batch
        BY <1>2 DEF FpReceive, Fp!Receive
    <2>3. \A b1, b2 \in fpInvocations' : b1 # b2 => b1 \cap b2 = {}
        BY <1>2, <2>1 DEF FpReceive, Fp!Receive
    <2>4. \A m \in Messages : fpStage'[m] # "idle" => fpReceives'[m] >= 1
        BY <1>2, BoundsAssumption DEF FpReceive, Fp!Receive
    <2>5. \A m \in Messages : fpStage'[m] # "idle" <=> m \in Fp!Held'
        BY <1>2, <2>2 DEF FpReceive, Fp!Receive
    <2>6. \A m \in Fp!Held' : fpState'[m] = "inflight"
        BY <1>2, <2>2 DEF FpReceive, Fp!Receive
    <2>. QED
        BY <2>3, <2>4, <2>5, <2>6
<1>3. ASSUME NEW batch \in fpInvocations, FpRespond(batch) \/ FpCrash(batch)
      PROVE  FpShape'
    <2>1. Fp!Held' = Fp!Held \ batch
        BY <1>3 DEF FpRespond, FpCrash, Fp!Respond, Fp!Crash
    <2>2. \A b1, b2 \in fpInvocations' : b1 # b2 => b1 \cap b2 = {}
        BY <1>3 DEF FpRespond, FpCrash, Fp!Respond, Fp!Crash
    <2>3. \A m \in Fp!Held' : fpState'[m] = "inflight"
        BY <1>3, <2>1 DEF FpRespond, FpCrash, Fp!Respond, Fp!Crash
    <2>4. \A m \in Messages : fpStage'[m] = IF m \in batch THEN "idle" ELSE fpStage[m]
        BY <1>3 DEF FpRespond, FpCrash
    <2>5. fpReceives' = fpReceives
        BY <1>3 DEF FpRespond, FpCrash, Fp!Respond, Fp!Crash
    <2>. QED
        BY <2>1, <2>2, <2>3, <2>4, <2>5
<1>4. ASSUME NEW m \in Messages, NEW from \in {"started", "archived"},
             NEW to \in {"archived", "done", "failed"}, FpStep(m, from, to)
      PROVE  FpShape'
    BY <1>4 DEF FpStep
<1>5. ASSUME NEW m \in Messages, FpTimer(m) PROVE FpShape'
    BY <1>5 DEF FpTimer, Fp!VisibilityTimeout, Fp!Redrive
<1>6. ASSUME UNCHANGED fpVars PROVE FpShape'
    BY <1>6 DEF fpVars
<1>. QED
    BY <1>1, <1>2, <1>3, <1>4, <1>5, <1>6
    DEF Next, FpProgress, InProgress, Faulty, Quiescent, vars,
        Archive, ArchiveFails, Enqueue, EnqueueFails, Quarantine, QuarantineFails,
        InReceive, InRespond, InCrash, InTimer, GetObject, GetObjectFails,
        ParseFails, Heartbeat, PutItemToDb, PutItemToDbFails, InStep

\* So does the source queue with a copy.
LEMMA InShapeStep == IInv /\ [Next]_vars => InShape'
<1> SUFFICES ASSUME IInv, [Next]_vars PROVE InShape'
    OBVIOUS
<1>0. TypeOK /\ InShape
    BY ShapeSplit DEF IInv
<1> USE <1>0 DEF TypeOK, In!TypeOK, InShape, In!Held
<1>1. ASSUME NEW m \in Messages, Enqueue(m) \/ EnqueueFails(m) PROVE InShape'
    <2>1. /\ <<m, fpReceives[m]>> \in Copies
          /\ inState[<<m, fpReceives[m]>>] = "absent"
        BY <1>1, EnqueueFresh
    <2>2. UNCHANGED <<inStage, inInvocations>>
        BY <1>1 DEF Enqueue, EnqueueFails, FpStep
    <2>3. \A c \in Copies : inState[c] = "inflight" => inState'[c] = "inflight"
        BY <1>1, <2>1 DEF Enqueue, EnqueueFails
    <2>. QED
        BY <2>2, <2>3
<1>2. ASSUME NEW batch \in SUBSET Copies, InReceive(batch) PROVE InShape'
    <2>1. \A c \in batch : c \notin In!Held
        BY <1>2 DEF InReceive, In!Receive
    <2>2. In!Held' = In!Held \union batch
        BY <1>2 DEF InReceive, In!Receive
    <2>3. \A b1, b2 \in inInvocations' : b1 # b2 => b1 \cap b2 = {}
        BY <1>2, <2>1 DEF InReceive, In!Receive
    <2>4. \A c \in Copies : inStage'[c] # "idle" <=> c \in In!Held'
        BY <1>2, <2>2 DEF InReceive, In!Receive
    <2>5. \A c \in In!Held' : inState'[c] = "inflight"
        BY <1>2, <2>2 DEF InReceive, In!Receive
    <2>. QED
        BY <2>3, <2>4, <2>5
<1>3. ASSUME NEW batch \in inInvocations, InRespond(batch) \/ InCrash(batch)
      PROVE  InShape'
    <2>1. In!Held' = In!Held \ batch
        BY <1>3 DEF InRespond, InCrash, In!Respond, In!Crash
    <2>2. \A b1, b2 \in inInvocations' : b1 # b2 => b1 \cap b2 = {}
        BY <1>3 DEF InRespond, InCrash, In!Respond, In!Crash
    <2>3. \A c \in In!Held' : inState'[c] = "inflight"
        BY <1>3, <2>1 DEF InRespond, InCrash, In!Respond, In!Crash
    <2>4. \A c \in Copies : inStage'[c] = IF c \in batch THEN "idle" ELSE inStage[c]
        BY <1>3 DEF InRespond, InCrash, InForget
    <2>. QED
        BY <2>1, <2>2, <2>3, <2>4
<1>4. ASSUME NEW c \in Copies, NEW from \in {"started", "fetched"},
             NEW to \in {"fetched", "done", "failed"}, InStep(c, from, to)
      PROVE  InShape'
    BY <1>4 DEF InStep
<1>5. ASSUME NEW c \in Copies, InTimer(c) PROVE InShape'
    BY <1>5 DEF InTimer, In!VisibilityTimeout, In!Redrive
<1>6. ASSUME UNCHANGED <<inState, inInvocations, inStage>> PROVE InShape'
    BY <1>6
<1>. QED
    BY <1>1, <1>2, <1>3, <1>4, <1>5, <1>6
    DEF Next, FpProgress, InProgress, Faulty, Quiescent, vars, inVars,
        Publish, FpReceive, FpRespond, FpCrash, FpTimer, FpStep,
        Archive, ArchiveFails, Quarantine, QuarantineFails,
        GetObject, GetObjectFails, ParseFails, Heartbeat, PutItemToDb, PutItemToDbFails

\* Copies come from deliveries that have sent.
LEMMA CopiesAreOfPastStep == IInv /\ [Next]_vars => CopiesAreOfPast'
<1> SUFFICES ASSUME IInv, [Next]_vars PROVE CopiesAreOfPast'
    OBVIOUS
<1>0. TypeOK /\ CopiesAreOfPast
    BY DEF IInv
<1> USE <1>0, CopiesTyped DEF TypeOK, Fp!TypeOK, In!TypeOK, CopiesAreOfPast
<1>1. ASSUME NEW batch \in SUBSET Messages, FpReceive(batch) PROVE CopiesAreOfPast'
    BY <1>1, BoundsAssumption DEF FpReceive, Fp!Receive, inVars, Deliveries
<1>2. ASSUME NEW m \in Messages, Enqueue(m) \/ EnqueueFails(m) PROVE CopiesAreOfPast'
    <2>1. fpStage'[m] \in {"done", "failed"} /\ fpReceives' = fpReceives
        BY <1>2 DEF Enqueue, EnqueueFails, FpStep
    <2>2. \A n \in Messages : n # m => fpStage'[n] = fpStage[n]
        BY <1>2 DEF Enqueue, EnqueueFails, FpStep
    <2>3. \A c \in Copies : c # <<m, fpReceives[m]>> => inState'[c] = inState[c]
        BY <1>2 DEF Enqueue, EnqueueFails
    <2>4. fpReceives[m] <= fpReceives[m]
        BY BoundsAssumption
    <2>. QED
        BY <2>1, <2>2, <2>3, <2>4
<1>3. ASSUME NEW m \in Messages, NEW to \in {"archived", "done", "failed"},
             FpStep(m, "started", to), inState' = inState
      PROVE  CopiesAreOfPast'
    BY <1>3 DEF FpStep
<1>4. ASSUME UNCHANGED fpReceives,
             \A c \in Copies : inState'[c] # "absent" => inState[c] # "absent",
             \A m \in Messages : fpStage'[m] \in {fpStage[m], "idle"}
      PROVE  CopiesAreOfPast'
    BY <1>4
<1>5. ASSUME NEW batch \in SUBSET Copies, InReceive(batch) PROVE CopiesAreOfPast'
    BY <1>5, <1>4 DEF InReceive, In!Receive, fpVars
<1>6. ASSUME NEW batch \in inInvocations, InRespond(batch) \/ InCrash(batch)
      PROVE  CopiesAreOfPast'
    <2>1. \A c \in batch : inState[c] = "inflight"
        BY <1>6 DEF IInv, HeldOnce, In!Held
    <2>2. \A c \in Copies : inState'[c] # "absent" => inState[c] # "absent"
        BY <1>6, <2>1 DEF InRespond, InCrash, In!Respond, In!Crash
    <2>. QED
        BY <1>6, <1>4, <2>2 DEF InRespond, InCrash, In!Respond, In!Crash, fpVars
<1>7. ASSUME NEW c \in Copies, InTimer(c) PROVE CopiesAreOfPast'
    BY <1>7, <1>4 DEF InTimer, In!VisibilityTimeout, In!Redrive, fpVars
<1>8. ASSUME NEW batch \in fpInvocations, FpRespond(batch) \/ FpCrash(batch)
      PROVE  CopiesAreOfPast'
    BY <1>8, <1>4 DEF FpRespond, FpCrash, Fp!Respond, Fp!Crash, inVars
<1>9. ASSUME UNCHANGED <<fpReceives, fpStage, inState>> PROVE CopiesAreOfPast'
    BY <1>9
<1>. QED
    BY <1>1, <1>2, <1>3, <1>5, <1>6, <1>7, <1>8, <1>9
    DEF Next, FpProgress, InProgress, Faulty, Quiescent, vars, fpVars, inVars,
        Publish, FpTimer, Fp!Send, Fp!VisibilityTimeout, Fp!Redrive, Archive, ArchiveFails,
        Quarantine, QuarantineFails, InStep, GetObject, GetObjectFails, ParseFails,
        Heartbeat, PutItemToDb, PutItemToDbFails

-----------------------------------------------------------------------------
(* S3, the copies and the rows.                                            *)

\* A message does not become unpublished.
LEMMA PublishedStays ==
    TypeOK /\ [Next]_vars =>
        \A m \in Messages : fpState[m] # "absent" => fpState'[m] # "absent"
<1> SUFFICES ASSUME TypeOK, [Next]_vars
             PROVE  \A m \in Messages : fpState[m] # "absent" => fpState'[m] # "absent"
    OBVIOUS
<1> USE DEF TypeOK, Fp!TypeOK
<1>1. ASSUME NEW batch \in fpInvocations, FpRespond(batch)
      PROVE  \A m \in Messages : fpState[m] # "absent" => fpState'[m] # "absent"
    BY <1>1 DEF FpRespond, Fp!Respond
<1>2. ASSUME NEW batch \in SUBSET Messages, FpReceive(batch)
      PROVE  \A m \in Messages : fpState[m] # "absent" => fpState'[m] # "absent"
    BY <1>2 DEF FpReceive, Fp!Receive
<1>. QED
    BY <1>1, <1>2
    DEF Next, FpProgress, InProgress, Faulty, Quiescent, vars, fpVars, Publish, Fp!Send,
        FpCrash, Fp!Crash, FpTimer, Fp!VisibilityTimeout, Fp!Redrive, FpStep, Archive,
        ArchiveFails, Enqueue, EnqueueFails, Quarantine, QuarantineFails, InReceive,
        InRespond, InCrash, InTimer, InStep, GetObject, GetObjectFails, ParseFails,
        Heartbeat, PutItemToDb, PutItemToDbFails

\* An S3 object, once there, stays (it may be overwritten), and is a body
\* published under its id.
LEMMA ArchiveSoundStep == IInv /\ [Next]_vars => ArchiveSound'
<1> SUFFICES ASSUME IInv, [Next]_vars PROVE ArchiveSound'
    OBVIOUS
<1>0. TypeOK /\ ArchiveSound /\ HeldOnce /\ StagesMatchQueues
    BY DEF IInv
<1> USE <1>0, CopiesTyped
    DEF TypeOK, Fp!TypeOK, In!TypeOK, ArchiveSound, ArchivedBeforeQueued, Bodies
<1>1. \A m \in Messages : fpState[m] # "absent" => fpState'[m] # "absent"
    BY PublishedStays
<1>2. ASSUME NEW m \in Messages, Archive(m) \/ ArchiveFails(m) PROVE ArchiveSound'
    <2>1. fpState[m] # "absent" /\ UNCHANGED <<fpState, inState>>
        <3>1. fpStage[m] = "started" /\ UNCHANGED <<fpState, inState>>
            BY <1>2 DEF Archive, ArchiveFails, FpStep
        <3>2. fpState[m] = "inflight"
            BY <3>1 DEF HeldOnce, StagesMatchQueues
        <3>. QED
            BY <3>1, <3>2
    <2>2. ExternalId[m] \in ExternalIds /\ m # NoObject
        BY <1>2, MessagesAssumption DEF Archive, ArchiveFails, HasExternalId
    <2>3. \A e \in ExternalIds : archive'[e] \in {archive[e], m}
                                 /\ (archive'[e] # archive[e] => e = ExternalId[m])
        BY <1>2 DEF Archive, ArchiveFails
    <2>4. \A n \in Messages : fpStage'[n] = "archived" =>
              HasExternalId(n) /\ archive'[ExternalId[n]] # NoObject
        <3>1. CASE Archive(m)
            BY <3>1, <2>2, <2>3, MessagesAssumption DEF Archive, FpStep, HasExternalId
        <3>2. CASE ArchiveFails(m)
            <4>1. \A n \in Messages : fpStage'[n] = "archived" => fpStage[n] = "archived"
                BY <3>2 DEF ArchiveFails, FpStep
            <4>. QED
                BY <4>1, <2>2, <2>3, MessagesAssumption DEF HasExternalId
        <3>. QED
            BY <1>2, <3>1, <3>2
    <2>. QED
        BY <2>1, <2>2, <2>3, <2>4
<1>3. ASSUME NEW m \in Messages, Enqueue(m) \/ EnqueueFails(m) PROVE ArchiveSound'
    <2>1. fpStage[m] = "archived" /\ UNCHANGED <<archive, fpState>>
        BY <1>3 DEF Enqueue, EnqueueFails, FpStep
    <2>2. \A n \in Messages : fpStage'[n] = "archived" => fpStage[n] = "archived"
        BY <1>3 DEF Enqueue, EnqueueFails, FpStep
    <2>3. \A c \in Copies : inState'[c] # "absent" => inState[c] # "absent" \/ c[1] = m
        BY <1>3 DEF Enqueue, EnqueueFails
    <2>. QED
        BY <2>1, <2>2, <2>3 DEF IdOf
<1>4. ASSUME UNCHANGED archive,
             \A c \in Copies : inState'[c] # "absent" => inState[c] # "absent",
             \A m \in Messages : fpStage'[m] = "archived" => fpStage[m] = "archived"
      PROVE  ArchiveSound'
    BY <1>1, <1>4
<1>5. ASSUME NEW batch \in inInvocations, InRespond(batch) \/ InCrash(batch)
      PROVE  ArchiveSound'
    <2>1. \A c \in batch : inState[c] = "inflight"
        BY <1>5 DEF HeldOnce, In!Held
    <2>. QED
        BY <1>5, <2>1, <1>4 DEF InRespond, InCrash, In!Respond, In!Crash, fpVars
<1>6. ASSUME NEW batch \in SUBSET Copies, InReceive(batch) PROVE ArchiveSound'
    BY <1>6, <1>4 DEF InReceive, In!Receive, fpVars
<1>7. ASSUME NEW c \in Copies, InTimer(c) PROVE ArchiveSound'
    BY <1>7, <1>4 DEF InTimer, In!VisibilityTimeout, In!Redrive, fpVars
<1>8. ASSUME NEW batch \in SUBSET Messages,
             FpReceive(batch) \/ FpRespond(batch) \/ FpCrash(batch)
      PROVE  ArchiveSound'
    BY <1>8, <1>4 DEF FpReceive, FpRespond, FpCrash, inVars
<1>9. ASSUME NEW m \in Messages, Quarantine(m) \/ QuarantineFails(m) PROVE ArchiveSound'
    BY <1>9, <1>4 DEF Quarantine, QuarantineFails, FpStep
<1>10. ASSUME UNCHANGED <<archive, fpStage, inState>> PROVE ArchiveSound'
    BY <1>10, <1>4
<1>. QED
    BY <1>2, <1>3, <1>5, <1>6, <1>7, <1>8, <1>9, <1>10
    DEF Next, FpProgress, InProgress, Faulty, Quiescent, vars, fpVars, inVars, Publish,
        FpTimer, InStep, GetObject, GetObjectFails, ParseFails, Heartbeat, PutItemToDb,
        PutItemToDbFails

\* A message the queueing lambda is done with went on.
LEMMA QueueingSoundStep == IInv /\ [Next]_vars => QueueingSound'
<1> SUFFICES ASSUME IInv, [Next]_vars PROVE QueueingSound'
    OBVIOUS
<1>0. TypeOK /\ QueueingSound /\ HeldOnce
    BY DEF IInv
<1> USE <1>0, CopiesTyped
    DEF TypeOK, Fp!TypeOK, In!TypeOK, QueueingSound, CopiesOf
<1> DEFINE Over(m) == fpStage[m] = "done" \/ fpState[m] = "deleted"
\* It is enough that copies and quarantined bodies stay, and that no message
\* is newly done.
<1>1. ASSUME \A m \in Messages : Over(m)' => Over(m),
             \A c \in Copies : inState[c] # "absent" => inState'[c] # "absent",
             quarantine \subseteq quarantine'
      PROVE  QueueingSound'
    BY <1>1
<1>2. ASSUME NEW m \in Messages, Enqueue(m) PROVE QueueingSound'
    <2>1. /\ <<m, fpReceives[m]>> \in Copies
          /\ inState'[<<m, fpReceives[m]>>] = "visible"
        BY <1>2, EnqueueFresh DEF Enqueue
    <2>2. HasExternalId(m)
        BY <2>1 DEF Copies, Identified
    <2>3. \A n \in Messages : n # m => (Over(n)' <=> Over(n))
        BY <1>2 DEF Enqueue, FpStep
    <2>4. \A c \in Copies : inState[c] # "absent" => inState'[c] # "absent"
        BY <1>2 DEF Enqueue
    <2>5. UNCHANGED quarantine
        BY <1>2 DEF Enqueue
    <2>6. \E c \in CopiesOf(m) : inState'[c] # "absent"
        BY <2>1
    <2>. QED
        BY <2>2, <2>3, <2>4, <2>5, <2>6
<1>3. ASSUME NEW m \in Messages, EnqueueFails(m) PROVE QueueingSound'
    BY <1>3, <1>1 DEF EnqueueFails, FpStep
<1>4. ASSUME NEW m \in Messages, Quarantine(m) PROVE QueueingSound'
    <2>1. \A n \in Messages : n # m => (Over(n)' <=> Over(n))
        BY <1>4 DEF Quarantine, FpStep
    <2>2. ~HasExternalId(m) /\ quarantine' = quarantine \union {m} /\ inState' = inState
        BY <1>4 DEF Quarantine
    <2>. QED
        BY <2>1, <2>2
<1>5. ASSUME NEW m \in Messages, QuarantineFails(m) PROVE QueueingSound'
    BY <1>5, <1>1 DEF QuarantineFails, FpStep
<1>6. ASSUME NEW m \in Messages, Archive(m) \/ ArchiveFails(m) PROVE QueueingSound'
    BY <1>6, <1>1 DEF Archive, ArchiveFails, FpStep
<1>7. ASSUME NEW batch \in fpInvocations, FpRespond(batch) PROVE QueueingSound'
    BY <1>7, <1>1 DEF FpRespond, Fp!Respond, inVars
<1>8. ASSUME NEW batch \in fpInvocations, FpCrash(batch) PROVE QueueingSound'
    BY <1>8, <1>1 DEF FpCrash, Fp!Crash, inVars
<1>9. ASSUME NEW batch \in SUBSET Messages, FpReceive(batch) PROVE QueueingSound'
    BY <1>9, <1>1 DEF FpReceive, Fp!Receive, inVars
<1>10. ASSUME NEW m \in Messages, Publish(m) \/ FpTimer(m) PROVE QueueingSound'
    BY <1>10, <1>1 DEF Publish, FpTimer, Fp!Send, Fp!VisibilityTimeout, Fp!Redrive, inVars
<1>11. ASSUME NEW batch \in SUBSET Copies, InReceive(batch) PROVE QueueingSound'
    BY <1>11, <1>1 DEF InReceive, In!Receive, fpVars
<1>12. ASSUME NEW batch \in inInvocations, InRespond(batch) \/ InCrash(batch)
       PROVE  QueueingSound'
    BY <1>12, <1>1 DEF InRespond, InCrash, In!Respond, In!Crash, fpVars
<1>13. ASSUME NEW c \in Copies, InTimer(c) PROVE QueueingSound'
    BY <1>13, <1>1 DEF InTimer, In!VisibilityTimeout, In!Redrive, fpVars
<1>14. ASSUME UNCHANGED <<fpVars, inState, quarantine>> PROVE QueueingSound'
    BY <1>14, <1>1 DEF fpVars
<1>. QED
    BY <1>2, <1>3, <1>4, <1>5, <1>6, <1>7, <1>8, <1>9, <1>10, <1>11, <1>12, <1>13, <1>14
    DEF Next, FpProgress, InProgress, Faulty, Quiescent, vars, inVars,
        InStep, GetObject, GetObjectFails, ParseFails, Heartbeat, PutItemToDb,
        PutItemToDbFails

\* An insert adds at most the first row of its id, and only a sound one.
LEMMA InsertSound ==
    ASSUME TypeOK, OneRowPerExternalId, RowsGenuine,
           NEW e \in ExternalIds, NEW body \in Messages,
           ExternalId[body] = e, Kind[body] = "story", fpState[body] # "absent",
           InsertRow(e, body), UNCHANGED fpState
    PROVE  /\ OneRowPerExternalId' /\ RowsGenuine' /\ rows'[e] # <<>>
           /\ \A f \in ExternalIds : rows[f] # <<>> => rows'[f] = rows[f]
<1> USE DEF TypeOK
<1>1. CASE rows[e] # <<>>
    BY <1>1 DEF InsertRow, OneRowPerExternalId, RowsGenuine
<1>2. CASE rows[e] = <<>>
    <2>1. \A f \in ExternalIds : rows'[f] = IF f = e THEN <<body>> ELSE rows[f]
        BY <1>2 DEF InsertRow
    <2>2. Len(<<body>>) <= 1 /\ DOMAIN <<body>> = {1} /\ <<body>>[1] = body /\ <<body>> # <<>>
        OBVIOUS
    <2>3. OneRowPerExternalId'
        BY <2>1, <2>2 DEF OneRowPerExternalId
    <2>4. RowsGenuine'
        <3>1. SUFFICES ASSUME NEW f \in ExternalIds, NEW i \in DOMAIN rows'[f]
                       PROVE  /\ ExternalId[rows'[f][i]] = f
                              /\ Kind[rows'[f][i]] = "story"
                              /\ fpState'[rows'[f][i]] # "absent"
            BY DEF RowsGenuine
        <3>2. CASE f = e
            <4>1. rows'[f] = <<body>>
                BY <2>1, <3>2
            <4>2. i = 1
                BY <4>1, <3>1, <2>2
            <4>. QED
                BY <4>1, <4>2, <2>2, <3>2
        <3>3. CASE f # e
            BY <2>1, <3>3 DEF RowsGenuine
        <3>. QED
            BY <3>2, <3>3
    <2>. QED
        BY <2>1, <2>2, <2>3, <2>4, <1>2
<1>. QED
    BY <1>1, <1>2

\* What the ingestion lambda reads and stores is sound.
LEMMA IngestionSoundStep == IInv /\ [Next]_vars => IngestionSound'
<1> SUFFICES ASSUME IInv, [Next]_vars PROVE IngestionSound'
    OBVIOUS
<1>0. TypeOK /\ IngestionSound /\ HeldOnce /\ StagesMatchQueues
    BY DEF IInv
<1>1. \A m \in Messages : fpState[m] # "absent" => fpState'[m] # "absent"
    BY <1>0, PublishedStays
<1> USE <1>0, CopiesTyped DEF TypeOK, Fp!TypeOK, In!TypeOK, IngestionSound, Bodies
<1> DEFINE Over(c) == inStage[c] = "done" \/ inState[c] = "deleted"
           Reading == /\ \A c \in Copies : inBody[c] # NoObject =>
                            /\ ExternalId[inBody[c]] = IdOf(c)
                            /\ fpState[inBody[c]] # "absent"
                      /\ \A c \in Copies : inStage[c] = "fetched" => inBody[c] # NoObject
\* Steps that store nothing, acknowledge nothing new, and read nothing new.
<1>2. ASSUME UNCHANGED rows, \A c \in Copies : Over(c)' => Over(c)
      PROVE  /\ OneRowPerExternalId' /\ RowsGenuine'
             /\ \A c \in Copies : Over(c)' /\ Kind[c[1]] = "story" => rows'[IdOf(c)] # <<>>
    BY <1>1, <1>2 DEF OneRowPerExternalId, RowsGenuine
<1>3. ASSUME \A c \in Copies : inBody'[c] \in {inBody[c], NoObject},
             \A c \in Copies : inStage'[c] = "fetched" =>
                 inStage[c] = "fetched" /\ inBody'[c] = inBody[c]
      PROVE  Reading'
    BY <1>1, <1>3
<1>4. ASSUME NEW batch \in inInvocations, InRespond(batch) \/ InCrash(batch)
      PROVE  IngestionSound'
    <2>1. \A c \in Copies : Over(c)' => Over(c)
        BY <1>4 DEF InRespond, InCrash, In!Respond, In!Crash, InForget
    <2>2. UNCHANGED rows
        BY <1>4 DEF InRespond, InCrash
    <2>3. Reading'
        BY <1>4, <1>3 DEF InRespond, InCrash, InForget
    <2>. QED
        BY <2>1, <2>2, <2>3, <1>2
<1>5. ASSUME NEW batch \in SUBSET Copies, InReceive(batch) PROVE IngestionSound'
    <2>1. \A c \in Copies : Over(c)' => Over(c)
        BY <1>5 DEF InReceive, In!Receive
    <2>2. UNCHANGED rows
        BY <1>5 DEF InReceive
    <2>3. Reading'
        BY <1>5, <1>3 DEF InReceive
    <2>. QED
        BY <2>1, <2>2, <2>3, <1>2
<1>6. ASSUME NEW c \in Copies, GetObject(c) PROVE IngestionSound'
    <2>1. UNCHANGED rows /\ \A d \in Copies : Over(d)' => Over(d)
        BY <1>6 DEF GetObject, InStep
    <2>2. ExternalId[archive[IdOf(c)]] = IdOf(c) /\ fpState[archive[IdOf(c)]] # "absent"
        BY <1>6 DEF GetObject, IInv, ArchiveSound
    <2>3. Reading'
        BY <1>6, <2>2, <1>1 DEF GetObject, InStep
    <2>. QED
        BY <2>1, <2>3, <1>2
<1>7. ASSUME NEW c \in Copies, GetObjectFails(c) \/ ParseFails(c) PROVE IngestionSound'
    <2>1. UNCHANGED rows /\ \A d \in Copies : Over(d)' => Over(d)
        BY <1>7 DEF GetObjectFails, ParseFails, InStep
    <2>2. Reading'
        BY <1>7, <1>3 DEF GetObjectFails, ParseFails, InStep
    <2>. QED
        BY <2>1, <2>2, <1>2
<1>8. ASSUME NEW c \in Copies, Heartbeat(c) PROVE IngestionSound'
    <2>1. Kind[c[1]] # "story"
        <3>1. /\ inBody[c] \in Messages /\ Kind[inBody[c]] = "heartbeat"
              /\ ExternalId[inBody[c]] = ExternalId[c[1]]
            BY <1>8 DEF Heartbeat, IdOf
        <3>. QED
            BY <3>1, HeartbeatAssumption
    <2>2. UNCHANGED rows /\ \A d \in Copies : Over(d)' => Over(d) \/ d = c
        BY <1>8 DEF Heartbeat, InStep
    <2>3. Reading'
        BY <1>8, <1>3 DEF Heartbeat, InStep
    <2>4. OneRowPerExternalId' /\ RowsGenuine'
        BY <2>2, <1>1 DEF OneRowPerExternalId, RowsGenuine
    <2>. QED
        BY <2>1, <2>2, <2>3, <2>4
<1>9. ASSUME NEW c \in Copies, PutItemToDb(c) \/ PutItemToDbFails(c)
      PROVE  IngestionSound'
    <2>1. /\ inBody[c] \in Messages /\ Kind[inBody[c]] = "story"
          /\ ExternalId[inBody[c]] = IdOf(c) /\ fpState[inBody[c]] # "absent"
          /\ UNCHANGED <<fpState, inBody>>
        BY <1>9 DEF PutItemToDb, PutItemToDbFails, InStep, fpVars
    <2>2. Reading'
        BY <1>9, <1>3 DEF PutItemToDb, PutItemToDbFails, InStep
    <2>3. CASE InsertRow(IdOf(c), inBody[c])
        <3>1. /\ OneRowPerExternalId' /\ RowsGenuine' /\ rows'[IdOf(c)] # <<>>
              /\ \A f \in ExternalIds : rows[f] # <<>> => rows'[f] = rows[f]
            BY <2>1, <2>3, InsertSound
        <3>2. \A d \in Copies : Over(d)' => Over(d) \/ d = c
            BY <1>9 DEF PutItemToDb, PutItemToDbFails, InStep
        <3>. QED
            BY <2>2, <3>1, <3>2
    <2>4. CASE PutItemToDbFails(c) /\ UNCHANGED rows
        <3>1. \A d \in Copies : Over(d)' => Over(d)
            BY <2>4 DEF PutItemToDbFails, InStep
        <3>. QED
            BY <2>2, <2>4, <3>1, <1>2
    <2>. QED
        BY <1>9, <2>3, <2>4 DEF PutItemToDb, PutItemToDbFails
<1>10. ASSUME NEW m \in Messages, Enqueue(m) \/ EnqueueFails(m) PROVE IngestionSound'
    <2>1. UNCHANGED <<rows, inStage, inBody>>
        BY <1>10 DEF Enqueue, EnqueueFails, FpStep
    <2>2. \A c \in Copies : Over(c)' => Over(c)
        BY <1>10 DEF Enqueue, EnqueueFails, FpStep
    <2>. QED
        BY <2>1, <2>2, <1>2, <1>3
<1>11. ASSUME NEW c \in Copies, InTimer(c) PROVE IngestionSound'
    <2>1. UNCHANGED <<rows, inStage, inBody>> /\ \A d \in Copies : Over(d)' => Over(d)
        BY <1>11 DEF InTimer, In!VisibilityTimeout, In!Redrive
    <2>. QED
        BY <2>1, <1>2, <1>3
<1>12. ASSUME UNCHANGED <<rows, inStage, inBody, inState>> PROVE IngestionSound'
    BY <1>12, <1>2, <1>3
<1>. QED
    BY <1>4, <1>5, <1>6, <1>7, <1>8, <1>9, <1>10, <1>11, <1>12
    DEF Next, FpProgress, InProgress, Faulty, Quiescent, vars, inVars, Publish, FpReceive,
        FpRespond, FpCrash, FpTimer, FpStep, Archive, ArchiveFails, Quarantine, QuarantineFails

-----------------------------------------------------------------------------
(* Retries.                                                                *)

\* The two halves of the budget.
FpBudget ==
    \A m \in Messages :
          /\ fpReceives[m] <=
                IF fpState[m] = "deleted" \/ fpStage[m] \in {"started", "archived", "done"}
                THEN faults + 1 ELSE faults
          /\ fpState[m] = "dead" => fpReceives[m] = MaxReceiveCount

InBudget ==
    \A c \in Copies : Parseable(c[1]) =>
          /\ inReceives[c] <=
                IF inState[c] = "deleted" \/ inStage[c] \in {"started", "fetched", "done"}
                THEN faults + 1 ELSE faults
          /\ inState[c] = "dead" => inReceives[c] = MaxReceiveCount

\* The budget of faults is the budget of each queue.
LEMMA BudgetSplit == Budget <=> FpBudget /\ InBudget
BY DEF Budget, FpBudget, InBudget

\* Faults are only ever added.
LEMMA FaultsGrow == TypeOK /\ [Next]_vars => faults' \in Nat /\ faults' >= faults
<1> SUFFICES ASSUME TypeOK, [Next]_vars PROVE faults' \in Nat /\ faults' >= faults
    OBVIOUS
<1>1. Fault \/ UNCHANGED faults
    BY DEF Next, FpProgress, InProgress, Faulty, Quiescent, vars, inVars, fpVars, Publish,
       FpReceive, FpRespond, FpCrash, FpTimer, Archive, ArchiveFails, Enqueue, EnqueueFails,
       Quarantine, QuarantineFails, InReceive, InRespond, InCrash, InTimer, GetObject,
       GetObjectFails, ParseFails, Heartbeat, PutItemToDb, PutItemToDbFails
<1>. QED
    BY <1>1, BoundsAssumption DEF Fault, TypeOK

\* A delivery from the fingerpost queue that does not work costs a fault.
LEMMA FpBudgetStep == IInv /\ [Next]_vars => FpBudget'
<1> SUFFICES ASSUME IInv, [Next]_vars PROVE FpBudget'
    OBVIOUS
<1>0. TypeOK /\ FpBudget /\ HeldOnce /\ StagesMatchQueues
    BY BudgetSplit DEF IInv
<1> DEFINE Active == {"started", "archived", "done"}
           Paid(m) == fpState[m] = "deleted" \/ fpStage[m] \in Active
<1>1. /\ \A m \in Messages : fpReceives[m] \in Nat /\ fpReceives'[m] \in Nat
      /\ faults \in Nat /\ faults' \in Nat /\ faults' >= faults
      /\ MaxReceiveCount \in Nat
    BY <1>0, FaultsGrow, NextTypeOK, BoundsAssumption DEF TypeOK, Fp!TypeOK
<1> USE <1>0, <1>1 DEF FpBudget
\* Steps that keep the receives and strip a message's credit only at the
\* price of a fault.
<1>2. ASSUME UNCHANGED fpReceives,
             \A m \in Messages : fpState'[m] = "dead" => fpState[m] = "dead",
             \A m \in Messages : Paid(m) => Paid(m)' \/ faults' = faults + 1
      PROVE  FpBudget'
    BY <1>2
<1>3. ASSUME NEW batch \in SUBSET Messages, FpReceive(batch) PROVE FpBudget'
    <2>1. \A m \in batch : /\ fpReceives'[m] = fpReceives[m] + 1
                           /\ fpState[m] = "visible"
                           /\ fpStage'[m] = "started" /\ fpState'[m] = "inflight"
        BY <1>3 DEF FpReceive, Fp!Receive
    <2>2. \A m \in Messages \ batch : /\ fpReceives'[m] = fpReceives[m]
                                      /\ fpStage'[m] = fpStage[m] /\ fpState'[m] = fpState[m]
        BY <1>3 DEF FpReceive, Fp!Receive
    <2>3. \A m \in batch : fpStage[m] = "idle"
        BY <2>1 DEF HeldOnce, StagesMatchQueues
    <2>4. faults' = faults
        BY <1>3 DEF FpReceive
    <2>. QED
        BY <2>1, <2>2, <2>3, <2>4
<1>4. ASSUME NEW batch \in fpInvocations, FpRespond(batch) PROVE FpBudget'
    BY <1>4, <1>2 DEF FpRespond, Fp!Respond, TypeOK, Fp!TypeOK
<1>5. ASSUME NEW batch \in fpInvocations, FpCrash(batch) PROVE FpBudget'
    BY <1>5, <1>2 DEF FpCrash, Fp!Crash, Fault
<1>6. ASSUME NEW m \in Messages, FpTimer(m) PROVE FpBudget'
    <2>1. /\ fpState[m] \in {"visible", "inflight"}
          /\ UNCHANGED <<fpReceives, fpStage, faults>>
          /\ \A n \in Messages \ {m} : fpState'[n] = fpState[n]
          /\ fpState'[m] # "deleted"
          /\ fpState'[m] = "dead" => fpReceives[m] = MaxReceiveCount
        BY <1>6 DEF FpTimer, Fp!VisibilityTimeout, Fp!Redrive, TypeOK, Fp!TypeOK
    <2>. QED
        BY <2>1
<1>7. ASSUME NEW m \in Messages, Publish(m) PROVE FpBudget'
    BY <1>7, <1>2 DEF Publish, Fp!Send, TypeOK, Fp!TypeOK
<1>8. ASSUME NEW m \in Messages, Archive(m) \/ Enqueue(m) \/ Quarantine(m)
      PROVE  FpBudget'
    BY <1>8, <1>2 DEF Archive, Enqueue, Quarantine, FpStep, TypeOK
<1>9. ASSUME NEW m \in Messages, ArchiveFails(m) \/ EnqueueFails(m) \/ QuarantineFails(m)
      PROVE  FpBudget'
    BY <1>9, <1>2 DEF ArchiveFails, EnqueueFails, QuarantineFails, FpStep, Fault
<1>10. ASSUME UNCHANGED fpVars PROVE FpBudget'
    BY <1>10, <1>2 DEF fpVars
<1>. QED
    BY <1>3, <1>4, <1>5, <1>6, <1>7, <1>8, <1>9, <1>10
    DEF Next, FpProgress, InProgress, Faulty, Quiescent, vars, InReceive, InRespond,
        InCrash, InTimer, InStep, GetObject, GetObjectFails, ParseFails, Heartbeat,
        PutItemToDb, PutItemToDbFails

\* So does a delivery of a copy, if the bodies under its id parse.
LEMMA InBudgetStep == IInv /\ [Next]_vars => InBudget'
<1> SUFFICES ASSUME IInv, [Next]_vars PROVE InBudget'
    OBVIOUS
<1>0. TypeOK /\ InBudget /\ HeldOnce /\ StagesMatchQueues /\ IngestionSound
    BY BudgetSplit DEF IInv
<1> DEFINE Active == {"started", "fetched", "done"}
           Paid(c) == inState[c] = "deleted" \/ inStage[c] \in Active
<1>1. /\ \A c \in Copies : inReceives[c] \in Nat /\ inReceives'[c] \in Nat
      /\ faults \in Nat /\ faults' \in Nat /\ faults' >= faults
      /\ MaxReceiveCount \in Nat
    BY <1>0, FaultsGrow, NextTypeOK, BoundsAssumption DEF TypeOK, In!TypeOK
<1> USE <1>0, <1>1 DEF InBudget
<1>2. ASSUME UNCHANGED inReceives,
             \A c \in Copies : inState'[c] = "dead" => inState[c] = "dead",
             \A c \in Copies : Parseable(c[1]) /\ Paid(c) => Paid(c)' \/ faults' = faults + 1
      PROVE  InBudget'
    BY <1>2
<1>3. ASSUME NEW batch \in SUBSET Copies, InReceive(batch) PROVE InBudget'
    <2>1. \A c \in batch : /\ inReceives'[c] = inReceives[c] + 1
                           /\ inState[c] = "visible"
                           /\ inStage'[c] = "started" /\ inState'[c] = "inflight"
        BY <1>3 DEF InReceive, In!Receive
    <2>2. \A c \in Copies \ batch : /\ inReceives'[c] = inReceives[c]
                                    /\ inStage'[c] = inStage[c] /\ inState'[c] = inState[c]
        BY <1>3 DEF InReceive, In!Receive
    <2>3. \A c \in batch : inStage[c] = "idle"
        BY <2>1 DEF HeldOnce, StagesMatchQueues
    <2>4. faults' = faults
        BY <1>3 DEF InReceive
    <2>. QED
        BY <2>1, <2>2, <2>3, <2>4
<1>4. ASSUME NEW batch \in inInvocations, InRespond(batch) PROVE InBudget'
    BY <1>4, <1>2 DEF InRespond, In!Respond, InForget, TypeOK, In!TypeOK
<1>5. ASSUME NEW batch \in inInvocations, InCrash(batch) PROVE InBudget'
    BY <1>5, <1>2 DEF InCrash, In!Crash, Fault
<1>6. ASSUME NEW c \in Copies, InTimer(c) PROVE InBudget'
    <2>1. /\ inState[c] \in {"visible", "inflight"}
          /\ UNCHANGED <<inReceives, inStage, faults>>
          /\ \A d \in Copies \ {c} : inState'[d] = inState[d]
          /\ inState'[c] # "deleted"
          /\ inState'[c] = "dead" => inReceives[c] = MaxReceiveCount
        BY <1>6 DEF InTimer, In!VisibilityTimeout, In!Redrive, TypeOK, In!TypeOK
    <2>. QED
        BY <2>1
<1>7. ASSUME NEW m \in Messages, Enqueue(m) \/ EnqueueFails(m) PROVE InBudget'
    <2>1. <<m, fpReceives[m]>> \in Copies /\ inState[<<m, fpReceives[m]>>] = "absent"
        BY <1>7, EnqueueFresh
    <2>2. UNCHANGED <<inReceives, inStage>>
        BY <1>7 DEF Enqueue, EnqueueFails, FpStep
    <2>3. \A c \in Copies : inState'[c] = inState[c]
                         \/ (inState[c] = "absent" /\ inState'[c] = "visible")
        BY <1>7, <2>1 DEF Enqueue, EnqueueFails, TypeOK, In!TypeOK
    <2>. QED
        BY <2>2, <2>3, <1>2
<1>8. ASSUME NEW c \in Copies, GetObject(c) \/ Heartbeat(c) \/ PutItemToDb(c)
      PROVE  InBudget'
    BY <1>8, <1>2 DEF GetObject, Heartbeat, PutItemToDb, InStep, TypeOK
<1>9. ASSUME NEW c \in Copies, GetObjectFails(c) \/ PutItemToDbFails(c) PROVE InBudget'
    BY <1>9, <1>2 DEF GetObjectFails, PutItemToDbFails, InStep, Fault
<1>10. ASSUME NEW c \in Copies, ParseFails(c) PROVE InBudget'
    <2>1. ~Parseable(c[1])
        <3>1. /\ inBody[c] \in Messages /\ Kind[inBody[c]] = "unparseable"
              /\ ExternalId[inBody[c]] = ExternalId[c[1]]
            BY <1>10 DEF ParseFails, IngestionSound, TypeOK, Bodies, IdOf
        <3>. QED
            BY <3>1 DEF Parseable
    <2>2. UNCHANGED <<inReceives, inState>>
          /\ \A d \in Copies : d # c => inStage'[d] = inStage[d]
        BY <1>10 DEF ParseFails, InStep
    <2>3. \A d \in Copies : Parseable(d[1]) => d # c
        BY <2>1
    <2>. QED
        BY <2>2, <2>3, <1>2
<1>11. ASSUME UNCHANGED <<inReceives, inState, inStage>> PROVE InBudget'
    BY <1>11, <1>2
<1>. QED
    BY <1>3, <1>4, <1>5, <1>6, <1>7, <1>8, <1>9, <1>10, <1>11
    DEF Next, FpProgress, InProgress, Faulty, Quiescent, vars, inVars, Publish, FpReceive,
        FpRespond, FpCrash, FpTimer, FpStep, Archive, ArchiveFails, Quarantine, QuarantineFails

-----------------------------------------------------------------------------
(* The invariant and what it gives.                                        *)

\* The invariant holds before anything is published.
LEMMA InitIInv == Init => IInv
<1> SUFFICES ASSUME Init PROVE IInv
    OBVIOUS
<1>1. TypeOK
    BY InitTypeOK
<1>2. Fp!Held = {} /\ In!Held = {}
    BY DEF Init, Fp!Init, In!Init, Fp!Held, In!Held
<1>3. HeldOnce /\ StagesMatchQueues
    BY <1>2 DEF Init, Fp!Init, In!Init, HeldOnce, StagesMatchQueues
<1>4. CopiesAreOfPast /\ ArchiveSound /\ QueueingSound
    BY MessagesAssumption, CopiesTyped
    DEF Init, Fp!Init, In!Init, CopiesAreOfPast, ArchiveSound, ArchivedBeforeQueued, QueueingSound
<1>5. IngestionSound
    BY CopiesTyped DEF Init, In!Init, IngestionSound, OneRowPerExternalId, RowsGenuine
<1>6. Budget
    BY CopiesTyped DEF Init, Fp!Init, In!Init, Budget
<1>. QED
    BY <1>1, <1>3, <1>4, <1>5, <1>6 DEF IInv

\* Each of its parts is kept by every step, given the others.
LEMMA NextIInv == IInv /\ [Next]_vars => IInv'
<1> SUFFICES ASSUME IInv, [Next]_vars PROVE IInv'
    OBVIOUS
<1>1. TypeOK'
    BY NextTypeOK DEF IInv
<1>2. (HeldOnce /\ StagesMatchQueues)'
    BY FpShapeStep, InShapeStep DEF FpShape, InShape, HeldOnce, StagesMatchQueues
<1>3. Budget'
    BY FpBudgetStep, InBudgetStep DEF FpBudget, InBudget, Budget
<1>. QED
    BY <1>1, <1>2, <1>3, CopiesAreOfPastStep, ArchiveSoundStep, QueueingSoundStep,
       IngestionSoundStep DEF IInv

\* The inductive invariant holds in every reachable state.
THEOREM Invariance == Spec => []IInv
BY InitIInv, NextIInv, PTL DEF Spec

\* No published message is lost, whatever fails and however the two lambdas
\* and the two queues interleave: what a handler does not report as a failure
\* went on to the next stage.
THEOREM NothingLost == Spec => []NoLoss
<1>1. IInv => NoLoss
    BY CopiesTyped DEF IInv, TypeOK, Fp!TypeOK, In!TypeOK, Fp!QueueState, In!QueueState,
       QueueingSound, NoLoss, Pending, Delivered, DeadLettered, CopiesOf, Live
<1>. QED
    BY <1>1, Invariance, PTL

\* An acknowledged story has its row.
THEOREM AcknowledgedIsStored == Spec => []StoryStored
<1>1. IInv => StoryStored
    BY DEF IInv, IngestionSound, StoryStored
<1>. QED
    BY <1>1, Invariance, PTL

\* Redelivery and racing invocations never give an external id two rows
\* (FeedIngestion.OneRowPerExternalId),
THEOREM RowsUnique == Spec => []OneRowPerExternalId
<1>1. IInv => OneRowPerExternalId
    BY DEF IInv, IngestionSound
<1>. QED
    BY <1>1, Invariance, PTL

\* nor a row with another id's body (FeedIngestion.RowsGenuine).
THEOREM RowsSound == Spec => []RowsGenuine
<1>1. IInv => RowsGenuine
    BY DEF IInv, IngestionSound
<1>. QED
    BY <1>1, Invariance, PTL

\* The ingestion lambda is never told of a body before S3 has one under its id,
\* whichever deliveries overwrite it (FeedIngestion.ArchivedBeforeQueued).
THEOREM ArchivedFirst == Spec => []ArchivedBeforeQueued
<1>1. IInv => ArchivedBeforeQueued
    BY DEF IInv, ArchiveSound
<1>. QED
    BY <1>1, Invariance, PTL

\* Fewer faults than maxReceiveCount never send a parseable message to a dead
\* letter queue.
THEOREM FaultsTolerated == Spec => []FaultTolerance
<1>1. IInv => FaultTolerance
    <2> SUFFICES ASSUME IInv, NEW m \in Messages, Parseable(m), faults < MaxReceiveCount,
                        DeadLettered(m)
                 PROVE  FALSE
        BY DEF FaultTolerance
    <2>0. faults \in Nat /\ MaxReceiveCount \in Nat
        BY BoundsAssumption DEF IInv, TypeOK
    <2>1. CASE fpState[m] = "dead"
        <3>1. fpStage[m] = "idle"
            BY <2>1 DEF IInv, HeldOnce, StagesMatchQueues
        <3>. QED
            BY <2>0, <2>1, <3>1 DEF IInv, Budget
    <2>2. ASSUME NEW c \in CopiesOf(m), inState[c] = "dead" PROVE FALSE
        <3>1. c \in Copies /\ c[1] = m
            BY DEF CopiesOf
        <3>2. inStage[c] = "idle"
            BY <2>2, <3>1 DEF IInv, HeldOnce, StagesMatchQueues
        <3>. QED
            BY <2>0, <2>2, <3>1, <3>2 DEF IInv, Budget
    <2>. QED
        BY <2>1, <2>2 DEF DeadLettered
<1>. QED
    BY <1>1, Invariance, PTL

\* No delivery changes a row that is there.
THEOREM RowsNeverChange == Spec => RowsImmutable
<1>1. IInv /\ [Next]_vars => [\A e \in ExternalIds : rows[e] # <<>> => rows'[e] = rows[e]]_vars
    <2> SUFFICES ASSUME IInv, Next, NEW e \in ExternalIds, rows[e] # <<>>
                 PROVE  rows'[e] = rows[e]
        OBVIOUS
    <2>1. ASSUME NEW c \in Copies, PutItemToDb(c) \/ PutItemToDbFails(c)
          PROVE  rows'[e] = rows[e]
        BY <2>1, CopiesTyped DEF PutItemToDb, PutItemToDbFails, InsertRow, IInv, TypeOK
    <2>. QED
        BY <2>1 DEF Next, FpProgress, InProgress, Faulty, Quiescent, vars, Publish, FpReceive,
           FpRespond, FpCrash, FpTimer, FpStep, Archive, ArchiveFails, Enqueue, EnqueueFails,
           Quarantine, QuarantineFails, InReceive, InRespond, InCrash, InTimer, GetObject,
           GetObjectFails, ParseFails, Heartbeat
<1>. QED
    BY <1>1, Invariance, PTL DEF RowsImmutable, Spec

-----------------------------------------------------------------------------
(* The pipeline implements the delivery contract.                          *)

\* Before anything is published, every message is unpublished.
LEMMA InitContract == Init => Untouched /\ Contract!Init
BY DEF Init, Fp!Init, Untouched, Contract!Init, Status

\* A queue only moves what is on it, or what is new to it; the queueing lambda
\* only stores, or sends on, a message it holds.
LEMMA Moves ==
    ASSUME IInv, [Next]_vars
    PROVE  /\ \A m \in Messages : fpState'[m] # fpState[m] =>
                \/ fpState[m] \in Live /\ fpState'[m] # "absent"
                \/ Publish(m)
           /\ \A c \in Copies : inState'[c] # inState[c] =>
                \/ inState[c] \in Live /\ inState'[c] # "absent"
                \/ inState[c] = "absent" /\ fpState[c[1]] = "inflight"
           /\ quarantine \subseteq quarantine'
           /\ \A m \in quarantine' \ quarantine :
                fpState[m] = "inflight" /\ ~HasExternalId(m)
<1> DEFINE Goal == /\ \A m \in Messages : fpState'[m] # fpState[m] =>
                        \/ fpState[m] \in Live /\ fpState'[m] # "absent"
                        \/ Publish(m)
                   /\ \A c \in Copies : inState'[c] # inState[c] =>
                        \/ inState[c] \in Live /\ inState'[c] # "absent"
                        \/ inState[c] = "absent" /\ fpState[c[1]] = "inflight"
                   /\ quarantine \subseteq quarantine'
                   /\ \A m \in quarantine' \ quarantine :
                        fpState[m] = "inflight" /\ ~HasExternalId(m)
<1>0. TypeOK /\ HeldOnce /\ StagesMatchQueues
    BY DEF IInv
<1>1. ASSUME NEW m \in Messages, Publish(m) PROVE Goal
    BY <1>0, <1>1 DEF Publish, Fp!Send, inVars, TypeOK, Fp!TypeOK
<1>2. ASSUME NEW batch \in SUBSET Messages, FpReceive(batch) PROVE Goal
    BY <1>0, <1>2 DEF FpReceive, Fp!Receive, inVars, Live
<1>3. ASSUME NEW batch \in fpInvocations, FpRespond(batch) \/ FpCrash(batch) PROVE Goal
    <2>1. \A m \in batch : fpState[m] = "inflight"
        BY <1>0, <1>3 DEF HeldOnce, Fp!Held
    <2>. QED
        BY <1>0, <1>3, <2>1 DEF FpRespond, FpCrash, Fp!Respond, Fp!Crash, inVars, Live
<1>4. ASSUME NEW m \in Messages, Enqueue(m) \/ EnqueueFails(m) PROVE Goal
    <2>1. /\ <<m, fpReceives[m]>> \in Copies
          /\ inState[<<m, fpReceives[m]>>] = "absent"
        BY <1>4, EnqueueFresh
    <2>2. fpState[m] = "inflight"
        BY <1>0, <1>4 DEF Enqueue, EnqueueFails, FpStep, HeldOnce, StagesMatchQueues
    <2>3. \A c \in Copies : inState'[c] # inState[c] => c = <<m, fpReceives[m]>>
        BY <1>0, <1>4, <2>1 DEF Enqueue, EnqueueFails, TypeOK, In!TypeOK
    <2>4. UNCHANGED <<fpState, quarantine>>
        BY <1>4 DEF Enqueue, EnqueueFails, FpStep
    <2>. QED
        BY <2>1, <2>2, <2>3, <2>4
<1>5. ASSUME NEW m \in Messages, Quarantine(m) \/ QuarantineFails(m) PROVE Goal
    <2>1. fpState[m] = "inflight"
        BY <1>0, <1>5 DEF Quarantine, QuarantineFails, FpStep, HeldOnce, StagesMatchQueues
    <2>. QED
        BY <1>5, <2>1 DEF Quarantine, QuarantineFails, FpStep
<1>6. ASSUME NEW m \in Messages, FpTimer(m) PROVE Goal
    BY <1>0, <1>6 DEF FpTimer, Fp!VisibilityTimeout, Fp!Redrive, inVars, Live,
       TypeOK, Fp!TypeOK
<1>7. ASSUME NEW batch \in SUBSET Copies, InReceive(batch) PROVE Goal
    BY <1>0, <1>7 DEF InReceive, In!Receive, fpVars, Live
<1>8. ASSUME NEW batch \in inInvocations, InRespond(batch) \/ InCrash(batch) PROVE Goal
    <2>1. \A c \in batch : inState[c] = "inflight"
        BY <1>0, <1>8 DEF HeldOnce, In!Held
    <2>. QED
        BY <1>0, <1>8, <2>1 DEF InRespond, InCrash, In!Respond, In!Crash, fpVars, Live
<1>9. ASSUME NEW c \in Copies, InTimer(c) PROVE Goal
    BY <1>0, <1>9 DEF InTimer, In!VisibilityTimeout, In!Redrive, fpVars, Live,
       TypeOK, In!TypeOK
<1>10. ASSUME UNCHANGED <<fpState, inState, quarantine>> PROVE Goal
    BY <1>10
<1>. QED
    BY <1>1, <1>2, <1>3, <1>4, <1>5, <1>6, <1>7, <1>8, <1>9, <1>10
    DEF Next, FpProgress, InProgress, Faulty, Quiescent, vars, fpVars, inVars, Archive,
        ArchiveFails, FpStep, InStep, GetObject, GetObjectFails, ParseFails, Heartbeat,
        PutItemToDb, PutItemToDbFails

\* What is not published stays untouched.
LEMMA UntouchedStep == IInv /\ Untouched /\ [Next]_vars => Untouched'
<1> SUFFICES ASSUME IInv, Untouched, [Next]_vars PROVE Untouched'
    OBVIOUS
<1>0. TypeOK
    BY DEF IInv
<1>1. \A m \in Messages : Publish(m) => fpState'[m] = "visible"
    BY <1>0 DEF Publish, Fp!Send, TypeOK, Fp!TypeOK
<1>2. \A m \in Messages : fpState'[m] = "absent" => fpState[m] = "absent"
    BY <1>1, Moves
<1>3. ASSUME NEW m \in Messages, fpState[m] = "absent" PROVE fpReceives'[m] = fpReceives[m]
    <2>1. ASSUME NEW batch \in SUBSET Messages, FpReceive(batch)
          PROVE  fpReceives'[m] = fpReceives[m]
        BY <1>3, <2>1 DEF FpReceive, Fp!Receive
    <2>2. ASSUME UNCHANGED fpReceives PROVE fpReceives'[m] = fpReceives[m]
        BY <2>2
    <2>. QED
        BY <2>1, <2>2 DEF Next, FpProgress, InProgress, Faulty, Quiescent, vars, fpVars,
           Publish, Fp!Send, FpRespond, FpCrash, Fp!Respond, Fp!Crash, FpTimer,
           Fp!VisibilityTimeout, Fp!Redrive, FpStep, Archive, ArchiveFails, Enqueue,
           EnqueueFails, Quarantine, QuarantineFails, InReceive, InRespond, InCrash, InTimer,
           InStep, GetObject, GetObjectFails, ParseFails, Heartbeat, PutItemToDb,
           PutItemToDbFails
<1>4. ASSUME NEW m \in quarantine' PROVE fpState'[m] # "absent" /\ ~HasExternalId(m)
    <2>1. fpState[m] # "absent" /\ ~HasExternalId(m) /\ m \in Messages
        BY <1>0, <1>4, Moves, NextTypeOK DEF Untouched, TypeOK
    <2>. QED
        BY <1>2, <2>1
<1>. QED
    BY <1>2, <1>3, <1>4 DEF Untouched

\* Publishing is the contract's step of the same name.
LEMMA PublishMeets ==
    ASSUME IInv, Untouched, NEW m \in Messages, Publish(m)
    PROVE  Contract!Publish(m)
<1>0. TypeOK /\ CopiesAreOfPast
    BY DEF IInv
<1>1. fpState[m] = "absent" /\ fpReceives[m] = 0 /\ m \notin quarantine
    BY DEF Publish, Fp!Send, Untouched
<1>2. \A c \in CopiesOf(m) : inState[c] = "absent"
    BY <1>0, <1>1, CopiesTyped DEF CopiesOf, CopiesAreOfPast, Deliveries
<1>3. UNCHANGED <<inState, quarantine>> /\ fpState' = [fpState EXCEPT ![m] = "visible"]
    BY DEF Publish, Fp!Send, inVars
<1>4. Status'[m] = "pending"
    BY <1>0, <1>1, <1>2, <1>3
    DEF Status, Delivered, Pending, Live, TypeOK, Fp!TypeOK
<1>5. \A n \in Messages \ {m} : Status'[n] = Status[n]
    <2>1. \A n \in Messages \ {m} : fpState'[n] = fpState[n]
        BY <1>0, <1>3 DEF TypeOK, Fp!TypeOK
    <2>. QED
        BY <1>3, <2>1 DEF Status, Delivered, Pending, DeadLettered, CopiesOf
<1>6. Status[m] = "unpublished"
    BY <1>1 DEF Status
<1>7. Status' = [Status EXCEPT ![m] = "pending"]
    BY <1>4, <1>5 DEF Status
<1>. QED
    BY <1>6, <1>7 DEF Contract!Publish

\* A message has a status of the contract: none is lost.
LEMMA StatusTyped ==
    ASSUME IInv, NEW m \in Messages
    PROVE  Status[m] \in {"unpublished", "pending", "delivered", "quarantined", "dead"}
BY CopiesTyped DEF IInv, TypeOK, Fp!TypeOK, In!TypeOK, Fp!QueueState, In!QueueState,
   QueueingSound, Status, Pending, Delivered, DeadLettered, CopiesOf, Live

\* No step but its own publication gives a message a status, and an outcome is
\* for good.
LEMMA OutcomesLast ==
    ASSUME IInv, Untouched, [Next]_vars, NEW m \in Messages, ~Publish(m),
           Status'[m] # Status[m]
    PROVE  Status[m] = "pending"
<1>0. TypeOK /\ HeldOnce /\ StagesMatchQueues
    BY DEF IInv
<1>1. CASE Status[m] = "unpublished"
    <2>1. fpState[m] = "absent"
        BY <1>1 DEF Status
    <2>2. fpState'[m] = "absent"
        BY <2>1, Moves DEF Live
    <2>. QED
        BY <1>1, <2>2 DEF Status
<1>2. fpState[m] # "absent" => fpState'[m] # "absent"
    BY Moves DEF Live
<1>3. CASE Status[m] = "delivered"
    <2>1. PICK c \in CopiesOf(m) : inState[c] = "deleted"
        BY <1>3 DEF Status, Delivered
    <2>2. inState'[c] = "deleted"
        BY <2>1, Moves DEF CopiesOf, Live
    <2>3. Delivered(m)'
        BY <2>2 DEF Delivered, CopiesOf
    <2>. QED
        BY <1>2, <1>3, <2>3 DEF Status
<1>4. CASE Status[m] = "quarantined"
    <2>1. m \in quarantine /\ fpState[m] # "absent"
        BY <1>4 DEF Status
    <2>2. m \in quarantine' /\ ~HasExternalId(m)
        BY <2>1, Moves DEF Untouched
    <2>3. ~Delivered(m)'
        BY <2>2, CopiesTyped DEF Delivered, CopiesOf
    <2>. QED
        BY <1>2, <1>4, <2>1, <2>2, <2>3 DEF Status
<1>5. CASE Status[m] = "dead"
    <2>1. /\ fpState[m] # "absent" /\ fpState[m] \notin Live /\ m \notin quarantine
          /\ \A c \in CopiesOf(m) : inState[c] \notin Live /\ inState[c] # "deleted"
          /\ DeadLettered(m)
        BY <1>5 DEF Status, Pending, Delivered
    <2>2. fpState'[m] = fpState[m]
        BY <2>1, Moves
    <2>3. \A c \in CopiesOf(m) : inState'[c] = inState[c]
        BY <2>1, Moves DEF CopiesOf, Live
    <2>4. m \notin quarantine'
        BY <2>1, Moves DEF Live
    <2>. QED
        BY <1>5, <2>1, <2>2, <2>3, <2>4 DEF Status, Pending, Delivered, DeadLettered, CopiesOf
<1>. QED
    BY <1>1, <1>3, <1>4, <1>5, StatusTyped

\* Every other step settles the messages whose status it changes.
LEMMA SettleMeets ==
    ASSUME IInv, Untouched, [Next]_vars, IInv', Untouched',
           \A m \in Messages : ~Publish(m), Status' # Status
    PROVE  \E S \in SUBSET Messages : Contract!Settle(S)
<1> DEFINE S == {m \in Messages : Status'[m] # Status[m]}
           outcome == [m \in S |-> Status'[m]]
<1>1. S # {}
    BY DEF Status
<1>2. \A m \in S : Status[m] = "pending"
    BY OutcomesLast
<1>3. ASSUME NEW m \in S
      PROVE  /\ Status'[m] \in {"delivered", "quarantined", "dead"}
             /\ Status'[m] = "delivered" => m \in Identified
             /\ Status'[m] = "quarantined" => m \notin Identified
    <2>1. fpState'[m] # "absent"
        <3>1. fpState[m] # "absent"
            BY <1>2 DEF Status
        <3>. QED
            BY <3>1, Moves DEF Live
    <2>2. Status'[m] \in {"unpublished", "pending", "delivered", "quarantined", "dead"}
        BY CopiesTyped, <2>1 DEF IInv, TypeOK, Fp!TypeOK, In!TypeOK, Fp!QueueState,
           In!QueueState, QueueingSound, Status, Pending, Delivered, DeadLettered, CopiesOf,
           Live
    <2>3. Status'[m] # "unpublished" /\ Status'[m] # "pending"
        BY <1>2, <2>1 DEF Status
    <2>4. Status'[m] = "delivered" => m \in Identified
        BY <2>1, CopiesTyped DEF Status, Delivered, CopiesOf, Identified
    <2>5. Status'[m] = "quarantined" => m \notin Identified
        BY <2>1 DEF Status, Untouched, Identified
    <2>. QED
        BY <2>2, <2>3, <2>4, <2>5
<1>4. outcome \in [S -> Contract!Outcomes]
    BY <1>3 DEF Contract!Outcomes
<1>5. Status' = [m \in Messages |-> IF m \in S THEN outcome[m] ELSE Status[m]]
    <2>1. Status' = [m \in Messages |-> Status'[m]]
        BY DEF Status
    <2>. QED
        BY <2>1
<1>6. Contract!Settle(S)
    BY <1>1, <1>2, <1>3, <1>4, <1>5 DEF Contract!Settle
<1>. QED
    BY <1>6

\* Whatever the two queues, the lambdas and S3 do, and whatever fails, the
\* pipeline behaves as WireDelivery says: a published message is pending until
\* it comes to one outcome that fits it, and keeps it.
THEOREM Refinement == Spec => ImplementsContract
<1>1. Init => Untouched /\ Contract!Init
    BY InitContract
<1>2. IInv /\ Untouched /\ [Next]_vars => Untouched'
    BY UntouchedStep
<1>3. IInv /\ Untouched /\ IInv' /\ Untouched' /\ [Next]_vars => [Contract!Next]_Status
    <2> SUFFICES ASSUME IInv, Untouched, IInv', Untouched', [Next]_vars, Status' # Status
                 PROVE  Contract!Next
        OBVIOUS
    <2>1. ASSUME NEW m \in Messages, Publish(m) PROVE Contract!Next
        BY <2>1, PublishMeets DEF Contract!Next
    <2>2. ASSUME \A m \in Messages : ~Publish(m) PROVE Contract!Next
        BY <2>2, SettleMeets DEF Contract!Next
    <2>. QED
        BY <2>1, <2>2
<1>. QED
    BY <1>1, <1>2, <1>3, Invariance, PTL DEF Spec, ImplementsContract, Contract!Spec
=============================================================================
