---------------------------- MODULE ReutersPoller ----------------------------
(***************************************************************************)
(* The Reuters poller (reutersPoller.ts) in its wrapper, over time.  It    *)
(* keeps no position: every poll searches for the items of the last MaxAge *)
(* and fetches each of them, and the successor is delayed so that polls    *)
(* start once per Frequency.  An item is in view of two polls at least; it *)
(* reaches the ingestion lambda unless each of them loses it.  A poll      *)
(* loses items to failures, and to its access token running out: after a   *)
(* 401 the search is repeated without its query, and finds nothing.        *)
(*                                                                         *)
(* The requests for pages take no time that counts; fetching the items     *)
(* may take as long as the invocation.  Forked chains are PollerChain's    *)
(* subject: here an invocation that fails once its successor is queued is  *)
(* not repeated.                                                           *)
(***************************************************************************)
EXTENDS Naturals, FiniteSets

CONSTANTS
    Items,       \* the items Reuters publishes
    Frequency,   \* REUTERS_POLLING_FREQUENCY_IN_SECONDS
    MaxAge,      \* maxAge of the search: 2.2 * Frequency
    Timeout,     \* of the lambda, and of visibility: a minute
    Lateness,    \* bound: what sending, and a message that is due, add to an interval
    Retention,   \* retentionPeriod of the poller's queue
    PageSize,    \* items in a page of a search
    MaxFaults    \* bound: how often a request or an invocation fails

ASSUME ReutersAssumption ==
    /\ IsFiniteSet(Items)
    /\ Frequency \in Nat \ {0} /\ Timeout \in 1..Frequency
    /\ Lateness \in Nat /\ MaxAge \in Nat /\ 2 * (Frequency + Lateness) <= MaxAge
    /\ Retention \in Nat /\ Frequency + Lateness < Retention
    /\ PageSize \in Nat \ {0} /\ MaxFaults \in Nat

VARIABLES
    age,        \* how long ago each item was published, up to past MaxAge
    published,  \* the items that are
    ingested,   \* the items handed to S3 and the ingestion queue
    phase,      \* what the poller is doing
    wait,       \* until the next message is visible
    late,       \* how much of Lateness this interval has used
    elapsed,    \* since the invocation began
    message,    \* the age of the message that invokes, or will invoke, it
    attempts,   \* how many invocations that message has had
    view,       \* the items of this poll's search that are not accounted for yet
    found,      \* those of them that it has paged through
    retrying,   \* those whose first fetch failed
    fetched,    \* those it has fetched
    token,      \* accessToken of the invocation
    secret,     \* ACCESS_TOKEN in the stored secret
    lost,       \* history: how many polls have lost each item that is not ingested
    faults

feed == <<age, published>>
clocks == <<wait, late, elapsed, message, attempts>>
work == <<view, found, retrying, fetched>>
tokens == <<token, secret>>
vars == <<feed, ingested, phase, clocks, work, tokens, lost, faults>>

\* waiting: no invocation runs; a message is delayed, invisible or due.
\* stopped: the message that should invoke the poller is gone.
Phases == {"waiting", "paging", "fetching", "sending", "queued", "stopped"}
Running == phase \in {"paging", "fetching", "sending", "queued"}

\* An invocation's token is from the secret, or one it has asked for; a secret
\* is fresh until the next poll is over.
Tokens == {"live", "dead", "renewed"}
Secrets == {"none", "fresh", "live", "dead"}

TypeOK ==
    /\ age \in [Items -> 0..(MaxAge + 1)]
    /\ published \subseteq Items /\ ingested \subseteq published
    /\ phase \in Phases
    /\ wait \in 0..Frequency /\ late \in 0..Lateness /\ elapsed \in 0..Timeout
    /\ message \in 0..Retention /\ attempts \in Nat
    /\ view \subseteq published
    /\ found \subseteq view /\ retrying \subseteq found /\ fetched \subseteq found
    /\ token \in Tokens /\ secret \in Secrets
    /\ lost \in [Items -> Nat]
    /\ faults \in 0..MaxFaults

\* A developer has sent the first message.
Init ==
    /\ age = [i \in Items |-> 0] /\ published = {} /\ ingested = {}
    /\ phase = "waiting"
    /\ wait = 0 /\ late = 0 /\ elapsed = 0 /\ message = 0 /\ attempts = 0
    /\ view = {} /\ found = {} /\ retrying = {} /\ fetched = {}
    /\ token = "dead" /\ secret = "none"
    /\ lost = [i \in Items |-> 0]
    /\ faults = 0

-----------------------------------------------------------------------------
\* Reuters publishes an item.
Publish(i) ==
    /\ i \notin published
    /\ published' = published \union {i}
    /\ UNCHANGED <<age, ingested, phase, clocks, work, tokens, lost, faults>>

Smaller(a, b) == IF a <= b THEN a ELSE b
Down(n) == IF n = 0 THEN 0 ELSE n - 1

\* A unit of time passes.  An invocation that fetches is cut off by its timeout;
\* sending, and being late to invoke, are bounded by Lateness.
Tick ==
    /\ \/ phase = "fetching" /\ elapsed < Timeout /\ UNCHANGED late
       \/ phase = "sending" /\ elapsed < Timeout /\ late < Lateness /\ late' = late + 1
       \/ phase = "waiting" /\ wait > 0 /\ UNCHANGED late
       \/ phase = "waiting" /\ wait = 0 /\ late < Lateness /\ late' = late + 1
    /\ age' = [i \in Items |-> IF i \in published THEN Smaller(age[i] + 1, MaxAge + 1)
                                                  ELSE 0]
    /\ elapsed' = IF Running THEN elapsed + 1 ELSE 0
    /\ wait' = IF phase = "waiting" THEN Down(wait) ELSE wait
    /\ message' = Smaller(message + 1, Retention)
    /\ UNCHANGED <<published, ingested, phase, attempts, work, tokens, lost, faults>>

\* Reuters no longer takes the token in the secret, nor in the invocation that
\* read it.  A token works for longer than from one poll to the next.
TokenExpires ==
    /\ secret = "live"
    /\ secret' = "dead"
    /\ token' = IF token = "live" THEN "dead" ELSE token
    /\ UNCHANGED <<feed, ingested, phase, clocks, work, lost, faults>>

-----------------------------------------------------------------------------
\* Mutant: maxAge is the frequency itself.
NarrowWindow == {i \in published : age[i] <= Frequency}

\* The items that a search selects now: published within maxAge.
InWindow == {i \in published : age[i] <= MaxAge}

\* The items that this poll has no further chance of handing on.
Lose(S) ==
    /\ view' = view \ S
    /\ lost' = [i \in Items |-> IF i \in S \ ingested THEN lost[i] + 1 ELSE lost[i]]

\* pollerWrapper is invoked and reads the secret; without a token the poller
\* asks for one.
Start ==
    /\ phase = "waiting" /\ wait = 0 /\ message < Retention
    /\ phase' = "paging"
    /\ late' = 0 /\ attempts' = attempts + 1
    /\ view' = InWindow
    /\ token' = CASE secret = "none" -> "renewed"
                  [] secret = "dead" -> "dead"
                  [] OTHER -> "live"
    /\ UNCHANGED <<feed, ingested, wait, elapsed, message, found, retrying, fetched, secret,
                   lost, faults>>

\* fetchAllPages: a page, until there is no next one.
Page ==
    /\ phase = "paging" /\ token # "dead"
    /\ \E P \in SUBSET (view \ found) :
          /\ Cardinality(P) <= PageSize
          /\ found' = found \union P
          /\ \/ found' = view /\ phase' = "fetching"
             \/ found' # view /\ Cardinality(P) = PageSize /\ UNCHANGED phase
    /\ UNCHANGED <<feed, ingested, clocks, view, retrying, fetched, tokens, lost, faults>>

\* A page that does not parse ends the paging, and what was found is kept.
\* That is so when Reuters answers with an error.
PageFails ==
    /\ phase = "paging" /\ token # "dead"
    /\ faults < MaxFaults /\ faults' = faults + 1
    /\ Lose(view \ found)
    /\ phase' = "fetching"
    /\ UNCHANGED <<feed, ingested, clocks, found, retrying, fetched, tokens>>

\* Mutant: the renewed token is not noticed.
PageUnauthorisedUnnoticed ==
    /\ phase = "paging" /\ token = "dead"
    /\ token' = "live"
    /\ Lose(view \ found)
    /\ phase' = "fetching"
    /\ UNCHANGED <<feed, ingested, clocks, found, retrying, fetched, secret, faults>>

\* fetchWithReauth on a 401: a new token, and the request again without its
\* query, which does not parse either.
PageUnauthorised ==
    /\ phase = "paging" /\ token = "dead"
    /\ token' = "renewed"
    /\ Lose(view \ found)
    /\ phase' = "fetching"
    /\ UNCHANGED <<feed, ingested, clocks, found, retrying, fetched, secret, faults>>

\* The items are fetched concurrently; each once more if its answer does not
\* parse, and otherwise left to the next poll.
Unfetched == found \ fetched

FetchItem(i) ==
    /\ phase = "fetching" /\ token # "dead" /\ i \in Unfetched
    /\ fetched' = fetched \union {i}
    /\ retrying' = retrying \ {i}
    /\ UNCHANGED <<feed, ingested, phase, clocks, view, found, tokens, lost, faults>>

\* What becomes of an item whose answer does not parse.
FetchAgain(i) ==
    IF i \in retrying
    THEN Lose({i}) /\ found' = found \ {i} /\ retrying' = retrying \ {i}
    ELSE retrying' = retrying \union {i} /\ UNCHANGED <<view, found, lost>>

ItemFails(i) ==
    /\ phase = "fetching" /\ token # "dead" /\ i \in Unfetched
    /\ faults < MaxFaults /\ faults' = faults + 1
    /\ FetchAgain(i)
    /\ UNCHANGED <<feed, ingested, phase, clocks, fetched, tokens>>

\* A 401; also of an item that was asked for before another's answer renewed
\* the token.
ItemUnauthorised(i) ==
    /\ phase = "fetching" /\ i \in Unfetched
    /\ token = "dead" \/ (token = "renewed" /\ i \notin retrying)
    /\ token' = "renewed"
    /\ FetchAgain(i)
    /\ UNCHANGED <<feed, ingested, phase, clocks, fetched, secret, faults>>

\* The poll is over: what is left of Frequency is the delay of the successor.
Delay == Frequency - elapsed

EndPoll ==
    /\ phase = "fetching" /\ Unfetched = {}
    /\ phase' = "sending"
    /\ wait' = Delay
    /\ secret' = IF secret = "fresh" THEN "live" ELSE secret
    /\ UNCHANGED <<feed, ingested, late, elapsed, message, attempts, work, token, lost,
                   faults>>

\* putToS3AndQueueIngestion of an item.
Send(i) ==
    /\ phase = "sending" /\ i \in fetched
    /\ ingested' = ingested \union {i}
    /\ view' = view \ {i} /\ found' = found \ {i} /\ fetched' = fetched \ {i}
    /\ lost' = [lost EXCEPT ![i] = 0]
    /\ UNCHANGED <<feed, phase, clocks, retrying, tokens, faults>>

\* Mutant: the message itself is made to come back, and keeps its age.
QueueSame ==
    /\ phase = "sending" /\ fetched = {}
    /\ phase' = "queued"
    /\ attempts' = 0
    /\ UNCHANGED <<feed, ingested, wait, late, elapsed, message, work, tokens, lost, faults>>

\* queueNextInvocation: the successor is a new message.
QueueNext ==
    /\ phase = "sending" /\ fetched = {}
    /\ phase' = "queued"
    /\ message' = 0 /\ attempts' = 0
    /\ UNCHANGED <<feed, ingested, wait, late, elapsed, work, tokens, lost, faults>>

\* newSecretValue is stored, if there is one, and the invocation returns.
Return ==
    /\ phase = "queued"
    /\ phase' = "waiting" /\ elapsed' = 0
    /\ secret' = IF token = "renewed" THEN "fresh" ELSE secret
    /\ token' = "dead"
    /\ UNCHANGED <<feed, ingested, wait, late, message, attempts, work, lost, faults>>

\* Storing it fails: the successor is queued already.
ReturnFails ==
    /\ phase = "queued"
    /\ faults < MaxFaults /\ faults' = faults + 1
    /\ phase' = "waiting" /\ elapsed' = 0
    /\ token' = "dead"
    /\ UNCHANGED <<feed, ingested, wait, late, message, attempts, work, secret, lost>>

\* The rest of the visibility timeout, which began with the invocation.
Reappears == Timeout - elapsed

\* A request is rejected, a token refused, an item not put, or the lambda times
\* out: the invocation throws, and its message comes back.
Fail ==
    /\ phase \in {"paging", "fetching", "sending"}
    /\ faults < MaxFaults /\ faults' = faults + 1
    /\ phase' = "waiting"
    /\ wait' = Reappears /\ late' = 0
    /\ Lose(view)
    /\ found' = {} /\ retrying' = {} /\ fetched' = {}
    /\ token' = "dead" /\ secret' = IF secret = "fresh" THEN "live" ELSE secret
    /\ elapsed' = 0
    /\ UNCHANGED <<feed, ingested, message, attempts>>

\* The message is older than the queue keeps any: there is no dead letter
\* queue, and no successor.
Expire ==
    /\ phase = "waiting" /\ message = Retention
    /\ phase' = "stopped"
    /\ UNCHANGED <<feed, ingested, clocks, work, tokens, lost, faults>>

Next ==
    \/ \E i \in Items : Publish(i) \/ FetchItem(i) \/ ItemFails(i) \/ ItemUnauthorised(i)
                        \/ Send(i)
    \/ Tick \/ TokenExpires
    \/ Start \/ Page \/ PageFails \/ PageUnauthorised
    \/ EndPoll \/ QueueNext \/ Return \/ ReturnFails \/ Fail \/ Expire

Spec == Init /\ [][Next]_vars

-----------------------------------------------------------------------------
\* The longest time between the searches of two polls.
Interval == Frequency + Lateness

\* The items that no later poll will see.
Missed == {i \in published \ (ingested \union view) : age[i] > MaxAge}

\* The point of a window of 2.2 intervals: no item is missed by less than two
\* polls, whichever way they lose it, be it a page, the item or the invocation.
TwoChances == phase # "stopped" => \A i \in Missed : lost[i] >= 2

\* A token that runs out costs a poll, but by itself never an item: the next
\* poll has the renewed token, which is stored after the successor is queued.
ExpiryLosesNothing == faults = 0 => Missed = {}

\* The poller stops only after its message has failed time after time for the
\* whole of the retention period, delay included.
StopsLate ==
    phase = "stopped" => (1 + attempts) * Interval >= Retention

-----------------------------------------------------------------------------
(* What makes these inductive. *)

\* An upper bound of the time since the last search.
Since == IF phase \in {"paging", "fetching"} THEN elapsed ELSE Frequency - wait + late

ClocksAgree ==
    /\ \A i \in Items \ published : age[i] = 0
    /\ phase \in {"paging", "fetching"} => late = 0
    /\ phase = "sending" => elapsed = Since
    /\ phase \notin {"fetching", "sending", "queued"} => elapsed = 0

\* What an invocation has in hand at each stage.
WorkAgrees ==
    /\ retrying \intersect fetched = {}
    /\ ~Running => view = {}
    /\ phase \in {"fetching", "sending", "queued"} => found = view
    /\ phase \in {"sending", "queued"} => fetched = view /\ retrying = {}
    /\ phase = "queued" => view = {}
    /\ phase = "paging" => retrying = {} /\ fetched = {}

\* An item no poll has lost was published since the last search, or is in hand;
\* one that one poll has lost, since the search before.
LossesAgree ==
    \A i \in published \ ingested :
        /\ lost[i] = 0 /\ i \notin view => age[i] <= Since
        /\ lost[i] = 0 /\ i \in view => age[i] <= Since + Interval
        /\ lost[i] = 1 /\ i \notin view => age[i] <= Since + Interval

\* A message is no older than its attempts make it.
MessageAgrees == message <= attempts * Interval + Since

\* Without faults only a dead token loses anything, and the poll that found it
\* dead leaves a live one to the next.
ExpiryAgrees ==
    faults = 0 =>
        /\ retrying # {} => token = "renewed"
        /\ phase \in {"paging", "fetching"} /\ secret = "fresh" => token # "dead"
        /\ \A i \in Items : lost[i] <= 1
        /\ \A i \in published \ ingested : lost[i] = 1 =>
              \/ phase \in {"paging", "fetching"} /\ i \in view /\ secret = "fresh"
              \/ phase \in {"fetching", "sending", "queued"} /\ i \notin view /\ token = "renewed"
              \/ phase = "sending" /\ i \in view
              \/ ~Running /\ secret = "fresh"

NoneLostIngested == \A i \in Items : i \in ingested \/ i \notin published => lost[i] = 0

IInv == /\ TypeOK /\ ClocksAgree /\ WorkAgrees /\ LossesAgree
        /\ MessageAgrees /\ ExpiryAgrees /\ NoneLostIngested
=============================================================================
