# Newswires: a TLA+ model of the wire pipeline and its feed

Newswires takes agency copy into a database and shows it to journalists as a
feed that updates itself. This directory holds TLA+ models of its moving parts,
TLC configurations that check them on small instances, and TLAPS proofs of the
properties that matter most. Source paths are relative to the repository root.

## The system

### Components, their state and their operations

| Component | Source | State | Operations |
|---|---|---|---|
| Fingerpost and source queues | `cdk/lib/wires-feeds.ts`, event sources in `cdk/lib/newswires.ts` | messages visible, in flight, deleted, dead-lettered; receive counts | send, receive a batch, answer with partial failures, visibility timeout, redrive after `maxReceiveCount` |
| fingerpost-queueing-lambda | `fingerpost-queueing-lambda/src/handler.ts`, `shared/src/putToS3AndQueueIngestion.ts` | none; writes the feeds bucket | archive a body under its external id and queue its ingestion; quarantine a message without an id |
| ingestion-lambda, feed records | `ingestion-lambda/src/handler.ts`, `db.ts`, `processContentObject.ts` | none; writes `fingerpost_wire_entry` | read the archived body, parse, drop heartbeats, insert unless the id is there |
| content processing | `ingestion-lambda/src/processContentObject.ts`, `categoryCodes.ts`, `suppliers.ts`, `shared/src/precomputeCategories.ts` | none; the columns of a row | name the supplier and the source feed, rewrite category codes, compute categories |
| ingestion-lambda, email records | the same handler, `shared/src/findVerificationFailures.ts`, `processEmailContent.ts` | none; writes the same table | verify the verdicts, look for an ARC seal, read, parse, insert |
| poller wrapper | `poller-lambdas/src/index.ts`, `cdk/lib/constructs/pollerLambda.ts` | one message on the poller's own queue, holding a cursor | poll, send items, queue the next invocation, store a secret |
| AP poller | `poller-lambdas/src/pollers/ap/apPoller.ts` | the URL of the next page | long poll a page |
| Reuters poller | `poller-lambdas/src/pollers/reuters/reutersPoller.ts` | a time window, an access token | page through a window, fetch items, re-authenticate |
| recomputation-lambda | `recomputation-lambda/src` | offsets of one run | count, select a batch, update it |
| cleanup-lambda | `cleanup-lambda/src/handler.ts` | none | delete rows older than 14 days |
| email-filter-lambda | `email-filter-lambda/src/handler.ts` | none | log verdicts |
| server: search | `newswires/app/db/FingerpostWireEntry.scala`, `QueryController.scala` | the database | a page of wires above or below a cursor, and a capped count |
| server: tool links, collections | `ToolLink.scala`, `Collection.scala` and controllers | `tool_link`, `wire_entry_collection` | insert links, add and remove wires, list |
| server: filters and presets | `app/conf/SearchPresets.scala`, `Categories.scala`, `models/SearchParams.scala` and `FingerpostWireEntry.scala` | none | build the WHERE clause of a search and its preset |
| server: auth, management | `newswires/app/controllers` | none | stateless |
| client: search state | `newswires/client/src/context/SearchContext.tsx`, `SearchReducer.ts` | search, open item, results, total, status, auto-update, loading-more; requests in flight | search, refresh, retry, poll, load more, select, next, previous |
| client: item view and tools | `ItemData.tsx`, `ToolsConnection.tsx`, `send-to-composer.ts`, `AddToCollectionButton.tsx` | the open item and its links | fetch, poll links, send to Composer or InCopy, toggle a collection |
| client: the rest | `newswires/client/src` | URL, settings, telemetry, session | presentation and conversions |
| infrastructure | `cdk` | retries, concurrency, timeouts, alarms | |

### Interactions

    Fingerpost --SNS--> fingerpost queue --> queueing lambda --S3, SQS--+
    AP, Reuters --> poller lambda <--> its own queue      --S3, SQS--+
                                                                        v
    SES --S3, async invocation--------------> ingestion lambda <-- source queue
                                                      |
             recomputation, cleanup  ---->  fingerpost_wire_entry
                                                      ^
                 browser client  <---->  server (Play, JDBC)

### What is hard

Queues deliver at least once and lambdas die between two steps, so that every
handler is a sequence of effects that may be cut and repeated. Two copies of an
external id share one S3 key. The pollers keep themselves alive through a
message, so a failure may stop or fork them. The client applies answers in the
order they arrive, not the order it asked; React runs the clean-up that aborts
requests after the dispatch that made them stale; cursors are inclusive
timestamps that are not the times of insertion. Batches of a recomputation page
by offset through a set that the same run, the ingestion and the cleanup
change. The Reuters poller keeps no position, only a window over time. The open
item is fetched and polled by requests that are never aborted. Rows written
before a column existed hold null in it, and a condition on null drops the row
from both a preset and its negation. `PROJECT.json` lists each hazard at its line with the properties that
watch it.

### What makes each component correct

* Queues and lambdas: nothing published is lost; what is acknowledged is
  stored; one unchanging row per id; a bounded number of faults is tolerated;
  every message comes to an outcome.
* Pollers: no item is passed over, but by an answer that says nothing of the
  next page; the chain goes on while faults and one attempt more are fewer than
  a message's attempts; chains are bounded by faults; items are ingested.
* Email: only trusted mail, one row each, none dropped silently.
* Search: what is listed is what the search selects, in order, without holes or
  duplicates; what is older can be loaded; what is newer comes into view.
* Recomputation: no row twice, and rows are missed only by deletions.
* Reuters: an item is missed only if two polls lost it; the poller stops only
  after a retention period of failures.
* Tool links, collections, item view: a link for every page sent; the toggle
  shows what is stored; the item shown is the item open; links and buttons come
  to rest.
* Presets: the tabs divide the wires as their names say, no exclusion loses a
  wire by a column that is not filled in, and e-mailed copy is kept apart.

## The modules

| Module | Models | Checked with |
|---|---|---|
| `EventSourceQueue` | an SQS queue, its redrive policy and the Lambda event source that polls it | instantiated twice by `FeedIngestion` |
| `FeedIngestion` | two queues, two lambdas, S3 and the database, composed | `MCFeedIngestion` |
| `WireDelivery` | the abstract contract: a message comes to one outcome for good | refined by `FeedIngestion` |
| `FeedIngestion_proofs` | | TLAPS |
| `PollerChain` | a poller's invocations, its queue and the agency's feed | itself |
| `PollerChain_proofs` | | TLAPS |
| `ReutersPoller` | the Reuters poller's polls over time, its token and the age of its message | itself |
| `ReutersPoller_proofs` | | TLAPS |
| `EmailIngestion` | an asynchronous invocation per mail | `MCEmailIngestion` |
| `EmailIngestion_proofs` | | TLAPS |
| `FeedPaging` | the server's answer to a search | used by `SearchClient` |
| `SearchClient` | the client's search state against a growing database | `MCSearchClient` |
| `SearchClient_proofs` | | TLAPS |
| `Recomputation` | one run, with inserts and the cleanup | itself |
| `Recomputation_proofs` | | TLAPS |
| `ItemView` | the open item, its requests, tool links, the Tasted collection and Composer | itself |
| `ItemView_proofs` | | TLAPS |
| `WireContent` | what the ingestion lambda makes of one wire | used by `WirePresets` |
| `WirePresets` | every preset as the filters it stands for | used by `WireFilters` |
| `WireFilters` | the WHERE clause of a search, on a row with nulls | `MCWireFilters` |
| `WireFilters_proofs` | | TLAPS |

Each definition's place in the source is in the `map` of `PROJECT.json`. In each
module a few operators are marked as mutants: variants of a definition with a
plausible bug. Nothing uses them; substituted for their originals they show
that each property can fail.

### FeedIngestion

`fpState`, `fpReceives` and `fpInvocations` are the fingerpost queue,
`inState`, ... the source queue; both are instances of `EventSourceQueue`. A
lambda invocation is the set of records it received; `fpStage` and `inStage` say
how far its handler is with each record, since the handlers run the records of a
batch concurrently (`Promise.all`). Each call that may fail is an action and a
failing action: `Archive` and `ArchiveFails`, `Enqueue` and `EnqueueFails`, and
so on; `EnqueueFails` also covers a send that arrives and whose answer is lost.
`FpRespond` and `InRespond` return the failed records; `FpCrash` and `InCrash`
are time-outs, crashes and thrown errors, after which the records come back by
the visibility timeout. A body is the message that published it, so that an
overwritten S3 object is visible in the row. SQS's own duplicate deliveries are
left out: a message is received again only after a timeout or failure. Bodies
are of three kinds, stories, heartbeats and bodies that do not parse;
heartbeats are assumed not to share a story's id.

### PollerChain

A slot is an SQS message of the poller's queue together with the invocation
that holds it. `Start`, `Poll`, `Send`, `QueueNext`, `Return` are the steps of
`pollerWrapper`; `Fail` ends it anywhere; `Throttle` spends a receive without a
run; `Reappear` and `Expire` are the visibility timeout and the five minutes of
retention; `KickOff` is the operator who starts the poller, or
restarts it, by hand. `KeepsGoing` is therefore about steps: none ends the chain
while `faults + 1 < MaxAttempts`, as one attempt may be spent on being throttled.

AP's cursor is the URL of the next page. When an answer has none
(`apPoller.ts:50`) the next poll asks for the URL without a position, here
`Default`, which is taken to answer with the newest page; `skipped` is what such
a poll leaves behind, and `MaxOmissions` bounds such answers. Nothing else adds
to `skipped`, so that `NothingSkipped` still says that no failure does.

### ReutersPoller

Time advances by `Tick`; an item has an age, and the poller's message one as
well. `Start` reads the secret and searches for the items of the last `MaxAge`;
`Page`, `PageFails` and `PageUnauthorised` page through the answer, and
`FetchItem`, `FetchAgain`, `ItemFails` and `ItemUnauthorised` fetch each item,
once more if its answer does not parse. After a 401 the search is repeated
without its query (`reutersPoller.ts:231` passes the function itself), and
finds nothing. `EndPoll` computes the delay, which is what is left of the
frequency; `Return` stores a renewed token after the successor is queued. `lost`
counts the polls that saw an item and did not hand it on. Chains that fork are
`PollerChain`'s subject. In the code the frequency is 60 s, the window 2.2
times that, the visibility timeout 60 s and the retention 300 s. An
`idealFrequency` over five minutes, which `pollerLambda.ts:61` allows, would
outlive the retention by its delay alone: no poller has one, and
`ReutersAssumption` excludes it.

### ItemView

`pages`, `links` and `tasted` are Composer's pages, the `tool_link` table and the
collection; `open` is the selected item and `shown` the one that was fetched
last. A request remembers its wire, whether it is answered and who hears the
answer: the button that sent it, or only the panel, once the button has left the
page. `Serve...` are the servers, `Hear...` the callbacks, `Fail` a request that
fails with or without its effect. The tools are keyed by the item and lose their
state with it, the collection's button is not; a toggle's refresh is of the item
that was open at the click. `OtherSends` and `OtherToggles` are another journalist,
who sends a wire or adds it to the one Tasted collection or takes it out, at any
time (`MaxOthers` bounds them). The polls bring links only, so a page does not
see the latter; `overtaken` records the wires of which that is so, until the
server answers a fetch of one, and `TastedAsStored` leaves them out. `hasty`
records that the user opened or toggled while an answer was awaited. A refetch on a
changed search text, the re-authentication on a 419 and the unused "already
set" conflict (`QueryController.scala:180`: the insert is a plain one) are left
out.

### WireContent, WirePresets and WireFilters

`WireContent` follows `processFingerpostJsonContent`: the supplier of a source
feed, the remapped source feed, the rewriting of category codes agency by
agency and the categories computed from them. A category code is a pair, and of
the tables of codes those are kept that a preset names, or one for a table that
none picks from. `WirePresets` lists every preset with its filters, and the
negation that "Sport other" carries. `WireFilters` builds the clause
as `buildWhereClause` does and evaluates it in SQL's three-valued logic on the
row of a wire that was stored by this release (`Ingest`), by an older one
(`IngestBefore`) or as mail (`IngestEmail`), and whose columns are filled in by
a migration and by the recomputation. A clause looks at one row, so there is
one. A request has the presets that its URL names and the one that is used, the
first of them, if it is known. Searching for an event, a collection or dates, stemming, highlighting and
rows without a supplier are left out.

### EmailIngestion

A mail is its set of failed verdicts and whether an ARC seal vouches for it.
`Throw` covers thrown errors and time-outs, which Lambda repeats; `FailSoftly`
the failures that are returned, which it does not.

### FeedPaging and SearchClient

`Replies` is the set of answers to a query: rows are joined with tool links and
collections, and `Rows` is how many joined rows a set of items has, at least one
more for each item more; pages go upwards from `afterTimeStamp`, otherwise
downwards, both ends inclusive; equal timestamps come in any order. `Rows` and
the items a search selects are constants. `SearchClient` separates
the dispatch of an action from the effect that React runs after it
(`effectDue`, `RunEffect`): answers may arrive in between, since searches are
entered from a debounced timer and answers from promises. A request is served
by the server at one step and applied at another. The reducer's cases are
`Fetched`, `Updated`, `UpdateIgnored`, `Appended`, `NextAppended`, `Failed`,
`EnterQuery`, `Retry` and `ToggleAutoUpdate`. A run is `calm` or not: in a
calm one items arrive in the order of `ingested_at`, no request fails and the
user waits for each answer; it begins with the older items, among which every
search finds one (`CalmAssumption`). The properties that need these premises
name `calm`; the others hold in every run. The start date that trims old
results, sorting by the time of collection, browser history (a search and a
deselection cover what it does) and telemetry are left out.

### Recomputation

`last_updated_at` is one of four stamps, and a filter is the set of stamps it
passes, which covers no filter, `lastUpdatedSince`, `lastUpdatedUntil` and
`lastUpdatedAtIsEmpty` either way. The cleanup may delete any rows at any time.

## What is checked

| Run | Question | Bounds |
|---|---|---|
| `feed_shared` | Is anything lost, doubled or mixed up when two stories share an id and calls fail? | two stories under one id and a heartbeat, 1 fault, 2 receives, batches of 2, 2 ingestion invocations |
| `feed_outcomes` | Does the pipeline implement the contract, and does every message come to an outcome? | a story and an unparseable body under one id and a message without an id, 1 fault, batches of 1, 2 ingestion invocations |
| `poller_chain` | Does a poller skip, stall or fork, and does it ingest everything? | 3 items of which one is unusable, pages of 2, 1 fault, 1 answer without a next page, 3 attempts, 2 concurrent invocations, 3 messages at a time |
| `poller_one_at_a_time` | Finding: two chains | pages of 1, 1 fault |
| `reuters` | What does the Reuters poller miss, and when does it stop? | 2 items, a frequency of 4, a window of 10, a retention of 12 units of time, 1 unit of lateness, pages of 1, 2 faults |
| `email` | Is untrusted mail kept out, and no mail dropped silently? | 3 mails, 4 faults, 3 attempts |
| `email_retry` | Finding: a failed mail is not retried | as above |
| `search` | Is the list right while polls overlap pages and searches, and does every new item come into view? Which of it survives impatience, lost answers and late rows? | 5 items of which two have one timestamp and one has two joined rows, pages of 3 rows, a count capped at 4, 2 requests in flight, 3 acts, 1 failure |
| `recomputation` | Are rows updated twice or missed? | 4 rows and an insert, batches of 2, 2 deletions, five filters |
| `recomputation_empty` | Finding: half of the rows are skipped | 4 rows, batches of 2 |
| `item_view` | Do pages, links, the collection and what is shown agree, and come to rest? | 2 wires, 2 pages, 2 requests in flight, 4 acts, 1 act of another user, 1 failure |
| `filters` | Do the tabs divide the wires, and does an exclusion lose any? | one wire of about a thousand kinds, every preset, 60 further searches |

The bounds are the smallest at which the interesting cases occur. Two messages
under one id race on one S3 object. One fault leaves each message a second and
last receive, so that `FaultTolerance` is at its limit, and a body that never
parses exhausts its receives without a fault, which takes a message to the dead
letter queue; the proofs then cover any number of faults, messages and
receives. One fault forks a poller's chain once; three messages are room for
two chains and a successor, and a second successor waits for room. A page of two
of three items can fail half sent, and needs a second poll; it is also all that
an answer without a next page leaves of the feed. Reuters' units of time keep
the order of the code's periods and not their ratios (a window of 2.5
frequencies where the code has 2.2, a retention of 3 where it has 5), the
smallest numbers with two polls in a window even when each is late; two faults
lose an item in both, and three intervals outlast the retention. The theorems
hold for the code's values too. In `search`, a calm run begins with two items
and three arrive, so that a page of three rows does not show all: there are
pages to load, two items at one time on either side of a cursor, an item whose
rows count twice and a total at its cap; two requests can cross. Two wires are
one that is open and one that was; four acts open an item, send it, open the
other and return, and another user acts at any point of it. In `filters`
the wires of each agency take every choice of the codes and words that its
presets tell apart. In `feed_shared` the two stories are symmetric. Faults, acts,
failures and deletions are bounded by counters, which appear only in the guards
of what they count.

Where a run says `CHECK_DEADLOCK FALSE` the system may really stop: a user may
turn updates off and go away, a run ends, all mail is dealt with, the Reuters
poller's message expires, a wire is stored and complete.

The type invariants of the modules with proofs are proved, and not run besides;
only `SearchClient.TypeOK`, which says that no status polls without results, is
run as well.

### Findings

Each is a run whose property the code violates.

1. `poller_one_at_a_time`: an invocation that fails after it queued its
   successor is repeated beside it, and both chains live on.
2. `email_retry`: a mail whose read or insertion fails is reported as a batch
   item failure, which asynchronous invocations ignore.
3. `recomputation_empty`: filtering on rows never updated skips half of them.

Known from the model and the code, without a run of their own:

* The late answer to an earlier search is listed under the later one:
  `FETCH_SUCCESS` does not compare the search it answers
  (`SearchContext.tsx:279`, `SearchReducer.ts:158`). This is why
  `ResultsMatchQuery` is about calm runs.
* With two polls in flight of which one fails, the same reaches even a user who
  waits: the failure turns `loading` into `error` before the clean-up aborts the
  other poll, whose success then lists the old results, and the new search is
  never sent.
* `ingested_at` is the time of the S3 object (`ingestion-lambda/src/db.ts:28`);
  a row that is inserted after a newer one was polled never comes into view
  (`SearchContext.tsx:300`), hence the order in calm runs.
* "Next story" on the last loaded item selects it again, since the page below
  it starts with it (`SearchContext.tsx:520`, and the inclusive cursor in
  `FingerpostWireEntry.scala:374`).
* One failed page leaves "Load more" loading for good: only `APPEND_RESULTS`
  resets `loadingMore` (`SearchReducer.ts:168`, `207`).
* An item whose joined rows fill the page stops the feed
  (`FingerpostWireEntry.scala:642`).
* "Load more" is offered while the list is shorter than the total, and the
  cursors are inclusive. With pages of two and items at times 1, 2, 2: the list
  is the two at 2 and the total 3. If a fourth item arrives at 2 before "Load
  more", the answer may bring it; three are listed of a total of 3, and the item
  at 1 is out of reach. This needs one timestamp to fill a page. Once 501 rows
  are listed, all that are ever counted, "Load more" goes as well. Hence
  `OlderReachable` is about lists no longer than `COUNT_QUERY_CAP` in which no
  timestamp fills a page (`Crowded`); ties below that are allowed.
* A wire of PA whose one sports-like code is `data:finance` is a business wire
  (`BusinessPA`) and not under "Sport"; `SentAsSport` leaves out the codes that
  name another section. A wire of AFP that came with our own
  `guCat:PressRelease` would be in no tab.
* The limit of a recomputation is rounded up to whole batches
  (`recomputation-lambda/src/handler.ts:5`, against line 27 of its README).
* Opening a second item before the first is there can show the first under the
  second's address (`ItemData.tsx:35`); `ShownIsOpen` is about a user who waits.
* A page that is made in Composer and whose link is not stored is made again by
  the next click (`send-to-composer.ts:100`, `113`): no constraint keeps the two
  apart. `OrphansAreFailures` bounds them by the failures.
* Links that arrive after the Composer button mounted do not change it: a wire
  that another user has sent is offered for sending again until it is reopened
  (`ToolsConnection.tsx`). Nor does the Tasted button show that another user has
  added the item or taken it out, until it is fetched again: the polls bring
  links only (`ItemData.tsx:65`). The cleanup deletes wires and leaves their tool links,
  which have no foreign key; collections cascade.
* "Sport other" leaves out every named sport but forgets the scores of
  basketball (`SearchPresets.scala:1010`): they are under both tabs.
* The Olympics, and American football, basketball and hockey codes that presets
  name are not all in `AllSports`: a wire with one of those alone is under its
  sport's tab and not under "Sport". Rugby union's scores by OPTA are under no
  tab of scores.
* `computeSupplierExcl` compares "GuReuters" and "GuAP" with the client's names,
  which are in upper case, so that with the switch off a search for just that
  supplier finds nothing.
* `computeSupplierExcl` looks for "dot-copy" in every `preset` of a URL
  (`SearchParams.scala:75`), while the first is the one used
  (`QueryController.scala:78`): a URL with two, which the client never makes,
  would search e-mailed copy as well. `DotCopyIsApart` is about searches that do
  not name it.
* Computing the categories of a row from before V13, whose codes are null,
  throws. V27 fills in the source feed as it was sent, without the remapping
  that newer rows get.

### Fairness

* `FeedIngestion`: the two lambdas and their queues make progress (weak
  fairness of each stage): event sources poll for ever, invocations end by
  their timeout, and visibility timeouts expire.
* `PollerChain`: a running invocation goes on or times out, a failed message
  reappears, and a message that is again and again receivable is at some point
  received (strong fairness, as throttling disables it in between).
* `SearchClient`, in calm runs: React runs effects, the interval fires, and each
  request is answered and applied. Nothing obliges a user to act, an item to
  arrive or a request to fail.
* `ItemView`: servers answer each kind of request for each item, the browser
  runs the callbacks, and the interval that polls links fires. Nothing obliges
  a user to act or a request to fail.

## What is proved

TLAPS checks these for every value of the constants that satisfies the named
assumptions. Every invariant and action property that a run checks is stated by
one of these theorems.

* `FeedIngestion_proofs` (from `MessagesAssumption`, `BoundsAssumption`,
  `HeartbeatAssumption`): `TypeCorrect`, `NothingLost`, `AcknowledgedIsStored`,
  `RowsUnique`, `RowsSound`, `ArchivedFirst`, `FaultsTolerated`,
  `RowsNeverChange`. None of the properties is inductive: that an acknowledged
  copy has a row needs to know what the handler has read and inserted by each
  stage. `IInv` adds that a record is held by one invocation at most
  (`HeldOnce`), that stages and queues agree (`StagesMatchQueues`), that copies
  come from past deliveries (`CopiesAreOfPast`), what S3 holds
  (`ArchiveSound`), what each stage of either handler has established
  (`QueueingSound`, `IngestionSound`), and that unsuccessful receives are paid
  for by faults (`Budget`). Each part is kept by every action, in a lemma of
  its own. `Refinement` is that the pipeline implements the safety part of
  `WireDelivery`: each step publishes a message, settles one for good, or
  leaves the contract's state alone (`Untouched` names those that do).
* `PollerChain_proofs` (from `ChainAssumption`): `PollerTypes`,
  `PollerSkipsNothing`, `PollerChainsBounded`, `PollerKeepsGoing`, with any number
  of answers that have no next page. The invariant
  adds that the page of an invocation that is sending is accounted for item by
  item, and that every message on the queue has attempts left. For
  `KeepsGoing`, `GoingInv` adds `ChainHolds`: some message has spent no more
  attempts than there were faults and one more, on which it was throttled, or two
  more while its invocation, or one it waits for, is still to succeed or fail; a
  queued successor has spent none but such a one (`SuccessorFresh`).
* `EmailIngestion_proofs` (from `EmailAssumption`): `EmailTypes`,
  `OnlyTrustedMail`, `OneRowForEachMail`, `NoMailDroppedSilently`, from an
  invariant that says which stages only checked mail reaches and what a return
  has recorded.
* `ReutersPoller_proofs` (from `ReutersAssumption`: the window is two intervals
  at least, the timeout one at most, and a delay does not outlast the
  retention): `ReutersTypes`, `ReutersTwoChances`, `ReutersExpiryLosesNothing`,
  `ReutersStopsLate`. The invariant relates clocks: an item no poll has lost was
  published since the last search or is in hand, one that a poll has lost since
  the search before (`LossesAgree`); a message is no older than its attempts
  make it (`MessageAgrees`); and the poll that finds a token dead leaves a live
  one to the next (`ExpiryAgrees`).
* `ItemView_proofs` (from `ItemViewAssumption`): `ItemViewTypes`,
  `ItemViewSentMeansStored`, `ItemViewLinkedPages`, `ItemViewShownIsOpen`,
  `ItemViewTastedAsStored`, `ItemViewOrphans`, whatever other users send and
  taste. The invariant says what each request in flight
  carries (`RequestsAgree`), that nothing is shown or heard with no item open
  (`NothingOpen`), and that a user who waits has one answer outstanding, of the
  item open (`OneAwaited`), and that an answered fetch carries what the
  collection has, unless another user has changed it since. That pages without a link are paid for by failures
  rests on `Unmade`: a creation that was not answered carries no page yet, so
  that a step adds one orphan at most, and only if a request fails.
* `Recomputation_proofs` (from `RecomputationAssumption`): `TypeCorrect`,
  `NoneRecomputedTwice`, `MissesBounded`. A run under a filter that its own
  updates pass reads one list by offset, to which rows are added at the end and
  from which the cleanup takes some away. `PagedSound` says that rows seen have a
  rank below the offset reached, and that no more rows below it are unseen
  (`Skipped`) than were deleted, as a deletion moves one row at most across it.
* `SearchClient_proofs` (from `PagingAssumption`, `ClientAssumption` and
  `CalmAssumption`): `SearchTypes` and `SearchNoDuplicates` in every run;
  `SearchResultsMatchQuery`, `SearchNewestFirst` and `SearchNoHoles` and
  `SearchOlderReachable` in calm ones. The
  invariant of calm runs says that the list is an interval of what the search
  selects (`ListFits`), that an answer in flight continues it at the end it was
  asked for, that what is yet to arrive is newer than all that is stored, and
  that polls and pages are of the search on display. `Counted` adds that the
  total is at least the list and what lies below it, unless it is capped, the
  list reaches the oldest item, or one timestamp fills a page of it
  (`Accounts`). It also says that the list, but for the last two cases, has two
  timestamps: what arrives is then not below it, and a page from its end cannot
  consist of one timestamp alone.
* `WireFilters_proofs` (from `WireFiltersAssumption`, `RequestsAssumption`), for
  any wires and searches: `WireFiltersTypes`, `WireFiltersBackfills`,
  `WireFiltersOtherApart`, `WireFiltersSportCovered`, `WireFiltersDotCopy`,
  `WireFiltersSportReached`, `WireFiltersScoresDivide`, and `WireFiltersEveryTab`
  for messages without categories of ours (`GuCategoriesAreOurs`). They rest on
  lemmas about the three-valued connectives: a clause that is true of a row with
  nulls is true of the row once they are filled in, and the negation of a
  disjunction of presets is true only where each of them is false. The last
  three follow a wire from the message to its row (`RowOfSent`): the columns of a
  row that is filled in are those that the ingestion computes, agency by agency.

Only model-checked, as liveness is out of the prover's reach:
`EventuallySettled`, `EventuallyIngested`, `FeedFollows`, `LinksConverge` and
`SendSettles`. The runs that expect a violation check three claims of the
code's comments and documents, which have no proof.

## Not modelled

* The tables of codes, labels and countries, and the generated types of the AP
  API, are some fifteen thousand lines of constant data, about half of the
  repository: a definition stands for the few of their entries that a preset
  tells apart, and no property depends on the others.
* Authentication, URL conversion, telemetry, settings, rendering, alarms,
  networks and scripts are stateless or change nothing the properties are about.
  The browser's history enters searches and closes items, which the user's acts
  in `SearchClient` do as well.
* Within modelled parts: the start date that trims old results, sorting by the
  time of collection and the batch of tool links for the list; collections other
  than Tasted; the text of a wire, its markup and how places are found in it;
  HTTP retries of the AP poller. In `Recomputation` rows are committed in the
  order of their ids: a row with a lower id that is committed late shifts the
  offsets, and the run may update a row twice.

## Plan

1. The start date and the order of a collection in `SearchClient`.
2. The URL as the composition of `SearchClient` with `WireFilters`: a shared
   link finds what its sender saw.
3. The AP poller's HTTP retries, as `ReutersPoller` has them for Reuters.
4. Commits out of the order of ids in `Recomputation`.
