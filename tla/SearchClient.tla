---------------------------- MODULE SearchClient ----------------------------
(***************************************************************************)
(* The search state of the browser client (SearchContext.tsx and           *)
(* SearchReducer.ts) against a database that grows: the user enters        *)
(* searches, loads more and steps through items while fetches and polls    *)
(* are in flight, and every answer is applied when it arrives.             *)
(***************************************************************************)
EXTENDS FeedPaging

CONSTANTS
    NoData,        \* queryData is undefined
    NoItem,        \* no item is open (the feed view)
    NoReply,       \* the server has not answered yet
    Initially,     \* the items stored when the page is loaded, in a calm and in any other run
    MaxRequests,   \* bound: requests in flight at once
    MaxActs,       \* bound: what the user does
    MaxFailures    \* bound: requests that fail

ASSUME ClientAssumption ==
    /\ Initially \in [BOOLEAN -> SUBSET Items]
    /\ NoData \notin Seq(Items) /\ NoItem \notin Items
    /\ MaxRequests \in Nat /\ MaxActs \in Nat /\ MaxFailures \in Nat

\* A calm run begins with the older items, and every search finds one of them.
ASSUME CalmAssumption ==
    /\ \A i \in Initially[TRUE], j \in Items \ Initially[TRUE] : Time[i] <= Time[j]
    /\ \A q \in Queries : Initially[TRUE] \intersect Matches[q] # {}

VARIABLES
    calm,          \* premise: items enter the database in the order of ingested_at,
                   \* no request fails, and the user waits for an answer before
                   \* acting again
    stored,        \* the items in the database
    query,         \* currentConfig.query
    open,          \* currentConfig.itemId
    status,        \* state.status
    results,       \* state.queryData.results
    total,         \* state.queryData.totalCount
    autoUpdate,    \* state.autoUpdate
    loadingMore,   \* state.loadingMore
    effectDue,     \* React has yet to run the effect for the last render
    requests,      \* the fetches in flight
    acts, failures

state == <<status, results, total, autoUpdate, loadingMore>>
config == <<query, open>>
vars == <<calm, stored, config, state, effectDue, requests, acts, failures>>

\* fetch: the effect's first fetch; poll: its refresh; more: loadMoreResults;
\* next: loadMoreResults on behalf of handleNextItem.
Kinds == {"fetch", "poll", "more", "next"}
Settled == status \in {"success", "offline"}
Shown == IF results = NoData THEN <<>> ELSE results
ShownItems == ToSet(Shown)

\* The search state and the requests are well typed; and as the State union of
\* SearchReducer promises to the effect, which reads queryData.results whenever
\* it polls: no order of failures and late answers leaves a status that polls
\* without results.
TypeOK ==
    /\ calm \in BOOLEAN
    /\ stored \subseteq Items
    /\ query \in Queries
    /\ open \in Items \union {NoItem}
    /\ status \in {"loading", "success", "error", "offline"}
    /\ results = NoData \/ results \in Seq(Items)
    /\ Settled => results # NoData
    /\ total \in Nat
    /\ autoUpdate \in BOOLEAN /\ loadingMore \in BOOLEAN /\ effectDue \in BOOLEAN
    /\ \A r \in requests : r.id \in 1..MaxRequests /\ r.kind \in Kinds /\ r.query \in Queries
    /\ acts \in 0..MaxActs /\ failures \in 0..MaxFailures

\* The page has just been loaded, with a search from its URL.
Init ==
    /\ calm \in BOOLEAN
    /\ stored = Initially[calm]
    /\ query \in Queries
    /\ open = NoItem
    /\ status = "loading"
    /\ results = NoData
    /\ total = 0
    /\ autoUpdate = TRUE
    /\ loadingMore = FALSE
    /\ effectDue = TRUE
    /\ requests = {}
    /\ acts = 0 /\ failures = 0

-----------------------------------------------------------------------------
(* Requests.                                                               *)

FreeIds == (1..MaxRequests) \ {r.id : r \in requests}

\* fetchResults: one more request on its way, in addition to those in rs.
Sent(rs, kind, after, before) ==
    rs \union {[id |-> Min(FreeIds), kind |-> kind, query |-> query,
                after |-> after, before |-> before, reply |-> NoReply]}

\* getLatestTimeStamp and getEarliestTimeStamp of the results.
Latest == IF Shown = <<>> THEN NoCursor ELSE Max({Time[i] : i \in ShownItems})
Earliest == IF Shown = <<>> THEN NoCursor ELSE Min({Time[i] : i \in ShownItems})

\* The ingestion lambda inserts an item.
Insert(i) ==
    /\ i \notin stored
    /\ calm => \A j \in Items \ stored : Time[i] <= Time[j]
    /\ stored' = stored \union {i}
    /\ UNCHANGED <<calm, config, state, effectDue, requests, acts, failures>>

\* The server answers from what is stored by now.
Serve(r) ==
    /\ r.reply = NoReply
    /\ \E reply \in Replies(stored, r.query, r.after, r.before) :
          requests' = (requests \ {r}) \union {[r EXCEPT !.reply = reply]}
    /\ UNCHANGED <<calm, stored, config, state, effectDue, acts, failures>>

-----------------------------------------------------------------------------
(* The effect that fetches and polls.                                      *)

\* Mutant of RunEffect: its cleanup aborts nothing.
RunEffectKeepsPolls ==
    /\ effectDue
    /\ effectDue' = FALSE
    /\ IF status = "loading"
       THEN FreeIds # {} /\ requests' = Sent(requests, "fetch", NoCursor, NoCursor)
       ELSE requests' = requests
    /\ UNCHANGED <<calm, stored, config, state, acts, failures>>

\* Its cleanup aborts the polls, not the first fetch; then it runs anew.
RunEffect ==
    /\ effectDue
    /\ effectDue' = FALSE
    /\ LET kept == {r \in requests : r.kind # "poll"}
       IN  IF status = "loading"
           THEN FreeIds # {} /\ requests' = Sent(kept, "fetch", NoCursor, NoCursor)
           ELSE requests' = kept
    /\ UNCHANGED <<calm, stored, config, state, acts, failures>>

\* Mutant of Poll: from the oldest item shown.
PollFromEarliest ==
    /\ ~effectDue
    /\ Settled
    /\ autoUpdate
    /\ FreeIds # {}
    /\ requests' = Sent(requests, "poll", Earliest, NoCursor)
    /\ UNCHANGED <<calm, stored, config, state, effectDue, acts, failures>>

\* The interval it installed fires.
Poll ==
    /\ ~effectDue
    /\ Settled
    /\ autoUpdate
    /\ FreeIds # {}
    /\ requests' = Sent(requests, "poll", Latest, NoCursor)
    /\ UNCHANGED <<calm, stored, config, state, effectDue, acts, failures>>

-----------------------------------------------------------------------------
(* Answers.                                                                *)

Answer(r) ==
    /\ r.reply # NoReply
    /\ requests' = requests \ {r}
    /\ UNCHANGED <<calm, stored, autoUpdate, acts, failures>>

\* What a sequence has at some of its positions, in its order.
AtPositions(s, J) ==
    [n \in 1..Cardinality(J) |->
        s[CHOOSE j \in J : Cardinality({k \in J : k <= j}) = n]]

\* Mutant of NewItems: nothing is taken for known.
EveryItem(r) == r.reply.items

NewItems(r) ==
    AtPositions(r.reply.items,
                {j \in DOMAIN r.reply.items : r.reply.items[j] \notin ShownItems})

\* FETCH_SUCCESS
Fetched(r) ==
    /\ r.kind = "fetch"
    /\ Answer(r)
    /\ status' = "success"
    /\ results' = r.reply.items
    /\ total' = r.reply.total
    /\ effectDue' = TRUE
    /\ UNCHANGED <<config, loadingMore>>

\* Mutants of Updated: what is new goes below; and is not counted.
UpdatedBelow(r) ==
    /\ r.kind = "poll"
    /\ Answer(r)
    /\ status \in {"success", "offline", "error"}
    /\ status' = "success"
    /\ results' = Shown \o NewItems(r)
    /\ total' = IF results = NoData THEN r.reply.total ELSE total + Len(NewItems(r))
    /\ effectDue' = TRUE
    /\ UNCHANGED <<config, loadingMore>>
UpdatedUncounted(r) ==
    /\ r.kind = "poll"
    /\ Answer(r)
    /\ status \in {"success", "offline", "error"}
    /\ status' = "success"
    /\ results' = NewItems(r) \o Shown
    /\ total' = IF results = NoData THEN r.reply.total ELSE total
    /\ effectDue' = TRUE
    /\ UNCHANGED <<config, loadingMore>>

\* UPDATE_RESULTS; mergeQueryData puts what is new on top.  (The filter on
\* searches with a start date, and the order of a collection, are left out.)
Updated(r) ==
    /\ r.kind = "poll"
    /\ Answer(r)
    /\ status \in {"success", "offline", "error"}
    /\ status' = "success"
    /\ results' = NewItems(r) \o Shown
    /\ total' = IF results = NoData THEN r.reply.total ELSE total + Len(NewItems(r))
    /\ effectDue' = TRUE
    /\ UNCHANGED <<config, loadingMore>>

UpdateIgnored(r) ==
    /\ r.kind = "poll"
    /\ Answer(r)
    /\ status = "loading"
    /\ UNCHANGED <<config, status, results, total, loadingMore, effectDue>>

\* APPEND_RESULTS; appendQueryData puts what is new at the end.
Append_(r) ==
    /\ Answer(r)
    /\ status' = "success"
    /\ results' = Shown \o NewItems(r)
    /\ total' = IF results = NoData THEN r.reply.total ELSE total
    /\ loadingMore' = FALSE
    /\ effectDue' = TRUE

Appended(r) ==
    /\ r.kind = "more"
    /\ Append_(r)
    /\ UNCHANGED config

\* ... and handleNextItem goes on: handleSelectItem of the first item of the
\* answer, with the search that was current when it was called.
NextAppended(r) ==
    /\ r.kind = "next"
    /\ Append_(r)
    /\ IF r.reply.items = <<>>
       THEN UNCHANGED config
       ELSE query' = r.query /\ open' = r.reply.items[1]

\* Mutant of Failed: every failure counts as being offline.
FailedOffline(r) ==
    /\ ~calm /\ failures < MaxFailures
    /\ failures' = failures + 1
    /\ requests' = requests \ {r}
    /\ status' = "offline"
    /\ effectDue' = (effectDue \/ status' # status)
    /\ UNCHANGED <<calm, stored, config, results, total, autoUpdate, loadingMore, acts>>

\* FETCH_ERROR: the request fails, or its answer is lost.
Failed(r) ==
    /\ ~calm /\ failures < MaxFailures
    /\ failures' = failures + 1
    /\ requests' = requests \ {r}
    /\ status' = CASE status = "loading" -> "error"
                   [] status = "success" -> "offline"
                   [] OTHER -> status
    /\ effectDue' = (effectDue \/ status' # status)
    /\ UNCHANGED <<calm, stored, config, results, total, autoUpdate, loadingMore, acts>>

-----------------------------------------------------------------------------
(* The user.                                                               *)

\* All that is in flight is what the client does by itself.
Quiet == \A r \in requests : r.kind = "poll"

Act ==
    /\ ~effectDue
    /\ calm => Quiet
    /\ acts < MaxActs
    /\ acts' = acts + 1

\* handleEnterQuery: pushConfigState sets the configuration and dispatches
\* ENTER_QUERY.
EnterQuery(q) ==
    /\ Act
    /\ q # query
    /\ query' = q
    /\ status' = "loading"
    /\ effectDue' = TRUE
    /\ UNCHANGED <<calm, stored, open, results, total, autoUpdate, loadingMore, requests, failures>>

\* handleRefresh dispatches ENTER_QUERY for the current search: its sortBy is a
\* new object, so that the effect runs whatever the status was.
Refresh ==
    /\ Act
    /\ status' = "loading"
    /\ effectDue' = TRUE
    /\ UNCHANGED <<calm, stored, config, results, total, autoUpdate, loadingMore, requests, failures>>

Retry ==
    /\ Act
    /\ status = "error"
    /\ status' = "loading"
    /\ effectDue' = TRUE
    /\ UNCHANGED <<calm, stored, config, results, total, autoUpdate, loadingMore, requests, failures>>

ToggleAutoUpdate ==
    /\ Act
    /\ autoUpdate' = ~autoUpdate
    /\ effectDue' = TRUE
    /\ UNCHANGED <<calm, stored, config, status, results, total, loadingMore, requests, failures>>

\* handleSelectItem; the effect runs again when the view changes.
SelectItem(i) ==
    /\ Act
    /\ open' = i
    /\ effectDue' = (open = NoItem)
    /\ UNCHANGED <<calm, stored, query, state, requests, failures>>

DeselectItem ==
    /\ Act
    /\ open # NoItem
    /\ open' = NoItem
    /\ effectDue' = TRUE
    /\ UNCHANGED <<calm, stored, query, state, requests, failures>>

LoadMore(kind) ==
    /\ Act
    /\ Shown # <<>>
    /\ FreeIds # {}
    /\ loadingMore' = TRUE
    /\ requests' = Sent(requests, kind, NoCursor, Earliest)
    /\ UNCHANGED <<calm, stored, config, status, results, total, autoUpdate, effectDue, failures>>

\* The button under the list, shown while there is more and disabled while
\* it loads.
LoadMoreOffered == Settled /\ Len(Shown) < total
LoadMoreResults ==
    /\ LoadMoreOffered /\ ~loadingMore
    /\ LoadMore("more")

\* A card of the list; and the arrow keys, which the loading list leaves on.
ChooseItem == Settled /\ \E i \in ShownItems : SelectItem(i)
PreviousItem ==
    \E j \in 2..Len(Shown) : Shown[j] = open /\ SelectItem(Shown[j - 1])
NextItem ==
    \E j \in 1..Len(Shown) :
        /\ Shown[j] = open
        /\ IF j < Len(Shown) THEN SelectItem(Shown[j + 1]) ELSE LoadMore("next")

User ==
    \/ \E q \in Queries : EnterQuery(q)
    \/ Refresh \/ Retry \/ ToggleAutoUpdate
    \/ ChooseItem \/ PreviousItem \/ NextItem \/ DeselectItem \/ LoadMoreResults

\* A request is answered, or its answer is applied.
Network(r) ==
    \/ Serve(r)
    \/ Fetched(r) \/ Updated(r) \/ UpdateIgnored(r) \/ Appended(r) \/ NextAppended(r)

Next ==
    \/ \E i \in Items : Insert(i)
    \/ RunEffect \/ Poll \/ User
    \/ \E r \in requests : Network(r) \/ Failed(r)

Spec == Init /\ [][Next]_vars

\* React runs the effects, the interval fires, and the requests are answered;
\* nothing obliges the user to act or an item to arrive.  What is said of any
\* run, calm or not, is safety, which needs no fairness.
FairSpec ==
    /\ Spec
    /\ WF_vars(calm /\ RunEffect) /\ WF_vars(calm /\ Poll)
    /\ \A n \in 1..MaxRequests : WF_vars(calm /\ \E r \in requests : r.id = n /\ Network(r))

-----------------------------------------------------------------------------
\* Between fetches, what is listed is what the search selects: no answer to
\* an earlier search is shown under a later one (FETCH_SUCCESS, UPDATE_RESULTS
\* and APPEND_RESULTS do not compare the search they answer).
ResultsMatchQuery == calm /\ Settled => ShownItems \subseteq Matches[query]

\* However polls, fetches and pages overlap, mergeQueryData and appendQueryData
\* list no item twice.
NoDuplicates == Cardinality(ShownItems) = Len(Shown)

\* The array behind "Next story" and "Previous story" is in the order of the
\* feed on the screen, newest first, after any mix of polls and pages.
NewestFirst == calm => Descending(Shown)

Wanted == (stored \intersect Matches[query]) \ ShownItems

\* The list has no holes: of what the search selects, only what is older than
\* all of it or newer than all of it is missing from it.  The cursors of
\* polls and pages continue it at its ends.
NoHoles ==
    calm /\ Settled /\ Shown # <<>> =>
        \A i \in Wanted : Time[i] <= Earliest \/ Time[i] >= Latest

\* The items of one timestamp fill a page: the inclusive cursors of the pages
\* cannot pass them.
Crowded(S) == \E i \in S : Rows[{j \in S : Time[j] = Time[i]}] >= PageSize

\* "Load more" is offered as long as there is something older to load: the
\* total that polls maintain never falls behind the list they extend, until
\* the list is longer than COUNT_QUERY_CAP, or one timestamp fills a page of it.
OlderReachable ==
    calm /\ Settled /\ Shown # <<>> /\ Len(Shown) <= CountCap /\ ~Crowded(ShownItems) =>
        ((\E i \in Wanted : Time[i] < Earliest) => LoadMoreOffered)

Awaits(i) ==
    /\ calm /\ i \in stored \intersect Matches[query]
    /\ autoUpdate /\ Settled

\* The feed updates itself: an item that arrives, newer than what is listed,
\* comes into view by polling alone, unless the user turns to another search,
\* stops the updates, or is asked to retry.
FeedFollows ==
    \A i \in Items \ Initially[TRUE] :
        Awaits(i) ~> \/ ~Awaits(i)
                     \/ i \in ShownItems
                     \/ Shown # <<>> /\ Time[i] <= Earliest

-----------------------------------------------------------------------------
(* The inductive invariant.  In a calm run the list is an interval of what   *)
(* the search selects, every answer on its way continues it at the end that  *)
(* it was asked for, and whatever is inserted is newer than all of it.       *)

Unrepeated(s) == \A j, k \in DOMAIN s : s[j] = s[k] => j = k

Reply == [items : {s \in Seq(Items) : Unrepeated(s) /\ Descending(s)}, total : Nat]

RequestTyped(r) ==
    /\ r = [id |-> r.id, kind |-> r.kind, query |-> r.query,
            after |-> r.after, before |-> r.before, reply |-> r.reply]
    /\ r.reply = NoReply \/ r.reply \in Reply

AnyRun ==
    /\ TypeOK
    /\ Unrepeated(Shown)
    /\ \A r \in requests : RequestTyped(r)

\* No item of S is newer than any of T.
Older(S, T) == \A i \in S, j \in T : Time[i] <= Time[j]

Selection == stored \intersect Matches[query]
Listed(r) == ToSet(r.reply.items)

\* The first fetch: an interval of the selection.
FetchFits(r) ==
    /\ r.kind = "fetch" /\ r.query = query /\ r.after = NoCursor /\ r.before = NoCursor
    /\ r.reply # NoReply =>
          /\ Listed(r) # {} /\ Listed(r) \subseteq Selection
          /\ \A i \in Selection \ Listed(r) : Older({i}, Listed(r)) \/ Older(Listed(r), {i})

\* A poll: the selection from a time in the list upwards, which misses none below.
PollFits(r) ==
    /\ r.after \in Nat /\ r.before = NoCursor
    /\ \E i \in ShownItems : r.after <= Time[i]
    /\ \A i \in Wanted : r.after <= Time[i] => Older(ShownItems, {i})
    /\ r.reply # NoReply =>
          /\ Listed(r) \subseteq Selection
          /\ \A i \in Listed(r) : r.after <= Time[i]
          /\ \A i \in Selection \ Listed(r) : r.after <= Time[i] => Older(Listed(r), {i})

\* More: the selection from the end of the list downwards.
MoreFits(r) ==
    /\ r.before \in Nat /\ r.after = NoCursor
    /\ \E i \in ShownItems : Time[i] <= r.before
    /\ \A i \in ShownItems : r.before <= Time[i]
    /\ r.reply # NoReply =>
          /\ Listed(r) \subseteq Selection
          /\ \A i \in Listed(r) : Time[i] <= r.before
          /\ \A i \in Wanted \ Listed(r) :
                Time[i] <= r.before => Older({i}, Listed(r)) \/ Older(ShownItems, {i})

\* Until a new search is fetched there are polls of the one before, which the
\* effect aborts, and then only the fetch.
LoadingFits ==
    IF effectDue THEN Quiet
    ELSE /\ requests # {}
         /\ \A r \in requests : FetchFits(r)
         /\ \A r, s \in requests : r = s

\* Then the list continues at both ends.
ListFits ==
    /\ ShownItems # {} /\ ShownItems \subseteq Selection
    /\ \A i \in Wanted : Older({i}, ShownItems) \/ Older(ShownItems, {i})
    /\ \A r \in requests :
          /\ r.kind # "fetch" /\ r.query = query
          /\ r.kind = "poll" => PollFits(r)
          /\ r.kind # "poll" => MoreFits(r)
    /\ \A r, s \in requests : r.kind # "poll" /\ s.kind # "poll" => r = s

CalmRun ==
    calm =>
        /\ Older(stored, Items \ stored)
        /\ \A q \in Queries : stored \intersect Matches[q] # {}
        /\ Descending(Shown)
        /\ \/ status = "loading" /\ LoadingFits
           \/ status = "success" /\ ListFits

IInv == AnyRun /\ CalmRun

\* Of a selection, what S lists and all below it; and S lists its oldest.
DownFrom(sel, S) == S \union {i \in sel : Older({i}, S)}
Bottom(sel, S) == \A i \in sel : \E j \in S : Time[j] <= Time[i]

\* The total t counts what is listed and all below it, unless it is capped, or
\* there is nothing below, or one timestamp fills a page; and what arrives is
\* then not below it, as the list has an item older than its newest.
Accounts(sel, S, t) ==
    /\ Cardinality(DownFrom(sel, S)) <= t \/ t > CountCap \/ Bottom(sel, S) \/ Crowded(S)
    /\ (\E i, j \in S : Time[i] < Time[j]) \/ Bottom(sel, S) \/ Crowded(S)

Counted ==
    calm =>
        /\ status = "success" => Accounts(Selection, ShownItems, total)
        /\ \A r \in requests :
              r.kind = "fetch" /\ r.reply # NoReply =>
                  Accounts(Selection, Listed(r), r.reply.total)
=============================================================================
