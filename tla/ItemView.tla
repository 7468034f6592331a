------------------------------ MODULE ItemView ------------------------------
(***************************************************************************)
(* The open item (ItemData.tsx, ToolsConnection.tsx,                       *)
(* AddToCollectionButton.tsx) against the server's tool links and the      *)
(* Tasted collection, and Composer.  A user opens and closes items, sends  *)
(* them to Composer and InCopy, and tastes them; others send and taste     *)
(* items as well.  No request is ever aborted, so that an answer is applied to   *)
(* whatever is shown by then.                                              *)
(***************************************************************************)
EXTENDS Naturals, Sequences, FiniteSets

CONSTANTS
    Wires,        \* the ids of the items
    MaxPages,     \* bound: the Composer pages ever created
    MaxRequests,  \* bound: requests in flight at once
    MaxActs,      \* bound: what the user does
    MaxOthers,    \* bound: what other users do
    MaxFailures   \* bound: the requests that fail

None == 0

ASSUME ItemViewAssumption ==
    /\ Wires \subseteq Nat \ {None} /\ IsFiniteSet(Wires)
    /\ MaxPages \in Nat /\ MaxRequests \in Nat /\ MaxActs \in Nat
    /\ MaxOthers \in Nat /\ MaxFailures \in Nat

VARIABLES
    pages,        \* Composer: the wire that each page was created from
    links,        \* the tool_link table
    tasted,       \* wire_entry_collection: the wires in the collection
    overtaken,    \* history: what others have tasted, or stopped tasting, since
                  \* the server last answered a fetch of it
    open,         \* the selected item
    shown,        \* itemData
    error,        \* ItemData's error
    button,       \* sendState of the Composer button
    url,          \* its composerUrl
    toggleError,  \* errorMessage of the collection button
    requests,     \* requests in flight
    acts, others, failures,
    hasty         \* whether this user has acted while awaiting an item or a toggle

server == <<pages, links, tasted, overtaken>>
client == <<open, shown, error, button, url, toggleError>>
bounds == <<acts, others, failures, hasty>>
vars == <<server, client, requests, bounds>>

Tool == {"composer", "incopy"}
Link == [wire : Wires, tool : Tool, page : Nat]
ComposerLink(w, p) == [wire |-> w, tool |-> "composer", page |-> p]
Item == [id : Wires \union {None}, links : SUBSET Link, tasted : BOOLEAN]
NoItem == [id |-> None, links |-> {}, tasted |-> FALSE]
Kinds == {"fetch", "poll", "create", "link", "incopy", "toggle"}

\* heard: whether the answer reaches the button it was sent by, only the item's
\* panel, or neither, since they are not on the page any more.
Request ==
    [kind : Kinds, wire : Wires, heard : {"button", "item", "nobody"}, answered : BOOLEAN,
     page : Nat, add : BOOLEAN, refresh : Wires \union {None}, answer : Item]

TypeOK ==
    /\ pages \in Seq(Wires) /\ links \subseteq Link /\ tasted \subseteq Wires /\ overtaken \subseteq Wires
    /\ open \in Wires \union {None} /\ shown \in Item /\ error \in BOOLEAN
    /\ shown.id = None => shown = NoItem
    /\ button \in {"absent", "unsent", "sending", "sent", "failed"} /\ url \in Nat
    /\ toggleError \in BOOLEAN
    /\ requests \subseteq Request
    /\ acts \in Nat /\ others \in Nat /\ failures \in Nat /\ hasty \in BOOLEAN

Init ==
    /\ pages = <<>> /\ links = {} /\ tasted = {} /\ overtaken = {}
    /\ open = None /\ shown = NoItem /\ error = FALSE
    /\ button = "absent" /\ url = 0 /\ toggleError = FALSE
    /\ requests = {}
    /\ acts = 0 /\ others = 0 /\ failures = 0 /\ hasty = FALSE

-----------------------------------------------------------------------------
(* The components of the page. *)

Visible == shown # NoItem /\ ~error

\* Buttons leave the page, and with them their state; what they have sent is
\* heard only by the panel.
Detach(R, kinds) ==
    {[r EXCEPT !.heard = IF @ = "button" /\ r.kind \in kinds THEN "item" ELSE @] : r \in R}

LinksOf(w) == {l \in links : l.wire = w}
ComposerLinks(L) == {l \in L : l.tool = "composer"}

\* The Composer button mounts, with one of the links it finds.
Mount(L) ==
    \/ ComposerLinks(L) = {} /\ button' = "unsent" /\ url' = 0
    \/ \E l \in ComposerLinks(L) : button' = "sent" /\ url' = l.page

\* Mutant: the tools have no key, and keep their state.
Unkeyed(item, R) ==
    /\ shown' = item /\ error' = FALSE /\ toggleError' = toggleError
    /\ requests' = R
    /\ IF Visible THEN UNCHANGED <<button, url>> ELSE Mount(item.links)

\* setItemData with an item that was fetched.  The tools are keyed by its id;
\* the collection button is not.
Show(item, R) ==
    /\ shown' = item /\ error' = FALSE /\ toggleError' = toggleError
    /\ IF Visible /\ shown.id = item.id
       THEN requests' = R /\ UNCHANGED <<button, url>>
       ELSE requests' = Detach(R, {"create", "link"}) /\ Mount(item.links)

\* Mutant: the failure is only logged.
LogError(R) == requests' = R /\ UNCHANGED client

\* setError: the panel says that the item is not found, and its buttons go.
ShowError(R) ==
    /\ error' = TRUE
    /\ button' = "absent" /\ url' = 0 /\ toggleError' = FALSE
    /\ requests' = Detach(R, Kinds)
    /\ UNCHANGED <<open, shown>>

\* addToolLink: to the item shown by now.
WithLink(l) == IF shown = NoItem THEN shown ELSE [shown EXCEPT !.links = @ \union {l}]

-----------------------------------------------------------------------------
(* What the user does. *)

NewRequest(kind, w, heard) ==
    [kind |-> kind, wire |-> w, heard |-> heard, answered |-> FALSE, page |-> 0,
     add |-> FALSE, refresh |-> None, answer |-> NoItem]

Awaited == {r \in requests : r.kind \in {"fetch", "toggle"}}

Act ==
    /\ acts < MaxActs /\ acts' = acts + 1
    /\ hasty' = (hasty \/ Awaited # {})
    /\ UNCHANGED <<server, others, failures>>

Room == Cardinality(requests) < MaxRequests
PagesLeft ==
    Len(pages) + Cardinality({r \in requests : r.kind = "create" /\ ~r.answered}) < MaxPages

\* The selected item changes: fetchItemData.  What is shown stays until then.
Open(w) ==
    /\ Act /\ Room /\ open # w
    /\ open' = w
    /\ requests' = requests \union {NewRequest("fetch", w, "item")}
    /\ UNCHANGED <<shown, error, button, url, toggleError>>

\* The item is deselected and its panel leaves the page; nobody hears what it
\* asked for, which only matters to what changes the server.
Close ==
    /\ Act /\ open # None
    /\ open' = None /\ shown' = NoItem /\ error' = FALSE
    /\ button' = "absent" /\ url' = 0 /\ toggleError' = FALSE
    /\ requests' = {[r EXCEPT !.heard = "nobody"] :
                        r \in {q \in requests : q.kind \notin {"fetch", "poll"}}}

\* sendToComposer, for the first time or again after it failed.
Send ==
    /\ Act /\ Room /\ PagesLeft /\ Visible /\ button \in {"unsent", "failed"}
    /\ button' = "sending"
    /\ requests' = requests \union {NewRequest("create", shown.id, "button")}
    /\ UNCHANGED <<open, shown, error, url, toggleError>>

SendToIncopy ==
    /\ Act /\ Room /\ Visible
    /\ requests' = requests \union {NewRequest("incopy", shown.id, "item")}
    /\ UNCHANGED client

\* toggleItemToTasted: it remembers how to refresh the item that is open now.
Toggle ==
    /\ Act /\ Room /\ Visible
    /\ requests' = requests \union
           {[NewRequest("toggle", shown.id, "button") EXCEPT
                !.add = ~shown.tasted, !.refresh = open]}
    /\ UNCHANGED client

\* The interval asks for the links of the open item.
Poll ==
    /\ open # None /\ Room
    /\ requests' = requests \union {NewRequest("poll", open, "item")}
    /\ UNCHANGED <<server, client, bounds>>

OtherActs ==
    /\ others < MaxOthers /\ others' = others + 1
    /\ UNCHANGED <<client, requests, acts, failures, hasty>>

\* Another user sends an item to Composer.
OtherSends(w) ==
    /\ OtherActs /\ PagesLeft
    /\ pages' = Append(pages, w)
    /\ links' = links \union {ComposerLink(w, Len(pages'))}
    /\ UNCHANGED <<tasted, overtaken>>

\* Another user adds an item to the one Tasted collection, or removes it.
OtherToggles(w) ==
    /\ OtherActs
    /\ tasted' = IF w \in tasted THEN tasted \ {w} ELSE tasted \union {w}
    /\ overtaken' = overtaken \union {w}
    /\ UNCHANGED <<pages, links>>

-----------------------------------------------------------------------------
(* The servers. *)

AnsweredPage(r, p) == (requests \ {r}) \union {[r EXCEPT !.answered = TRUE, !.page = p]}
Answered(r, a) == (requests \ {r}) \union {[r EXCEPT !.answered = TRUE, !.answer = a]}

\* item, and toolLinksForWire.
ServeRead(r) ==
    /\ \/ /\ r.kind = "fetch"
          /\ requests' = Answered(r,
                 [id |-> r.wire, links |-> LinksOf(r.wire), tasted |-> r.wire \in tasted])
          /\ overtaken' = overtaken \ {r.wire}
       \/ /\ r.kind = "poll"
          /\ requests' = Answered(r, [NoItem EXCEPT !.links = LinksOf(r.wire)])
          /\ UNCHANGED overtaken
    /\ UNCHANGED <<pages, links, tasted>>

\* Composer creates a page.
ServeCreate(r) ==
    /\ r.kind = "create"
    /\ pages' = Append(pages, r.wire)
    /\ requests' = AnsweredPage(r, Len(pages'))
    /\ UNCHANGED <<links, tasted, overtaken>>

\* Mutant: the link is stored under the item that is open.
ServeLinkOpen(r) ==
    /\ r.kind = "link"
    /\ links' = links \union
           {ComposerLink(IF open = None THEN r.wire ELSE open, r.page)}
    /\ requests' = Answered(r, NoItem)
    /\ UNCHANGED <<pages, tasted, overtaken>>

\* linkToComposer: insertComposerLink, whatever links there are.
ServeLink(r) ==
    /\ r.kind = "link"
    /\ links' = links \union {ComposerLink(r.wire, r.page)}
    /\ requests' = Answered(r, NoItem)
    /\ UNCHANGED <<pages, tasted, overtaken>>

\* getIncopyImportUrl: insertIncopyLink.
ServeIncopy(r) ==
    /\ r.kind = "incopy"
    /\ links' = links \union {[wire |-> r.wire, tool |-> "incopy", page |-> 0]}
    /\ requests' = Answered(r, NoItem)
    /\ UNCHANGED <<pages, tasted, overtaken>>

\* addWireEntryToCollection, where a conflict does nothing; or
\* removeWireEntryFromCollection.
ServeToggle(r) ==
    /\ r.kind = "toggle"
    /\ tasted' = IF r.add THEN tasted \union {r.wire} ELSE tasted \ {r.wire}
    /\ requests' = Answered(r, NoItem)
    /\ UNCHANGED <<pages, links, overtaken>>

Serve(r) ==
    /\ ~r.answered
    /\ \/ ServeRead(r) \/ ServeCreate(r) \/ ServeLink(r) \/ ServeIncopy(r) \/ ServeToggle(r)
    /\ UNCHANGED <<client, bounds>>

-----------------------------------------------------------------------------
(* The client's promises. *)

HearFetch(r) ==
    /\ r.kind = "fetch"
    /\ Show(r.answer, requests \ {r})
    /\ UNCHANGED open

\* Mutant: the first answer is kept, as though links never changed.
HearPollOnce(r) ==
    /\ r.kind = "poll"
    /\ requests' = requests \ {r}
    /\ shown' = IF shown = NoItem \/ shown.links # {} THEN shown
                ELSE [shown EXCEPT !.links = r.answer.links]
    /\ UNCHANGED <<open, error, button, url, toggleError>>

\* The links go to the item shown by now.
HearPoll(r) ==
    /\ r.kind = "poll"
    /\ requests' = requests \ {r}
    /\ shown' = IF shown = NoItem THEN shown
                ELSE [shown EXCEPT !.links = r.answer.links]
    /\ UNCHANGED <<open, error, button, url, toggleError>>

\* Mutant: it goes on only while its button is there.
HearCreateAttached(r) ==
    /\ r.kind = "create"
    /\ requests' = (requests \ {r}) \union
           (IF r.heard # "button" THEN {}
            ELSE {[r EXCEPT !.kind = "link", !.answered = FALSE]})
    /\ UNCHANGED client

AskLink(r) == (requests \ {r}) \union {[r EXCEPT !.kind = "link", !.answered = FALSE]}

\* The page is there: linkToComposer, for the item that was sent.
HearCreate(r) ==
    /\ r.kind = "create"
    /\ requests' = AskLink(r)
    /\ UNCHANGED client

HearLink(r) ==
    /\ r.kind = "link"
    /\ requests' = requests \ {r}
    /\ button' = IF r.heard = "button" THEN "sent" ELSE button
    /\ url' = IF r.heard = "button" THEN r.page ELSE url
    /\ shown' = IF r.heard = "nobody" THEN shown
                ELSE WithLink(ComposerLink(r.wire, r.page))
    /\ UNCHANGED <<open, error, toggleError>>

HearIncopy(r) ==
    /\ r.kind = "incopy"
    /\ requests' = requests \ {r}
    /\ shown' = IF r.heard = "nobody" THEN shown
                ELSE WithLink([wire |-> r.wire, tool |-> "incopy", page |-> 0])
    /\ UNCHANGED <<open, error, button, url, toggleError>>

ClearToggleError(r) == toggleError' = (toggleError /\ r.heard # "button")

\* Mutant: the item is not refreshed.
HearToggleOnly(r) ==
    /\ r.kind = "toggle"
    /\ requests' = requests \ {r}
    /\ ClearToggleError(r)
    /\ UNCHANGED <<open, shown, error, button, url>>

\* refreshItemData, of the item that was open then.
HearToggle(r) ==
    /\ r.kind = "toggle"
    /\ requests' = (requests \ {r}) \union
           (IF r.heard = "nobody" THEN {} ELSE {NewRequest("fetch", r.refresh, "item")})
    /\ ClearToggleError(r)
    /\ UNCHANGED <<open, shown, error, button, url>>

Hear(r) ==
    /\ r.answered
    /\ \/ HearFetch(r) \/ HearPoll(r) \/ HearCreate(r) \/ HearLink(r) \/ HearIncopy(r)
       \/ HearToggle(r)
    /\ UNCHANGED <<server, bounds>>

\* Mutant: a rejected promise leaves the button as it is.
ForgetSend(r) ==
    /\ r.kind \in {"create", "link"}
    /\ requests' = requests \ {r}
    /\ UNCHANGED client

\* A send that failed, at either request, can be sent again.
FailSend(r) ==
    /\ r.kind \in {"create", "link"}
    /\ requests' = requests \ {r}
    /\ button' = IF r.heard = "button" THEN "failed" ELSE button
    /\ UNCHANGED <<open, shown, error, url, toggleError>>

FailFetch(r) == r.kind = "fetch" /\ ShowError(requests \ {r})

FailToggle(r) ==
    /\ r.kind = "toggle"
    /\ requests' = requests \ {r}
    /\ toggleError' = (toggleError \/ r.heard = "button")
    /\ UNCHANGED <<open, shown, error, button, url>>

FailQuiet(r) ==
    /\ r.kind \in {"poll", "incopy"}
    /\ requests' = requests \ {r}
    /\ UNCHANGED client

\* An error status, an answer that does not parse, or none: with or without
\* effect on the server.
Fail(r) ==
    /\ failures < MaxFailures /\ failures' = failures + 1
    /\ FailFetch(r) \/ FailSend(r) \/ FailToggle(r) \/ FailQuiet(r)
    /\ UNCHANGED <<server, acts, others, hasty>>

Next ==
    \/ \E w \in Wires : Open(w) \/ OtherSends(w) \/ OtherToggles(w)
    \/ Close \/ Send \/ SendToIncopy \/ Toggle \/ Poll
    \/ \E r \in requests : Serve(r) \/ Hear(r) \/ Fail(r)

Spec == Init /\ [][Next]_vars

ServeSome(kind, w) == \E r \in requests : r.kind = kind /\ r.wire = w /\ Serve(r)
HearSome(kind, w) == \E r \in requests : r.kind = kind /\ r.wire = w /\ Hear(r)

\* The servers answer, and the browser runs its callbacks and its interval.
FairSpec ==
    /\ Spec /\ WF_vars(Poll)
    /\ \A kind \in Kinds, w \in Wires :
           WF_vars(ServeSome(kind, w)) /\ WF_vars(HearSome(kind, w))

-----------------------------------------------------------------------------
(* Properties. *)

Outstanding(kinds) == {r \in requests : r.kind \in kinds}

\* "Open in Composer" leads to a page of the item shown that newswires knows
\* of, whatever was sent, opened and answered in between
\* (ToolsConnection.tsx:72, WireDetail.tsx:704).
SentMeansStored == button = "sent" => ComposerLink(shown.id, url) \in links

\* No page is stored under an item it was not made from, though another item
\* may be open when the page is there (send-to-composer.ts:121).
LinkedPagesAreTheirs ==
    \A l \in links :
        l.tool = "composer" => l.page \in DOMAIN pages /\ pages[l.page] = l.wire

\* The page of a send that is still going on is carried by its request.
Carried == {r.page : r \in Outstanding({"create", "link"})}
Orphans == {p \in DOMAIN pages : ComposerLink(pages[p], p) \notin links /\ p \notin Carried}

\* A page of Composer that newswires will not know of is the trace of a failure:
\* opening or closing items while it is made loses none
\* (send-to-composer.ts:100).
OrphansAreFailures == Cardinality(Orphans) <= failures

\* Who awaits each item before opening the next sees the one that is open, or
\* the error (ItemData.tsx:35).
ShownIsOpen ==
    ~hasty /\ Outstanding({"fetch"}) = {} /\ ~error => shown.id = open

\* Who awaits each item and each toggle sees whether the item is in the Tasted
\* collection, unless the button or the panel shows an error, or another user
\* has toggled it since the server answered (AddToCollectionButton.tsx:47; the
\* polls of ItemData.tsx:65 bring links only).
TastedAsStored ==
    ~hasty /\ Awaited = {} /\ Visible /\ ~toggleError /\ shown.id \notin overtaken =>
        (shown.tasted <=> shown.id \in tasted)

\* The links listed with the open item become those stored, in whatever order
\* answers arrived (ItemData.tsx:63).
LinksConverge == <>[](open # None /\ shown.id = open => shown.links = LinksOf(open))

\* The Composer button does not stay at "Sending..." (ToolsConnection.tsx:78).
SendSettles == button = "sending" ~> button # "sending"

-----------------------------------------------------------------------------
(* The inductive invariant. *)

\* What a request carries agrees with what is stored and shown.
RequestAgrees(r) ==
    /\ r.kind = "fetch" /\ r.answered =>
           r.answer.id = r.wire /\ r.answer.links \subseteq LinksOf(r.wire)
    /\ (r.kind = "link" \/ (r.kind = "create" /\ r.answered)) =>
           r.page \in DOMAIN pages /\ pages[r.page] = r.wire
    /\ r.kind = "link" /\ r.answered => ComposerLink(r.wire, r.page) \in links
    /\ r.kind \in {"create", "link"} /\ r.heard = "button" => Visible /\ r.wire = shown.id
    /\ r.kind = "toggle" => r.refresh # None

RequestsAgree == \A r \in requests : RequestAgrees(r)

\* Without an item open, nothing is shown or heard.
NothingOpen ==
    open = None =>
        /\ shown = NoItem
        /\ \A r \in requests : r.heard = "nobody" /\ r.kind \notin {"fetch", "poll"}

\* Who awaits each answer has one request out at a time, for the open item.
OneAwaited ==
    ~hasty =>
        /\ \A r, q \in Awaited : r = q
        /\ \A r \in Outstanding({"fetch"}) :
               /\ r.wire = open
               /\ r.answered /\ r.wire \notin overtaken =>
                      (r.answer.tasted <=> r.wire \in tasted)
        /\ \A r \in Outstanding({"toggle"}) :
               r.heard = "button" /\ Visible /\ r.wire = shown.id /\ r.refresh = open

IInv ==
    /\ TypeOK /\ RequestsAgree /\ NothingOpen /\ OneAwaited
    /\ SentMeansStored /\ LinkedPagesAreTheirs /\ ShownIsOpen /\ TastedAsStored

\* A request that Composer has not answered carries no page.
Unmade == \A r \in requests : r.kind = "create" /\ ~r.answered => r.page = 0

=============================================================================
