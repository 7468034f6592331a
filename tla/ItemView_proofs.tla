-------------------------- MODULE ItemView_proofs --------------------------
(***************************************************************************)
(* Proofs about the open item, for any items, any number of pages,         *)
(* requests in flight, acts of the user and failures.                      *)
(***************************************************************************)
EXTENDS ItemView, FiniteSetTheorems, TLAPS

Heard == {"button", "item", "nobody"}

-----------------------------------------------------------------------------
(* Types of the data. *)

LEMMA NoItemTyped == NoItem \in Item /\ NoItem.id = None /\ NoItem.links = {}
BY DEF NoItem, Item

LEMMA VisibleWire == TypeOK /\ Visible => shown.id \in Wires
BY DEF TypeOK, Visible, Item

LEMMA Fields ==
    ASSUME NEW r \in Request
    PROVE  /\ r.kind \in Kinds /\ r.wire \in Wires /\ r.heard \in Heard /\ r.page \in Nat
           /\ r.answered \in BOOLEAN /\ r.refresh \in Wires \union {None}
           /\ r.answer \in Item /\ r.answer.links \subseteq Link
           /\ r.answer.tasted \in BOOLEAN
BY DEF Request, Heard, Item

LEMMA LenTyped == \A s \in Seq(Wires), w \in Wires :
    /\ Len(s) \in Nat /\ Append(s, w) \in Seq(Wires) /\ Len(Append(s, w)) = Len(s) + 1
    /\ \A i \in DOMAIN s : i \in DOMAIN Append(s, w) /\ Append(s, w)[i] = s[i]
    /\ Len(s) + 1 \in DOMAIN Append(s, w) /\ Append(s, w)[Len(s) + 1] = w
OBVIOUS

LEMMA LinkTyped ==
    ASSUME NEW w \in Wires, NEW p \in Nat
    PROVE  /\ ComposerLink(w, p) \in Link
           /\ ComposerLink(w, p).wire = w /\ ComposerLink(w, p).page = p
           /\ ComposerLink(w, p).tool = "composer"
           /\ [wire |-> w, tool |-> "incopy", page |-> p] \in Link
BY DEF Link, ComposerLink, Tool

\* The answer to a read is made of stored links.
LEMMA LinksTyped ==
    ASSUME links \subseteq Link, NEW w \in Wires, NEW b \in BOOLEAN
    PROVE  /\ LinksOf(w) \subseteq Link
           /\ [NoItem EXCEPT !.links = LinksOf(w)] \in Item
           /\ [NoItem EXCEPT !.links = LinksOf(w)].links = LinksOf(w)
           /\ [id |-> w, links |-> LinksOf(w), tasted |-> b] \in Item
BY DEF LinksOf, Item, NoItem

-----------------------------------------------------------------------------
(* What requests look like after each way of changing them. *)

\* A request that was just made.
LEMMA NewShape ==
    ASSUME NEW kind \in Kinds, NEW w \in Wires, NEW heard \in Heard
    PROVE  /\ NewRequest(kind, w, heard) \in Request
           /\ NewRequest(kind, w, heard).kind = kind
           /\ NewRequest(kind, w, heard).wire = w
           /\ NewRequest(kind, w, heard).heard = heard
           /\ ~NewRequest(kind, w, heard).answered /\ NewRequest(kind, w, heard).page = 0
BY NoItemTyped DEF NewRequest, Request, Heard

\* Requests of which some are no more heard by their button.
LEMMA DetachShape ==
    ASSUME NEW R \in SUBSET Request, NEW kinds, NEW q \in Detach(R, kinds)
    PROVE  /\ q \in Request
           /\ \E r \in R :
                 /\ r.kind = q.kind /\ r.wire = q.wire /\ r.answered = q.answered
                 /\ r.page = q.page /\ r.refresh = q.refresh /\ r.answer = q.answer
                 /\ q.heard = "button" => r.heard = "button" /\ r.kind \notin kinds
                 /\ q.heard = "nobody" <=> r.heard = "nobody"
                 /\ r.kind \notin kinds => q = r
BY DEF Detach, Request

\* The server's answer changes one request.
LEMMA AnsweredShape ==
    ASSUME NEW r \in Request, NEW a \in Item
    PROVE  \E q \in Request :
              /\ Answered(r, a) = (requests \ {r}) \union {q}
              /\ q.kind = r.kind /\ q.wire = r.wire /\ q.heard = r.heard
              /\ q.page = r.page /\ q.refresh = r.refresh /\ q.answer = a /\ q.answered
<1> DEFINE q == [r EXCEPT !.answered = TRUE, !.answer = a]
<1>1. /\ q \in Request /\ q.kind = r.kind /\ q.wire = r.wire /\ q.heard = r.heard
      /\ q.page = r.page /\ q.refresh = r.refresh /\ q.answer = a /\ q.answered
  BY DEF Request
<1>2. Answered(r, a) = (requests \ {r}) \union {q}
  BY DEF Answered
<1> QED
  BY <1>1, <1>2

\* So does Composer's.
LEMMA AnsweredPageShape ==
    ASSUME NEW r \in Request, NEW p \in Nat
    PROVE  \E q \in Request :
              /\ AnsweredPage(r, p) = (requests \ {r}) \union {q}
              /\ q.kind = r.kind /\ q.wire = r.wire /\ q.heard = r.heard
              /\ q.page = p /\ q.answered
<1> DEFINE q == [r EXCEPT !.answered = TRUE, !.page = p]
<1>1. /\ q \in Request /\ q.kind = r.kind /\ q.wire = r.wire /\ q.heard = r.heard
      /\ q.page = p /\ q.answered
  BY DEF Request
<1>2. AnsweredPage(r, p) = (requests \ {r}) \union {q}
  BY DEF AnsweredPage
<1> QED
  BY <1>1, <1>2

\* A request for a page becomes one for its link.
LEMMA AskLinkShape ==
    ASSUME NEW r \in Request
    PROVE  \E q \in Request :
              /\ AskLink(r) = (requests \ {r}) \union {q}
              /\ q.kind = "link" /\ q.wire = r.wire /\ q.heard = r.heard
              /\ q.page = r.page /\ ~q.answered
<1> DEFINE q == [r EXCEPT !.kind = "link", !.answered = FALSE]
<1>1. /\ q \in Request /\ q.kind = "link" /\ q.wire = r.wire /\ q.heard = r.heard
      /\ q.page = r.page /\ ~q.answered
  BY DEF Request, Kinds
<1>2. AskLink(r) = (requests \ {r}) \union {q}
  BY DEF AskLink
<1> QED
  BY <1>1, <1>2

-----------------------------------------------------------------------------
(* The requests after each action. *)


LEMMA OpenRequests ==
    ASSUME TypeOK, RequestsAgree, NEW w \in Wires, Open(w)
    PROVE  \E q \in Request :
              /\ requests' = requests \union {q}
              /\ q.kind = "fetch" /\ q.wire = w /\ q.heard = "item" /\ ~q.answered
<1> DEFINE new == NewRequest("fetch", w, "item")
<1>1. "fetch" \in Kinds /\ "item" \in Heard
  BY DEF Kinds, Heard
<1>2. new \in Request /\ new.kind = "fetch" /\ new.wire = w /\ new.heard = "item"
      /\ ~new.answered
  BY <1>1, NewShape
<1>3. requests' = requests \union {new}
  BY DEF Open
<1> HIDE DEF new
<1> QED
  BY <1>2, <1>3

LEMMA SendRequests ==
    ASSUME TypeOK, RequestsAgree, Send
    PROVE  \E q \in Request :
              /\ requests' = requests \union {q}
              /\ q.kind = "create" /\ q.wire = shown.id /\ q.heard = "button" /\ ~q.answered
              /\ q.page = 0
<1> DEFINE new == NewRequest("create", shown.id, "button")
<1>1. "create" \in Kinds /\ "button" \in Heard /\ shown.id \in Wires
  BY VisibleWire DEF Kinds, Heard, Send
<1>2. new \in Request /\ new.kind = "create" /\ new.wire = shown.id /\ new.heard = "button"
      /\ ~new.answered /\ new.page = 0
  BY <1>1, NewShape
<1>3. requests' = requests \union {new}
  BY DEF Send
<1> HIDE DEF new
<1> QED
  BY <1>2, <1>3

LEMMA SendToIncopyRequests ==
    ASSUME TypeOK, RequestsAgree, SendToIncopy
    PROVE  \E q \in Request :
              /\ requests' = requests \union {q}
              /\ q.kind = "incopy" /\ q.wire = shown.id /\ q.heard = "item" /\ ~q.answered
<1> DEFINE new == NewRequest("incopy", shown.id, "item")
<1>1. "incopy" \in Kinds /\ "item" \in Heard /\ shown.id \in Wires
  BY VisibleWire DEF Kinds, Heard, SendToIncopy
<1>2. new \in Request /\ new.kind = "incopy" /\ new.wire = shown.id /\ new.heard = "item"
      /\ ~new.answered
  BY <1>1, NewShape
<1>3. requests' = requests \union {new}
  BY DEF SendToIncopy
<1> HIDE DEF new
<1> QED
  BY <1>2, <1>3

LEMMA ToggleRequests ==
    ASSUME TypeOK, RequestsAgree, Toggle
    PROVE  \E q \in Request :
              /\ requests' = requests \union {q}
              /\ q.kind = "toggle" /\ q.wire = shown.id /\ q.heard = "button" /\ ~q.answered
              /\ q.refresh = open
<1> DEFINE new == [NewRequest("toggle", shown.id, "button") EXCEPT
                    !.add = ~shown.tasted, !.refresh = open]
<1>1. shown.id \in Wires
  BY VisibleWire DEF Toggle
<1>2. new \in Request /\ new.kind = "toggle" /\ new.wire = shown.id /\ new.heard = "button"
      /\ ~new.answered
                 /\ new.refresh = open
  BY <1>1, NoItemTyped
  DEF NewRequest, Request, Kinds, TypeOK
<1>3. requests' = requests \union {new}
  BY DEF Toggle
<1> HIDE DEF new
<1> QED
  BY <1>2, <1>3

LEMMA PollRequests ==
    ASSUME TypeOK, RequestsAgree, Poll
    PROVE  \E q \in Request :
              /\ requests' = requests \union {q}
              /\ q.kind = "poll" /\ q.wire = open /\ q.heard = "item" /\ ~q.answered
<1> DEFINE new == NewRequest("poll", open, "item")
<1>1. "poll" \in Kinds /\ "item" \in Heard /\ open \in Wires
  BY DEF Kinds, Heard, TypeOK, Poll
<1>2. new \in Request /\ new.kind = "poll" /\ new.wire = open /\ new.heard = "item"
      /\ ~new.answered
  BY <1>1, NewShape
<1>3. requests' = requests \union {new}
  BY DEF Poll
<1> HIDE DEF new
<1> QED
  BY <1>2, <1>3

LEMMA ServeLinkRequests ==
    ASSUME TypeOK, RequestsAgree, NEW r \in requests, ServeLink(r)
    PROVE  \E q \in Request :
              /\ requests' = (requests \ {r}) \union {q}
              /\ q.kind = r.kind /\ q.wire = r.wire /\ q.heard = r.heard /\ q.page = r.page
              /\ q.refresh = r.refresh /\ q.answered
BY AnsweredShape, NoItemTyped DEF ServeLink, TypeOK

LEMMA ServeIncopyRequests ==
    ASSUME TypeOK, RequestsAgree, NEW r \in requests, ServeIncopy(r)
    PROVE  \E q \in Request :
              /\ requests' = (requests \ {r}) \union {q}
              /\ q.kind = r.kind /\ q.wire = r.wire /\ q.heard = r.heard /\ q.page = r.page
              /\ q.refresh = r.refresh /\ q.answered
BY AnsweredShape, NoItemTyped DEF ServeIncopy, TypeOK

LEMMA ServeToggleRequests ==
    ASSUME TypeOK, RequestsAgree, NEW r \in requests, ServeToggle(r)
    PROVE  \E q \in Request :
              /\ requests' = (requests \ {r}) \union {q}
              /\ q.kind = r.kind /\ q.wire = r.wire /\ q.heard = r.heard /\ q.page = r.page
              /\ q.refresh = r.refresh /\ q.answered
BY AnsweredShape, NoItemTyped DEF ServeToggle, TypeOK

LEMMA HearCreateRequests ==
    ASSUME TypeOK, RequestsAgree, NEW r \in requests, HearCreate(r)
    PROVE  \E q \in Request :
              /\ requests' = (requests \ {r}) \union {q}
              /\ q.kind = "link" /\ q.wire = r.wire /\ q.heard = r.heard /\ q.page = r.page
              /\ ~q.answered
BY AskLinkShape DEF HearCreate, TypeOK

LEMMA ServeCreateRequests ==
    ASSUME TypeOK, RequestsAgree, NEW r \in requests, ServeCreate(r)
    PROVE  \E q \in Request :
              /\ requests' = (requests \ {r}) \union {q}
              /\ r.kind = "create" /\ q.kind = r.kind /\ q.wire = r.wire
              /\ q.heard = r.heard /\ q.page = Len(pages') /\ q.answered
<1>1. r \in Request /\ r.wire \in Wires /\ pages \in Seq(Wires)
  BY Fields DEF TypeOK
<1>2. Len(pages') \in Nat
  BY <1>1, LenTyped DEF ServeCreate
<1> QED
  BY <1>1, <1>2, AnsweredPageShape DEF ServeCreate

LEMMA ServeReadRequests ==
    ASSUME TypeOK, NEW r \in requests, ServeRead(r)
    PROVE  \E q \in Request :
              /\ requests' = (requests \ {r}) \union {q}
              /\ q.kind = r.kind /\ q.wire = r.wire /\ q.heard = r.heard /\ q.answered
              /\ q.kind \in {"fetch", "poll"} /\ q.answer.links = LinksOf(r.wire)
              /\ q.kind = "fetch" =>
                    q.answer.id = r.wire /\ (q.answer.tasted <=> r.wire \in tasted)
<1>1. r \in Request /\ r.wire \in Wires /\ links \subseteq Link
  BY Fields DEF TypeOK
<1> DEFINE item == [id |-> r.wire, links |-> LinksOf(r.wire), tasted |-> r.wire \in tasted]
           list == [NoItem EXCEPT !.links = LinksOf(r.wire)]
<1>2. /\ item.id = r.wire /\ item.links = LinksOf(r.wire)
      /\ item.tasted <=> r.wire \in tasted
  OBVIOUS
<1>7. item \in Item
  <2>1. CASE r.wire \in tasted
    <3>1. item = [id |-> r.wire, links |-> LinksOf(r.wire), tasted |-> TRUE]
      BY <2>1, Zenon
    <3> QED
      BY <1>1, <3>1, LinksTyped
  <2>2. CASE r.wire \notin tasted
    <3>1. item = [id |-> r.wire, links |-> LinksOf(r.wire), tasted |-> FALSE]
      <4>1. (r.wire \in tasted) = FALSE
        BY <2>2
      <4> QED
        BY <4>1, Zenon
    <3> QED
      BY <1>1, <3>1, LinksTyped
  <2> QED
    BY <2>1, <2>2
<1>3. list \in Item /\ list.links = LinksOf(r.wire)
  BY <1>1, LinksTyped
<1>4. \/ r.kind = "fetch" /\ requests' = Answered(r, item)
      \/ r.kind = "poll" /\ requests' = Answered(r, list)
  BY DEF ServeRead
<1> HIDE DEF item, list
<1>5. CASE r.kind = "fetch" /\ requests' = Answered(r, item)
  BY <1>1, <1>2, <1>7, <1>5, AnsweredShape
<1>6. CASE r.kind = "poll" /\ requests' = Answered(r, list)
  BY <1>1, <1>3, <1>6, AnsweredShape
<1> QED
  BY <1>4, <1>5, <1>6

LEMMA CloseRequests ==
    ASSUME TypeOK, Close
    PROVE  \A q \in requests' :
              /\ q \in Request /\ q.heard = "nobody" /\ q.kind \notin {"fetch", "poll"}
              /\ \E r \in requests :
                    /\ r.kind = q.kind /\ r.wire = q.wire /\ r.answered = q.answered
                    /\ r.page = q.page /\ r.refresh = q.refresh
<1>1. \A r \in requests : r \in Request
  BY DEF TypeOK
<1> QED
  BY <1>1 DEF Close, Request

LEMMA HearToggleRequests ==
    ASSUME TypeOK, RequestsAgree, NEW r \in requests, HearToggle(r)
    PROVE  \/ requests' = requests \ {r} /\ r.heard = "nobody"
           \/ /\ r.heard # "nobody"
              /\ \E q \in Request :
                    /\ requests' = (requests \ {r}) \union {q}
                    /\ q.kind = "fetch" /\ q.wire = r.refresh /\ q.heard = "item"
                    /\ ~q.answered
<1> DEFINE new == NewRequest("fetch", r.refresh, "item")
<1>1. "fetch" \in Kinds /\ "item" \in Heard
  BY DEF Kinds, Heard
<1>2. r.refresh \in Wires
  BY Fields DEF TypeOK, RequestsAgree, RequestAgrees, HearToggle
<1>3. new \in Request /\ new.kind = "fetch" /\ new.wire = r.refresh /\ new.heard = "item"
      /\ ~new.answered
  BY <1>1, <1>2, NewShape
<1>4. \/ requests' = requests \ {r} /\ r.heard = "nobody"
      \/ r.heard # "nobody" /\ requests' = (requests \ {r}) \union {new}
  BY DEF HearToggle
<1> HIDE DEF new
<1> QED
  BY <1>3, <1>4

LEMMA HearFetchRequests ==
    ASSUME TypeOK, NEW r \in requests, HearFetch(r)
    PROVE  \A q \in requests' :
              /\ q \in Request
              /\ \E p \in requests :
                    /\ p # r
                    /\ p.kind = q.kind /\ p.wire = q.wire /\ p.answered = q.answered
                    /\ p.page = q.page /\ p.refresh = q.refresh /\ p.answer = q.answer
                    /\ p.kind \notin {"create", "link"} => q = p
                    /\ q.heard = "nobody" <=> p.heard = "nobody"
                    /\ p.kind \in {"create", "link"} /\ q.heard = "button" =>
                          p.heard = "button" /\ Visible /\ shown.id = r.answer.id
<1>1. requests \ {r} \in SUBSET Request
  BY DEF TypeOK
<1> DEFINE kinds == {"create", "link"}
<1>2. requests' = requests \ {r} \/ requests' = Detach(requests \ {r}, kinds)
  BY DEF HearFetch, Show
<1>3. CASE Visible /\ shown.id = r.answer.id
  BY <1>1, <1>3 DEF HearFetch, Show
<1>4. CASE ~(Visible /\ shown.id = r.answer.id)
  <2>1. requests' = Detach(requests \ {r}, kinds)
    BY <1>4 DEF HearFetch, Show
  <2> QED
    BY <1>1, <2>1, DetachShape
<1> QED
  BY <1>3, <1>4

LEMMA FailFetchRequests ==
    ASSUME TypeOK, NEW r \in requests, FailFetch(r)
    PROVE  \A q \in requests' :
              /\ q \in Request /\ q.heard # "button"
              /\ \E p \in requests :
                    /\ p # r
                    /\ p.kind = q.kind /\ p.wire = q.wire /\ p.answered = q.answered
                    /\ p.page = q.page /\ p.refresh = q.refresh /\ p.answer = q.answer
                    /\ q.heard = "nobody" <=> p.heard = "nobody"
<1>1. requests \ {r} \in SUBSET Request
  BY DEF TypeOK
<1>2. requests' = Detach(requests \ {r}, Kinds)
  BY DEF FailFetch, ShowError
<1> SUFFICES ASSUME NEW q \in requests'
             PROVE  /\ q \in Request /\ q.heard # "button"
                    /\ \E p \in requests :
                          /\ p # r
                          /\ p.kind = q.kind /\ p.wire = q.wire /\ p.answered = q.answered
                          /\ p.page = q.page /\ p.refresh = q.refresh
                          /\ p.answer = q.answer
                          /\ q.heard = "nobody" <=> p.heard = "nobody"
  OBVIOUS
<1> DEFINE R == requests \ {r}
<1>3. PICK p \in R : q = [p EXCEPT !.heard =
                               IF @ = "button" /\ p.kind \in Kinds THEN "item" ELSE @]
  BY <1>2 DEF Detach
<1>4. p \in Request /\ p.kind \in Kinds
  BY <1>1, <1>3, Fields
<1> QED
  BY <1>3, <1>4 DEF Request

-----------------------------------------------------------------------------
(* Links may come and go; the item shown stays the same. *)

LEMMA LinksReplaced ==
    ASSUME TypeOK, shown # NoItem, NEW L \in SUBSET Link
    PROVE  LET item == [shown EXCEPT !.links = L]
           IN  /\ item \in Item /\ item # NoItem /\ item.id = shown.id
               /\ item.tasted <=> shown.tasted
BY DEF TypeOK, Item, NoItem

LEMMA HearPollShown ==
    ASSUME TypeOK, NEW r \in requests, HearPoll(r)
    PROVE  /\ shown' \in Item /\ shown'.id = shown.id /\ (shown'.tasted <=> shown.tasted)
           /\ shown' = NoItem <=> shown = NoItem
<1>1. r.answer.links \in SUBSET Link
  BY Fields DEF TypeOK
<1> QED
  BY <1>1, LinksReplaced DEF TypeOK, HearPoll

LEMMA WithLinkShown ==
    ASSUME TypeOK, NEW l \in Link
    PROVE  /\ WithLink(l) \in Item /\ WithLink(l).id = shown.id
           /\ WithLink(l).tasted <=> shown.tasted
           /\ WithLink(l) = NoItem <=> shown = NoItem
<1>1. shown.links \union {l} \in SUBSET Link
  BY DEF TypeOK, Item
<1>2. CASE shown # NoItem
  BY <1>1, <1>2, LinksReplaced DEF WithLink
<1>3. CASE shown = NoItem
  BY <1>3 DEF WithLink, TypeOK
<1> QED
  BY <1>2, <1>3

LEMMA HearLinkShown ==
    ASSUME TypeOK, NEW r \in requests, HearLink(r)
    PROVE  /\ shown' \in Item /\ shown'.id = shown.id /\ (shown'.tasted <=> shown.tasted)
           /\ shown' = NoItem <=> shown = NoItem
<1>1. ComposerLink(r.wire, r.page) \in Link
  BY Fields, LinkTyped DEF TypeOK
<1> QED
  BY <1>1, WithLinkShown DEF TypeOK, HearLink

LEMMA HearIncopyShown ==
    ASSUME TypeOK, NEW r \in requests, HearIncopy(r)
    PROVE  /\ shown' \in Item /\ shown'.id = shown.id /\ (shown'.tasted <=> shown.tasted)
           /\ shown' = NoItem <=> shown = NoItem
<1>1. [wire |-> r.wire, tool |-> "incopy", page |-> 0] \in Link
  BY Fields, LinkTyped DEF TypeOK
<1> QED
  BY <1>1, WithLinkShown DEF TypeOK, HearIncopy

-----------------------------------------------------------------------------
(* One lemma for each part of the invariant. *)


\* Every step keeps the types.
LEMMA TypeStep == IInv /\ [Next]_vars => TypeOK'
<1> SUFFICES ASSUME IInv, [Next]_vars PROVE TypeOK'
  OBVIOUS
<1> USE ItemViewAssumption DEF IInv, TypeOK, server, client, bounds
<1>1. ASSUME NEW w \in Wires, Open(w) PROVE TypeOK'
  <2>1. requests' \subseteq Request
    BY <1>1, OpenRequests, Fields DEF Open, Act
  <2>2. /\ pages' \in Seq(Wires) /\ links' \subseteq Link /\ tasted' \subseteq Wires
        /\ overtaken' \subseteq Wires
    BY <1>1, Fields, LinkTyped, LenTyped DEF Open, Act
  <2>3. shown' \in Item /\ (shown'.id = None => shown' = NoItem) /\ url' \in Nat
    BY <1>1, Fields, LinkTyped DEF Open, Act, Item, NoItem, Visible
  <2>4. /\ open' \in Wires \union {None} /\ error' \in BOOLEAN /\ toggleError' \in BOOLEAN
        /\ button' \in {"absent", "unsent", "sending", "sent", "failed"}
    BY <1>1 DEF Open, Act
  <2>5. acts' \in Nat /\ others' \in Nat /\ failures' \in Nat /\ hasty' \in BOOLEAN
    BY <1>1 DEF Open, Act
  <2> QED
    BY <2>1, <2>2, <2>3, <2>4, <2>5
<1>2. ASSUME NEW w \in Wires, OtherSends(w) PROVE TypeOK'
  <2>1. requests' \subseteq Request
    BY <1>2, Fields DEF OtherSends, OtherActs
  <2>2. /\ pages' \in Seq(Wires) /\ links' \subseteq Link /\ tasted' \subseteq Wires
        /\ overtaken' \subseteq Wires
    <3>1. pages' \in Seq(Wires) /\ Len(pages') \in Nat
      BY <1>2, LenTyped DEF OtherSends, OtherActs
    <3>2. ComposerLink(w, Len(pages')) \in Link
      BY <3>1, LinkTyped
    <3> QED
      BY <1>2, <3>1, <3>2 DEF OtherSends, OtherActs
  <2>3. shown' \in Item /\ (shown'.id = None => shown' = NoItem) /\ url' \in Nat
    BY <1>2, Fields, LinkTyped DEF OtherSends, OtherActs, Item, NoItem, Visible
  <2>4. /\ open' \in Wires \union {None} /\ error' \in BOOLEAN /\ toggleError' \in BOOLEAN
        /\ button' \in {"absent", "unsent", "sending", "sent", "failed"}
    BY <1>2 DEF OtherSends, OtherActs
  <2>5. acts' \in Nat /\ others' \in Nat /\ failures' \in Nat /\ hasty' \in BOOLEAN
    BY <1>2 DEF OtherSends, OtherActs
  <2> QED
    BY <2>1, <2>2, <2>3, <2>4, <2>5
<1>3. ASSUME Close PROVE TypeOK'
  <2>1. requests' \subseteq Request
    BY <1>3, CloseRequests, Fields DEF Close, Act
  <2>2. /\ pages' \in Seq(Wires) /\ links' \subseteq Link /\ tasted' \subseteq Wires
        /\ overtaken' \subseteq Wires
    BY <1>3, Fields, LinkTyped, LenTyped DEF Close, Act
  <2>3. shown' \in Item /\ (shown'.id = None => shown' = NoItem) /\ url' \in Nat
    BY <1>3, Fields, LinkTyped DEF Close, Act, Item, NoItem, Visible
  <2>4. /\ open' \in Wires \union {None} /\ error' \in BOOLEAN /\ toggleError' \in BOOLEAN
        /\ button' \in {"absent", "unsent", "sending", "sent", "failed"}
    BY <1>3 DEF Close, Act
  <2>5. acts' \in Nat /\ others' \in Nat /\ failures' \in Nat /\ hasty' \in BOOLEAN
    BY <1>3 DEF Close, Act
  <2> QED
    BY <2>1, <2>2, <2>3, <2>4, <2>5
<1>4. ASSUME Send PROVE TypeOK'
  <2>1. requests' \subseteq Request
    BY <1>4, SendRequests, Fields DEF Send, Act
  <2>2. /\ pages' \in Seq(Wires) /\ links' \subseteq Link /\ tasted' \subseteq Wires
        /\ overtaken' \subseteq Wires
    BY <1>4, Fields, LinkTyped, LenTyped DEF Send, Act
  <2>3. shown' \in Item /\ (shown'.id = None => shown' = NoItem) /\ url' \in Nat
    BY <1>4, Fields, LinkTyped DEF Send, Act, Item, NoItem, Visible
  <2>4. /\ open' \in Wires \union {None} /\ error' \in BOOLEAN /\ toggleError' \in BOOLEAN
        /\ button' \in {"absent", "unsent", "sending", "sent", "failed"}
    BY <1>4 DEF Send, Act
  <2>5. acts' \in Nat /\ others' \in Nat /\ failures' \in Nat /\ hasty' \in BOOLEAN
    BY <1>4 DEF Send, Act
  <2> QED
    BY <2>1, <2>2, <2>3, <2>4, <2>5
<1>5. ASSUME SendToIncopy PROVE TypeOK'
  <2>1. requests' \subseteq Request
    BY <1>5, SendToIncopyRequests, Fields DEF SendToIncopy, Act
  <2>2. /\ pages' \in Seq(Wires) /\ links' \subseteq Link /\ tasted' \subseteq Wires
        /\ overtaken' \subseteq Wires
    BY <1>5, Fields, LinkTyped, LenTyped DEF SendToIncopy, Act
  <2>3. shown' \in Item /\ (shown'.id = None => shown' = NoItem) /\ url' \in Nat
    BY <1>5, Fields, LinkTyped DEF SendToIncopy, Act, Item, NoItem, Visible
  <2>4. /\ open' \in Wires \union {None} /\ error' \in BOOLEAN /\ toggleError' \in BOOLEAN
        /\ button' \in {"absent", "unsent", "sending", "sent", "failed"}
    BY <1>5 DEF SendToIncopy, Act
  <2>5. acts' \in Nat /\ others' \in Nat /\ failures' \in Nat /\ hasty' \in BOOLEAN
    BY <1>5 DEF SendToIncopy, Act
  <2> QED
    BY <2>1, <2>2, <2>3, <2>4, <2>5
<1>6. ASSUME Toggle PROVE TypeOK'
  <2>1. requests' \subseteq Request
    BY <1>6, ToggleRequests, Fields DEF Toggle, Act
  <2>2. /\ pages' \in Seq(Wires) /\ links' \subseteq Link /\ tasted' \subseteq Wires
        /\ overtaken' \subseteq Wires
    BY <1>6, Fields, LinkTyped, LenTyped DEF Toggle, Act
  <2>3. shown' \in Item /\ (shown'.id = None => shown' = NoItem) /\ url' \in Nat
    BY <1>6, Fields, LinkTyped DEF Toggle, Act, Item, NoItem, Visible
  <2>4. /\ open' \in Wires \union {None} /\ error' \in BOOLEAN /\ toggleError' \in BOOLEAN
        /\ button' \in {"absent", "unsent", "sending", "sent", "failed"}
    BY <1>6 DEF Toggle, Act
  <2>5. acts' \in Nat /\ others' \in Nat /\ failures' \in Nat /\ hasty' \in BOOLEAN
    BY <1>6 DEF Toggle, Act
  <2> QED
    BY <2>1, <2>2, <2>3, <2>4, <2>5
<1>7. ASSUME Poll PROVE TypeOK'
  <2>1. requests' \subseteq Request
    BY <1>7, PollRequests, Fields DEF Poll
  <2>2. /\ pages' \in Seq(Wires) /\ links' \subseteq Link /\ tasted' \subseteq Wires
        /\ overtaken' \subseteq Wires
    BY <1>7, Fields, LinkTyped, LenTyped DEF Poll
  <2>3. shown' \in Item /\ (shown'.id = None => shown' = NoItem) /\ url' \in Nat
    BY <1>7, Fields, LinkTyped DEF Poll, Item, NoItem, Visible
  <2>4. /\ open' \in Wires \union {None} /\ error' \in BOOLEAN /\ toggleError' \in BOOLEAN
        /\ button' \in {"absent", "unsent", "sending", "sent", "failed"}
    BY <1>7 DEF Poll
  <2>5. acts' \in Nat /\ others' \in Nat /\ failures' \in Nat /\ hasty' \in BOOLEAN
    BY <1>7 DEF Poll
  <2> QED
    BY <2>1, <2>2, <2>3, <2>4, <2>5
<1>8. ASSUME NEW r \in requests, ServeRead(r), ~r.answered, UNCHANGED <<client, bounds>>
      PROVE TypeOK'
  <2>1. requests' \subseteq Request
    BY <1>8, ServeReadRequests
  <2>2. /\ pages' \in Seq(Wires) /\ links' \subseteq Link /\ tasted' \subseteq Wires
        /\ overtaken' \subseteq Wires
    BY <1>8, Fields, LinkTyped, LenTyped DEF ServeRead
  <2>3. shown' \in Item /\ (shown'.id = None => shown' = NoItem) /\ url' \in Nat
    BY <1>8, Fields, LinkTyped DEF ServeRead, Item, NoItem, Visible
  <2>4. /\ open' \in Wires \union {None} /\ error' \in BOOLEAN /\ toggleError' \in BOOLEAN
        /\ button' \in {"absent", "unsent", "sending", "sent", "failed"}
    BY <1>8 DEF ServeRead
  <2>5. acts' \in Nat /\ others' \in Nat /\ failures' \in Nat /\ hasty' \in BOOLEAN
    BY <1>8 DEF ServeRead
  <2> QED
    BY <2>1, <2>2, <2>3, <2>4, <2>5
<1>9. ASSUME NEW r \in requests, ServeCreate(r), ~r.answered, UNCHANGED <<client, bounds>>
      PROVE TypeOK'
  <2>1. requests' \subseteq Request
    BY <1>9, ServeCreateRequests, Fields DEF ServeCreate
  <2>2. /\ pages' \in Seq(Wires) /\ links' \subseteq Link /\ tasted' \subseteq Wires
        /\ overtaken' \subseteq Wires
    BY <1>9, Fields, LinkTyped, LenTyped DEF ServeCreate
  <2>3. shown' \in Item /\ (shown'.id = None => shown' = NoItem) /\ url' \in Nat
    BY <1>9, Fields, LinkTyped DEF ServeCreate, Item, NoItem, Visible
  <2>4. /\ open' \in Wires \union {None} /\ error' \in BOOLEAN /\ toggleError' \in BOOLEAN
        /\ button' \in {"absent", "unsent", "sending", "sent", "failed"}
    BY <1>9 DEF ServeCreate
  <2>5. acts' \in Nat /\ others' \in Nat /\ failures' \in Nat /\ hasty' \in BOOLEAN
    BY <1>9 DEF ServeCreate
  <2> QED
    BY <2>1, <2>2, <2>3, <2>4, <2>5
<1>10. ASSUME NEW r \in requests, ServeLink(r), ~r.answered, UNCHANGED <<client, bounds>>
      PROVE TypeOK'
  <2>1. requests' \subseteq Request
    BY <1>10, ServeLinkRequests, Fields DEF ServeLink
  <2>2. /\ pages' \in Seq(Wires) /\ links' \subseteq Link /\ tasted' \subseteq Wires
        /\ overtaken' \subseteq Wires
    <3>1. ComposerLink(r.wire, r.page) \in Link
      BY Fields, LinkTyped
    <3> QED
      BY <1>10, <3>1 DEF ServeLink
  <2>3. shown' \in Item /\ (shown'.id = None => shown' = NoItem) /\ url' \in Nat
    BY <1>10, Fields, LinkTyped DEF ServeLink, Item, NoItem, Visible
  <2>4. /\ open' \in Wires \union {None} /\ error' \in BOOLEAN /\ toggleError' \in BOOLEAN
        /\ button' \in {"absent", "unsent", "sending", "sent", "failed"}
    BY <1>10 DEF ServeLink
  <2>5. acts' \in Nat /\ others' \in Nat /\ failures' \in Nat /\ hasty' \in BOOLEAN
    BY <1>10 DEF ServeLink
  <2> QED
    BY <2>1, <2>2, <2>3, <2>4, <2>5
<1>11. ASSUME NEW r \in requests, ServeIncopy(r), ~r.answered, UNCHANGED <<client, bounds>>
      PROVE TypeOK'
  <2>1. requests' \subseteq Request
    BY <1>11, ServeIncopyRequests, Fields DEF ServeIncopy
  <2>2. /\ pages' \in Seq(Wires) /\ links' \subseteq Link /\ tasted' \subseteq Wires
        /\ overtaken' \subseteq Wires
    <3>1. [wire |-> r.wire, tool |-> "incopy", page |-> 0] \in Link
      BY Fields, LinkTyped
    <3> QED
      BY <1>11, <3>1 DEF ServeIncopy
  <2>3. shown' \in Item /\ (shown'.id = None => shown' = NoItem) /\ url' \in Nat
    BY <1>11, Fields, LinkTyped DEF ServeIncopy, Item, NoItem, Visible
  <2>4. /\ open' \in Wires \union {None} /\ error' \in BOOLEAN /\ toggleError' \in BOOLEAN
        /\ button' \in {"absent", "unsent", "sending", "sent", "failed"}
    BY <1>11 DEF ServeIncopy
  <2>5. acts' \in Nat /\ others' \in Nat /\ failures' \in Nat /\ hasty' \in BOOLEAN
    BY <1>11 DEF ServeIncopy
  <2> QED
    BY <2>1, <2>2, <2>3, <2>4, <2>5
<1>12. ASSUME NEW r \in requests, ServeToggle(r), ~r.answered, UNCHANGED <<client, bounds>>
      PROVE TypeOK'
  <2>1. requests' \subseteq Request
    BY <1>12, ServeToggleRequests
  <2>2. /\ pages' \in Seq(Wires) /\ links' \subseteq Link /\ tasted' \subseteq Wires
        /\ overtaken' \subseteq Wires
    <3>1. r.wire \in Wires
      BY Fields
    <3> QED
      BY <1>12, <3>1 DEF ServeToggle
  <2>3. shown' \in Item /\ (shown'.id = None => shown' = NoItem) /\ url' \in Nat
    BY <1>12, Fields, LinkTyped DEF ServeToggle, Item, NoItem, Visible
  <2>4. /\ open' \in Wires \union {None} /\ error' \in BOOLEAN /\ toggleError' \in BOOLEAN
        /\ button' \in {"absent", "unsent", "sending", "sent", "failed"}
    BY <1>12 DEF ServeToggle
  <2>5. acts' \in Nat /\ others' \in Nat /\ failures' \in Nat /\ hasty' \in BOOLEAN
    BY <1>12 DEF ServeToggle
  <2> QED
    BY <2>1, <2>2, <2>3, <2>4, <2>5
<1>13. ASSUME NEW r \in requests, HearFetch(r), r.answered, UNCHANGED <<server, bounds>>
      PROVE TypeOK'
  <2>1. requests' \subseteq Request
    BY <1>13, HearFetchRequests, Fields DEF HearFetch, Show, Mount, ComposerLinks
  <2>2. /\ pages' \in Seq(Wires) /\ links' \subseteq Link /\ tasted' \subseteq Wires
        /\ overtaken' \subseteq Wires
    BY <1>13, Fields, LinkTyped, LenTyped DEF HearFetch, Show, Mount, ComposerLinks
  <2>3. shown' \in Item /\ (shown'.id = None => shown' = NoItem) /\ url' \in Nat
    <3>1. r.answer \in Item /\ r.answer.id \in Wires /\ r.answer.links \subseteq Link
      BY <1>13, Fields DEF HearFetch, RequestsAgree, RequestAgrees
    <3>2. \A l \in r.answer.links : l.page \in Nat
      BY <3>1 DEF Link
    <3>3. shown' = r.answer
      BY <1>13 DEF HearFetch, Show
    <3>4. url' \in Nat
      BY <1>13, <3>2 DEF HearFetch, Show, Mount, ComposerLinks
    <3> QED
      BY <3>1, <3>3, <3>4, ItemViewAssumption
  <2>4. /\ open' \in Wires \union {None} /\ error' \in BOOLEAN /\ toggleError' \in BOOLEAN
        /\ button' \in {"absent", "unsent", "sending", "sent", "failed"}
    BY <1>13 DEF HearFetch, Show, Mount, ComposerLinks
  <2>5. acts' \in Nat /\ others' \in Nat /\ failures' \in Nat /\ hasty' \in BOOLEAN
    BY <1>13 DEF HearFetch, Show, Mount, ComposerLinks
  <2> QED
    BY <2>1, <2>2, <2>3, <2>4, <2>5
<1>14. ASSUME NEW r \in requests, HearPoll(r), r.answered, UNCHANGED <<server, bounds>>
      PROVE TypeOK'
  <2>1. requests' \subseteq Request
    BY <1>14, HearPollShown, Fields DEF HearPoll
  <2>2. /\ pages' \in Seq(Wires) /\ links' \subseteq Link /\ tasted' \subseteq Wires
        /\ overtaken' \subseteq Wires
    BY <1>14, Fields, LinkTyped, LenTyped DEF HearPoll
  <2>3. shown' \in Item /\ (shown'.id = None => shown' = NoItem) /\ url' \in Nat
    BY <1>14, HearPollShown DEF HearPoll
  <2>4. /\ open' \in Wires \union {None} /\ error' \in BOOLEAN /\ toggleError' \in BOOLEAN
        /\ button' \in {"absent", "unsent", "sending", "sent", "failed"}
    BY <1>14 DEF HearPoll
  <2>5. acts' \in Nat /\ others' \in Nat /\ failures' \in Nat /\ hasty' \in BOOLEAN
    BY <1>14 DEF HearPoll
  <2> QED
    BY <2>1, <2>2, <2>3, <2>4, <2>5
<1>15. ASSUME NEW r \in requests, HearCreate(r), r.answered, UNCHANGED <<server, bounds>>
      PROVE TypeOK'
  <2>1. requests' \subseteq Request
    BY <1>15, HearCreateRequests, Fields DEF HearCreate
  <2>2. /\ pages' \in Seq(Wires) /\ links' \subseteq Link /\ tasted' \subseteq Wires
        /\ overtaken' \subseteq Wires
    BY <1>15, Fields, LinkTyped, LenTyped DEF HearCreate
  <2>3. shown' \in Item /\ (shown'.id = None => shown' = NoItem) /\ url' \in Nat
    BY <1>15, Fields, LinkTyped DEF HearCreate, Item, NoItem, Visible
  <2>4. /\ open' \in Wires \union {None} /\ error' \in BOOLEAN /\ toggleError' \in BOOLEAN
        /\ button' \in {"absent", "unsent", "sending", "sent", "failed"}
    BY <1>15 DEF HearCreate
  <2>5. acts' \in Nat /\ others' \in Nat /\ failures' \in Nat /\ hasty' \in BOOLEAN
    BY <1>15 DEF HearCreate
  <2> QED
    BY <2>1, <2>2, <2>3, <2>4, <2>5
<1>16. ASSUME NEW r \in requests, HearLink(r), r.answered, UNCHANGED <<server, bounds>>
      PROVE TypeOK'
  <2>1. requests' \subseteq Request
    BY <1>16, HearLinkShown, Fields DEF HearLink, WithLink
  <2>2. /\ pages' \in Seq(Wires) /\ links' \subseteq Link /\ tasted' \subseteq Wires
        /\ overtaken' \subseteq Wires
    BY <1>16, Fields, LinkTyped, LenTyped DEF HearLink, WithLink
  <2>3. shown' \in Item /\ (shown'.id = None => shown' = NoItem) /\ url' \in Nat
    BY <1>16, HearLinkShown, Fields DEF HearLink
  <2>4. /\ open' \in Wires \union {None} /\ error' \in BOOLEAN /\ toggleError' \in BOOLEAN
        /\ button' \in {"absent", "unsent", "sending", "sent", "failed"}
    BY <1>16 DEF HearLink, WithLink
  <2>5. acts' \in Nat /\ others' \in Nat /\ failures' \in Nat /\ hasty' \in BOOLEAN
    BY <1>16 DEF HearLink, WithLink
  <2> QED
    BY <2>1, <2>2, <2>3, <2>4, <2>5
<1>17. ASSUME NEW r \in requests, HearIncopy(r), r.answered, UNCHANGED <<server, bounds>>
      PROVE TypeOK'
  <2>1. requests' \subseteq Request
    BY <1>17, HearIncopyShown, Fields DEF HearIncopy, WithLink
  <2>2. /\ pages' \in Seq(Wires) /\ links' \subseteq Link /\ tasted' \subseteq Wires
        /\ overtaken' \subseteq Wires
    BY <1>17, Fields, LinkTyped, LenTyped DEF HearIncopy, WithLink
  <2>3. shown' \in Item /\ (shown'.id = None => shown' = NoItem) /\ url' \in Nat
    BY <1>17, HearIncopyShown DEF HearIncopy
  <2>4. /\ open' \in Wires \union {None} /\ error' \in BOOLEAN /\ toggleError' \in BOOLEAN
        /\ button' \in {"absent", "unsent", "sending", "sent", "failed"}
    BY <1>17 DEF HearIncopy, WithLink
  <2>5. acts' \in Nat /\ others' \in Nat /\ failures' \in Nat /\ hasty' \in BOOLEAN
    BY <1>17 DEF HearIncopy, WithLink
  <2> QED
    BY <2>1, <2>2, <2>3, <2>4, <2>5
<1>18. ASSUME NEW r \in requests, HearToggle(r), r.answered, UNCHANGED <<server, bounds>>
      PROVE TypeOK'
  <2>1. requests' \subseteq Request
    BY <1>18, HearToggleRequests, Fields DEF HearToggle, ClearToggleError
  <2>2. /\ pages' \in Seq(Wires) /\ links' \subseteq Link /\ tasted' \subseteq Wires
        /\ overtaken' \subseteq Wires
    BY <1>18, Fields, LinkTyped, LenTyped DEF HearToggle, ClearToggleError
  <2>3. shown' \in Item /\ (shown'.id = None => shown' = NoItem) /\ url' \in Nat
    BY <1>18, Fields, LinkTyped DEF HearToggle, ClearToggleError, Item, NoItem, Visible
  <2>4. /\ open' \in Wires \union {None} /\ error' \in BOOLEAN /\ toggleError' \in BOOLEAN
        /\ button' \in {"absent", "unsent", "sending", "sent", "failed"}
    BY <1>18 DEF HearToggle, ClearToggleError
  <2>5. acts' \in Nat /\ others' \in Nat /\ failures' \in Nat /\ hasty' \in BOOLEAN
    BY <1>18 DEF HearToggle, ClearToggleError
  <2> QED
    BY <2>1, <2>2, <2>3, <2>4, <2>5
<1>19. ASSUME NEW r \in requests, FailFetch(r),
              failures' = failures + 1, UNCHANGED <<server, acts, others, hasty>>
      PROVE TypeOK'
  <2>1. requests' \subseteq Request
    BY <1>19, FailFetchRequests, Fields DEF FailFetch, ShowError
  <2>2. /\ pages' \in Seq(Wires) /\ links' \subseteq Link /\ tasted' \subseteq Wires
        /\ overtaken' \subseteq Wires
    BY <1>19, Fields, LinkTyped, LenTyped DEF FailFetch, ShowError
  <2>3. shown' \in Item /\ (shown'.id = None => shown' = NoItem) /\ url' \in Nat
    BY <1>19, Fields, LinkTyped DEF FailFetch, ShowError, Item, NoItem, Visible
  <2>4. /\ open' \in Wires \union {None} /\ error' \in BOOLEAN /\ toggleError' \in BOOLEAN
        /\ button' \in {"absent", "unsent", "sending", "sent", "failed"}
    BY <1>19 DEF FailFetch, ShowError
  <2>5. acts' \in Nat /\ others' \in Nat /\ failures' \in Nat /\ hasty' \in BOOLEAN
    BY <1>19 DEF FailFetch, ShowError
  <2> QED
    BY <2>1, <2>2, <2>3, <2>4, <2>5
<1>20. ASSUME NEW r \in requests, FailSend(r),
              failures' = failures + 1, UNCHANGED <<server, acts, others, hasty>>
      PROVE TypeOK'
  <2>1. requests' \subseteq Request
    BY <1>20, Fields DEF FailSend
  <2>2. /\ pages' \in Seq(Wires) /\ links' \subseteq Link /\ tasted' \subseteq Wires
        /\ overtaken' \subseteq Wires
    BY <1>20, Fields, LinkTyped, LenTyped DEF FailSend
  <2>3. shown' \in Item /\ (shown'.id = None => shown' = NoItem) /\ url' \in Nat
    BY <1>20, Fields, LinkTyped DEF FailSend, Item, NoItem, Visible
  <2>4. /\ open' \in Wires \union {None} /\ error' \in BOOLEAN /\ toggleError' \in BOOLEAN
        /\ button' \in {"absent", "unsent", "sending", "sent", "failed"}
    BY <1>20 DEF FailSend
  <2>5. acts' \in Nat /\ others' \in Nat /\ failures' \in Nat /\ hasty' \in BOOLEAN
    BY <1>20 DEF FailSend
  <2> QED
    BY <2>1, <2>2, <2>3, <2>4, <2>5
<1>21. ASSUME NEW r \in requests, FailToggle(r),
              failures' = failures + 1, UNCHANGED <<server, acts, others, hasty>>
      PROVE TypeOK'
  <2>1. requests' \subseteq Request
    BY <1>21, Fields DEF FailToggle
  <2>2. /\ pages' \in Seq(Wires) /\ links' \subseteq Link /\ tasted' \subseteq Wires
        /\ overtaken' \subseteq Wires
    BY <1>21, Fields, LinkTyped, LenTyped DEF FailToggle
  <2>3. shown' \in Item /\ (shown'.id = None => shown' = NoItem) /\ url' \in Nat
    BY <1>21, Fields, LinkTyped DEF FailToggle, Item, NoItem, Visible
  <2>4. /\ open' \in Wires \union {None} /\ error' \in BOOLEAN /\ toggleError' \in BOOLEAN
        /\ button' \in {"absent", "unsent", "sending", "sent", "failed"}
    BY <1>21 DEF FailToggle
  <2>5. acts' \in Nat /\ others' \in Nat /\ failures' \in Nat /\ hasty' \in BOOLEAN
    BY <1>21 DEF FailToggle
  <2> QED
    BY <2>1, <2>2, <2>3, <2>4, <2>5
<1>22. ASSUME NEW r \in requests, FailQuiet(r),
              failures' = failures + 1, UNCHANGED <<server, acts, others, hasty>>
      PROVE TypeOK'
  <2>1. requests' \subseteq Request
    BY <1>22, Fields DEF FailQuiet
  <2>2. /\ pages' \in Seq(Wires) /\ links' \subseteq Link /\ tasted' \subseteq Wires
        /\ overtaken' \subseteq Wires
    BY <1>22, Fields, LinkTyped, LenTyped DEF FailQuiet
  <2>3. shown' \in Item /\ (shown'.id = None => shown' = NoItem) /\ url' \in Nat
    BY <1>22, Fields, LinkTyped DEF FailQuiet, Item, NoItem, Visible
  <2>4. /\ open' \in Wires \union {None} /\ error' \in BOOLEAN /\ toggleError' \in BOOLEAN
        /\ button' \in {"absent", "unsent", "sending", "sent", "failed"}
    BY <1>22 DEF FailQuiet
  <2>5. acts' \in Nat /\ others' \in Nat /\ failures' \in Nat /\ hasty' \in BOOLEAN
    BY <1>22 DEF FailQuiet
  <2> QED
    BY <2>1, <2>2, <2>3, <2>4, <2>5
<1>23. ASSUME UNCHANGED vars PROVE TypeOK'
  BY <1>23 DEF vars
<1>24. ASSUME NEW w \in Wires, OtherToggles(w) PROVE TypeOK'
  BY <1>24 DEF OtherToggles, OtherActs
<1> QED
  BY <1>1, <1>2, <1>3, <1>4, <1>5, <1>6, <1>7, <1>8, <1>9, <1>10, <1>11, <1>12, <1>13,
     <1>14, <1>15, <1>16, <1>17, <1>18, <1>19, <1>20, <1>21, <1>22, <1>23, <1>24 DEF Next,
     Serve, Hear, Fail

\* A link is stored with the page that was made from its item.
LEMMA LinkedStep == IInv /\ [Next]_vars => LinkedPagesAreTheirs'
<1> SUFFICES ASSUME IInv, [Next]_vars PROVE LinkedPagesAreTheirs'
  OBVIOUS
<1> USE ItemViewAssumption DEF IInv, TypeOK, server, client, bounds, Link, Tool,
        ComposerLink, RequestsAgree, RequestAgrees, LinkedPagesAreTheirs
<1>1. ASSUME NEW w \in Wires, Open(w) PROVE LinkedPagesAreTheirs'
  BY <1>1, OpenRequests DEF Open, Act
<1>2. ASSUME NEW w \in Wires, OtherSends(w) PROVE LinkedPagesAreTheirs'
  BY <1>2 DEF OtherSends, OtherActs
<1>3. ASSUME Close PROVE LinkedPagesAreTheirs'
  BY <1>3, CloseRequests DEF Close, Act
<1>4. ASSUME Send PROVE LinkedPagesAreTheirs'
  BY <1>4, SendRequests DEF Send, Act
<1>5. ASSUME SendToIncopy PROVE LinkedPagesAreTheirs'
  BY <1>5, SendToIncopyRequests DEF SendToIncopy, Act
<1>6. ASSUME Toggle PROVE LinkedPagesAreTheirs'
  BY <1>6, ToggleRequests DEF Toggle, Act
<1>7. ASSUME Poll PROVE LinkedPagesAreTheirs'
  BY <1>7, PollRequests DEF Poll
<1>8. ASSUME NEW r \in requests, ServeRead(r), ~r.answered, UNCHANGED <<client, bounds>>
      PROVE LinkedPagesAreTheirs'
  BY <1>8, ServeReadRequests DEF ServeRead
<1>9. ASSUME NEW r \in requests, ServeCreate(r), ~r.answered, UNCHANGED <<client, bounds>>
      PROVE LinkedPagesAreTheirs'
  BY <1>9, ServeCreateRequests DEF ServeCreate
<1>10. ASSUME NEW r \in requests, ServeLink(r), ~r.answered, UNCHANGED <<client, bounds>>
      PROVE LinkedPagesAreTheirs'
  BY <1>10, ServeLinkRequests DEF ServeLink
<1>11. ASSUME NEW r \in requests, ServeIncopy(r), ~r.answered, UNCHANGED <<client, bounds>>
      PROVE LinkedPagesAreTheirs'
  BY <1>11, ServeIncopyRequests DEF ServeIncopy
<1>12. ASSUME NEW r \in requests, ServeToggle(r), ~r.answered, UNCHANGED <<client, bounds>>
      PROVE LinkedPagesAreTheirs'
  BY <1>12, ServeToggleRequests DEF ServeToggle
<1>13. ASSUME NEW r \in requests, HearFetch(r), r.answered, UNCHANGED <<server, bounds>>
      PROVE LinkedPagesAreTheirs'
  BY <1>13, HearFetchRequests DEF HearFetch, Show, Mount, ComposerLinks
<1>14. ASSUME NEW r \in requests, HearPoll(r), r.answered, UNCHANGED <<server, bounds>>
      PROVE LinkedPagesAreTheirs'
  BY <1>14, HearPollShown DEF HearPoll
<1>15. ASSUME NEW r \in requests, HearCreate(r), r.answered, UNCHANGED <<server, bounds>>
      PROVE LinkedPagesAreTheirs'
  BY <1>15, HearCreateRequests DEF HearCreate
<1>16. ASSUME NEW r \in requests, HearLink(r), r.answered, UNCHANGED <<server, bounds>>
      PROVE LinkedPagesAreTheirs'
  BY <1>16, HearLinkShown DEF HearLink, WithLink
<1>17. ASSUME NEW r \in requests, HearIncopy(r), r.answered, UNCHANGED <<server, bounds>>
      PROVE LinkedPagesAreTheirs'
  BY <1>17, HearIncopyShown DEF HearIncopy, WithLink
<1>18. ASSUME NEW r \in requests, HearToggle(r), r.answered, UNCHANGED <<server, bounds>>
      PROVE LinkedPagesAreTheirs'
  BY <1>18, HearToggleRequests DEF HearToggle, ClearToggleError
<1>19. ASSUME NEW r \in requests, FailFetch(r),
              failures' = failures + 1, UNCHANGED <<server, acts, others, hasty>>
      PROVE LinkedPagesAreTheirs'
  BY <1>19, FailFetchRequests DEF FailFetch, ShowError
<1>20. ASSUME NEW r \in requests, FailSend(r),
              failures' = failures + 1, UNCHANGED <<server, acts, others, hasty>>
      PROVE LinkedPagesAreTheirs'
  BY <1>20 DEF FailSend
<1>21. ASSUME NEW r \in requests, FailToggle(r),
              failures' = failures + 1, UNCHANGED <<server, acts, others, hasty>>
      PROVE LinkedPagesAreTheirs'
  BY <1>21 DEF FailToggle
<1>22. ASSUME NEW r \in requests, FailQuiet(r),
              failures' = failures + 1, UNCHANGED <<server, acts, others, hasty>>
      PROVE LinkedPagesAreTheirs'
  BY <1>22 DEF FailQuiet
<1>23. ASSUME UNCHANGED vars PROVE LinkedPagesAreTheirs'
  BY <1>23 DEF vars
<1>24. ASSUME NEW w \in Wires, OtherToggles(w) PROVE LinkedPagesAreTheirs'
  BY <1>24 DEF OtherToggles, OtherActs
<1> QED
  BY <1>1, <1>2, <1>3, <1>4, <1>5, <1>6, <1>7, <1>8, <1>9, <1>10, <1>11, <1>12, <1>13,
     <1>14, <1>15, <1>16, <1>17, <1>18, <1>19, <1>20, <1>21, <1>22, <1>23, <1>24 DEF Next,
     Serve, Hear, Fail

\* More links and pages, and the same item in view, leave requests in agreement.
LEMMA AgreementLasts ==
    ASSUME TypeOK, RequestsAgree, requests' \subseteq requests, links \subseteq links',
           \A p \in DOMAIN pages : p \in DOMAIN pages' /\ pages'[p] = pages[p],
           Visible => Visible', shown'.id = shown.id
    PROVE  RequestsAgree'
<1> SUFFICES ASSUME NEW q \in requests' PROVE RequestAgrees(q)'
  BY DEF RequestsAgree
<1>1. RequestAgrees(q)
  BY DEF RequestsAgree
<1>2. LinksOf(q.wire) \subseteq LinksOf(q.wire)'
  BY DEF LinksOf
<1>3. q.kind = "fetch" /\ q.answered =>
          q.answer.id = q.wire /\ q.answer.links \subseteq LinksOf(q.wire)'
  BY <1>1, <1>2 DEF RequestAgrees
<1>4. (q.kind = "link" \/ (q.kind = "create" /\ q.answered)) =>
          q.page \in DOMAIN pages' /\ pages'[q.page] = q.wire
  BY <1>1 DEF RequestAgrees
<1>5. q.kind = "link" /\ q.answered => ComposerLink(q.wire, q.page) \in links'
  BY <1>1 DEF RequestAgrees
<1>6. q.kind \in {"create", "link"} /\ q.heard = "button" => Visible' /\ q.wire = shown'.id
  BY <1>1 DEF RequestAgrees
<1> QED
  BY <1>1, <1>3, <1>4, <1>5, <1>6 DEF RequestAgrees

\* Requests agree with what is stored and shown.
LEMMA RequestsStep == IInv /\ [Next]_vars => RequestsAgree'
<1> SUFFICES ASSUME IInv, [Next]_vars PROVE RequestsAgree'
  OBVIOUS
<1> USE ItemViewAssumption DEF IInv, TypeOK, server, client, bounds, RequestsAgree,
        RequestAgrees, Visible, LinksOf
<1>1. ASSUME NEW w \in Wires, Open(w) PROVE RequestsAgree'
  BY <1>1, OpenRequests, LinkTyped, Fields DEF Open, Act
<1>2. ASSUME NEW w \in Wires, OtherSends(w) PROVE RequestsAgree'
  <2>1. \A p \in DOMAIN pages : p \in DOMAIN pages' /\ pages'[p] = pages[p]
    BY <1>2, LenTyped DEF OtherSends
  <2>2. links \subseteq links' /\ UNCHANGED <<shown, error, requests>>
    BY <1>2 DEF OtherSends, OtherActs
  <2> QED
    BY <2>1, <2>2, AgreementLasts
<1>3. ASSUME Close PROVE RequestsAgree'
  <2> SUFFICES ASSUME NEW q \in requests' PROVE RequestAgrees(q)'
    BY DEF RequestsAgree
  <2>1. PICK p \in requests : p.kind = q.kind /\ p.wire = q.wire /\ p.answered = q.answered
                              /\ p.page = q.page /\ p.refresh = q.refresh
    BY <1>3, CloseRequests
  <2>2. q.heard = "nobody" /\ q.kind \notin {"fetch", "poll"}
    BY <1>3, CloseRequests
  <2> QED
    BY <1>3, <2>1, <2>2 DEF Close, Act
<1>4. ASSUME Send PROVE RequestsAgree'
  BY <1>4, SendRequests, LinkTyped, Fields DEF Send, Act
<1>5. ASSUME SendToIncopy PROVE RequestsAgree'
  BY <1>5, SendToIncopyRequests, LinkTyped, Fields DEF SendToIncopy, Act
<1>6. ASSUME Toggle PROVE RequestsAgree'
  BY <1>6, ToggleRequests, LinkTyped, Fields DEF Toggle, Act, NothingOpen
<1>7. ASSUME Poll PROVE RequestsAgree'
  BY <1>7, PollRequests, LinkTyped, Fields DEF Poll
<1>8. ASSUME NEW r \in requests, ServeRead(r), ~r.answered, UNCHANGED <<client, bounds>>
      PROVE RequestsAgree'
  <2> SUFFICES ASSUME NEW q \in requests' PROVE RequestAgrees(q)'
    BY DEF RequestsAgree
  <2>1. PICK p \in Request :
             /\ requests' = (requests \ {r}) \union {p}
             /\ p.kind = r.kind /\ p.wire = r.wire /\ p.heard = r.heard /\ p.answered
             /\ p.kind \in {"fetch", "poll"} /\ p.answer.links = LinksOf(r.wire)
             /\ p.kind = "fetch" => p.answer.id = r.wire
    BY <1>8, ServeReadRequests
  <2>2. CASE q \in requests
    BY <1>8, <2>2 DEF ServeRead
  <2>3. CASE q = p
    BY <1>8, <2>1, <2>3 DEF ServeRead
  <2> QED
    BY <2>1, <2>2, <2>3
<1>9. ASSUME NEW r \in requests, ServeCreate(r), ~r.answered, UNCHANGED <<client, bounds>>
      PROVE RequestsAgree'
  BY <1>9, ServeCreateRequests, LinkTyped, Fields DEF ServeCreate
<1>10. ASSUME NEW r \in requests, ServeLink(r), ~r.answered, UNCHANGED <<client, bounds>>
      PROVE RequestsAgree'
  BY <1>10, ServeLinkRequests, LinkTyped, Fields DEF ServeLink
<1>11. ASSUME NEW r \in requests, ServeIncopy(r), ~r.answered, UNCHANGED <<client, bounds>>
      PROVE RequestsAgree'
  BY <1>11, ServeIncopyRequests, LinkTyped, Fields DEF ServeIncopy
<1>12. ASSUME NEW r \in requests, ServeToggle(r), ~r.answered, UNCHANGED <<client, bounds>>
      PROVE RequestsAgree'
  <2> SUFFICES ASSUME NEW q \in requests' PROVE RequestAgrees(q)'
    BY DEF RequestsAgree
  <2>1. PICK p \in Request :
             /\ requests' = (requests \ {r}) \union {p}
             /\ p.kind = r.kind /\ p.refresh = r.refresh
    BY <1>12, ServeToggleRequests
  <2>2. CASE q \in requests
    BY <1>12, <2>2 DEF ServeToggle
  <2>3. CASE q = p
    BY <1>12, <2>1, <2>3 DEF ServeToggle
  <2> QED
    BY <2>1, <2>2, <2>3
<1>13. ASSUME NEW r \in requests, HearFetch(r), r.answered, UNCHANGED <<server, bounds>>
      PROVE RequestsAgree'
  <2> SUFFICES ASSUME NEW q \in requests' PROVE RequestAgrees(q)'
    BY DEF RequestsAgree
  <2>1. PICK p \in requests :
             /\ p # r
             /\ p.kind = q.kind /\ p.wire = q.wire /\ p.answered = q.answered
             /\ p.page = q.page /\ p.refresh = q.refresh /\ p.answer = q.answer
             /\ p.kind \in {"create", "link"} /\ q.heard = "button" =>
                   p.heard = "button" /\ Visible /\ shown.id = r.answer.id
    BY <1>13, HearFetchRequests
  <2>2. r.answer.id \in Wires /\ shown' = r.answer /\ ~error'
    BY <1>13, Fields DEF HearFetch, Show
  <2>3. Visible'
    BY <2>2, NoItemTyped
  <2> QED
    BY <1>13, <2>1, <2>2, <2>3
<1>14. ASSUME NEW r \in requests, HearPoll(r), r.answered, UNCHANGED <<server, bounds>>
      PROVE RequestsAgree'
  <2>1. requests' \subseteq requests /\ UNCHANGED <<pages, links, error>>
    BY <1>14 DEF HearPoll
  <2>2. shown'.id = shown.id /\ (shown' = NoItem <=> shown = NoItem)
    BY <1>14, HearPollShown
  <2> QED
    BY <2>1, <2>2, AgreementLasts
<1>15. ASSUME NEW r \in requests, HearCreate(r), r.answered, UNCHANGED <<server, bounds>>
      PROVE RequestsAgree'
  BY <1>15, HearCreateRequests, LinkTyped, Fields DEF HearCreate
<1>16. ASSUME NEW r \in requests, HearLink(r), r.answered, UNCHANGED <<server, bounds>>
      PROVE RequestsAgree'
  <2>1. requests' \subseteq requests /\ UNCHANGED <<pages, links, error>>
    BY <1>16 DEF HearLink
  <2>2. shown'.id = shown.id /\ (shown' = NoItem <=> shown = NoItem)
    BY <1>16, HearLinkShown
  <2> QED
    BY <2>1, <2>2, AgreementLasts
<1>17. ASSUME NEW r \in requests, HearIncopy(r), r.answered, UNCHANGED <<server, bounds>>
      PROVE RequestsAgree'
  <2>1. requests' \subseteq requests /\ UNCHANGED <<pages, links, error>>
    BY <1>17 DEF HearIncopy
  <2>2. shown'.id = shown.id /\ (shown' = NoItem <=> shown = NoItem)
    BY <1>17, HearIncopyShown
  <2> QED
    BY <2>1, <2>2, AgreementLasts
<1>18. ASSUME NEW r \in requests, HearToggle(r), r.answered, UNCHANGED <<server, bounds>>
      PROVE RequestsAgree'
  BY <1>18, HearToggleRequests, LinkTyped, Fields DEF HearToggle, ClearToggleError
<1>19. ASSUME NEW r \in requests, FailFetch(r),
              failures' = failures + 1, UNCHANGED <<server, acts, others, hasty>>
      PROVE RequestsAgree'
  <2> SUFFICES ASSUME NEW q \in requests' PROVE RequestAgrees(q)'
    BY DEF RequestsAgree
  <2>1. PICK p \in requests :
             /\ p.kind = q.kind /\ p.wire = q.wire /\ p.answered = q.answered
             /\ p.page = q.page /\ p.refresh = q.refresh /\ p.answer = q.answer
    BY <1>19, FailFetchRequests
  <2>2. q.heard # "button"
    BY <1>19, FailFetchRequests
  <2> QED
    BY <1>19, <2>1, <2>2 DEF FailFetch, ShowError
<1>20. ASSUME NEW r \in requests, FailSend(r),
              failures' = failures + 1, UNCHANGED <<server, acts, others, hasty>>
      PROVE RequestsAgree'
  BY <1>20, LinkTyped, Fields DEF FailSend
<1>21. ASSUME NEW r \in requests, FailToggle(r),
              failures' = failures + 1, UNCHANGED <<server, acts, others, hasty>>
      PROVE RequestsAgree'
  BY <1>21, LinkTyped, Fields DEF FailToggle
<1>22. ASSUME NEW r \in requests, FailQuiet(r),
              failures' = failures + 1, UNCHANGED <<server, acts, others, hasty>>
      PROVE RequestsAgree'
  BY <1>22, LinkTyped, Fields DEF FailQuiet
<1>23. ASSUME UNCHANGED vars PROVE RequestsAgree'
  BY <1>23 DEF vars
<1>24. ASSUME NEW w \in Wires, OtherToggles(w) PROVE RequestsAgree'
  BY <1>24 DEF OtherToggles, OtherActs
<1> QED
  BY <1>1, <1>2, <1>3, <1>4, <1>5, <1>6, <1>7, <1>8, <1>9, <1>10, <1>11, <1>12, <1>13,
     <1>14, <1>15, <1>16, <1>17, <1>18, <1>19, <1>20, <1>21, <1>22, <1>23, <1>24 DEF Next,
     Serve, Hear, Fail

\* Without an item open, nothing is shown or heard.
LEMMA NothingStep == IInv /\ [Next]_vars => NothingOpen'
<1> SUFFICES ASSUME IInv, [Next]_vars PROVE NothingOpen'
  OBVIOUS
<1> USE ItemViewAssumption DEF IInv, TypeOK, server, client, bounds, NothingOpen,
        Visible
<1>1. ASSUME NEW w \in Wires, Open(w) PROVE NothingOpen'
  BY <1>1, OpenRequests DEF Open, Act
<1>2. ASSUME NEW w \in Wires, OtherSends(w) PROVE NothingOpen'
  BY <1>2 DEF OtherSends, OtherActs
<1>3. ASSUME Close PROVE NothingOpen'
  BY <1>3, CloseRequests DEF Close, Act
<1>4. ASSUME Send PROVE NothingOpen'
  BY <1>4, SendRequests DEF Send, Act
<1>5. ASSUME SendToIncopy PROVE NothingOpen'
  BY <1>5, SendToIncopyRequests DEF SendToIncopy, Act
<1>6. ASSUME Toggle PROVE NothingOpen'
  BY <1>6, ToggleRequests DEF Toggle, Act
<1>7. ASSUME Poll PROVE NothingOpen'
  BY <1>7, PollRequests DEF Poll
<1>8. ASSUME NEW r \in requests, ServeRead(r), ~r.answered, UNCHANGED <<client, bounds>>
      PROVE NothingOpen'
  BY <1>8, ServeReadRequests DEF ServeRead
<1>9. ASSUME NEW r \in requests, ServeCreate(r), ~r.answered, UNCHANGED <<client, bounds>>
      PROVE NothingOpen'
  BY <1>9, ServeCreateRequests DEF ServeCreate
<1>10. ASSUME NEW r \in requests, ServeLink(r), ~r.answered, UNCHANGED <<client, bounds>>
      PROVE NothingOpen'
  BY <1>10, ServeLinkRequests DEF ServeLink
<1>11. ASSUME NEW r \in requests, ServeIncopy(r), ~r.answered, UNCHANGED <<client, bounds>>
      PROVE NothingOpen'
  BY <1>11, ServeIncopyRequests DEF ServeIncopy
<1>12. ASSUME NEW r \in requests, ServeToggle(r), ~r.answered, UNCHANGED <<client, bounds>>
      PROVE NothingOpen'
  BY <1>12, ServeToggleRequests DEF ServeToggle
<1>13. ASSUME NEW r \in requests, HearFetch(r), r.answered, UNCHANGED <<server, bounds>>
      PROVE NothingOpen'
  BY <1>13, HearFetchRequests DEF HearFetch, Show, Mount, ComposerLinks
<1>14. ASSUME NEW r \in requests, HearPoll(r), r.answered, UNCHANGED <<server, bounds>>
      PROVE NothingOpen'
  BY <1>14, HearPollShown DEF HearPoll
<1>15. ASSUME NEW r \in requests, HearCreate(r), r.answered, UNCHANGED <<server, bounds>>
      PROVE NothingOpen'
  BY <1>15, HearCreateRequests DEF HearCreate
<1>16. ASSUME NEW r \in requests, HearLink(r), r.answered, UNCHANGED <<server, bounds>>
      PROVE NothingOpen'
  BY <1>16, HearLinkShown DEF HearLink, WithLink
<1>17. ASSUME NEW r \in requests, HearIncopy(r), r.answered, UNCHANGED <<server, bounds>>
      PROVE NothingOpen'
  BY <1>17, HearIncopyShown DEF HearIncopy, WithLink
<1>18. ASSUME NEW r \in requests, HearToggle(r), r.answered, UNCHANGED <<server, bounds>>
      PROVE NothingOpen'
  BY <1>18, HearToggleRequests DEF HearToggle, ClearToggleError
<1>19. ASSUME NEW r \in requests, FailFetch(r),
              failures' = failures + 1, UNCHANGED <<server, acts, others, hasty>>
      PROVE NothingOpen'
  BY <1>19, FailFetchRequests DEF FailFetch, ShowError
<1>20. ASSUME NEW r \in requests, FailSend(r),
              failures' = failures + 1, UNCHANGED <<server, acts, others, hasty>>
      PROVE NothingOpen'
  BY <1>20 DEF FailSend
<1>21. ASSUME NEW r \in requests, FailToggle(r),
              failures' = failures + 1, UNCHANGED <<server, acts, others, hasty>>
      PROVE NothingOpen'
  BY <1>21 DEF FailToggle
<1>22. ASSUME NEW r \in requests, FailQuiet(r),
              failures' = failures + 1, UNCHANGED <<server, acts, others, hasty>>
      PROVE NothingOpen'
  BY <1>22 DEF FailQuiet
<1>23. ASSUME UNCHANGED vars PROVE NothingOpen'
  BY <1>23 DEF vars
<1>24. ASSUME NEW w \in Wires, OtherToggles(w) PROVE NothingOpen'
  BY <1>24 DEF OtherToggles, OtherActs
<1> QED
  BY <1>1, <1>2, <1>3, <1>4, <1>5, <1>6, <1>7, <1>8, <1>9, <1>10, <1>11, <1>12, <1>13,
     <1>14, <1>15, <1>16, <1>17, <1>18, <1>19, <1>20, <1>21, <1>22, <1>23, <1>24 DEF Next,
     Serve, Hear, Fail

\* The button that says sent leads to a stored link.
LEMMA SentStep == IInv /\ [Next]_vars => SentMeansStored'
<1> SUFFICES ASSUME IInv, [Next]_vars PROVE SentMeansStored'
  OBVIOUS
<1> USE ItemViewAssumption DEF IInv, TypeOK, server, client, bounds, RequestsAgree,
        RequestAgrees, SentMeansStored, Visible, LinksOf
<1>1. ASSUME NEW w \in Wires, Open(w) PROVE SentMeansStored'
  BY <1>1, OpenRequests DEF Open, Act
<1>2. ASSUME NEW w \in Wires, OtherSends(w) PROVE SentMeansStored'
  BY <1>2 DEF OtherSends, OtherActs
<1>3. ASSUME Close PROVE SentMeansStored'
  BY <1>3, CloseRequests DEF Close, Act
<1>4. ASSUME Send PROVE SentMeansStored'
  BY <1>4, SendRequests DEF Send, Act
<1>5. ASSUME SendToIncopy PROVE SentMeansStored'
  BY <1>5, SendToIncopyRequests DEF SendToIncopy, Act
<1>6. ASSUME Toggle PROVE SentMeansStored'
  BY <1>6, ToggleRequests DEF Toggle, Act
<1>7. ASSUME Poll PROVE SentMeansStored'
  BY <1>7, PollRequests DEF Poll
<1>8. ASSUME NEW r \in requests, ServeRead(r), ~r.answered, UNCHANGED <<client, bounds>>
      PROVE SentMeansStored'
  BY <1>8, ServeReadRequests DEF ServeRead
<1>9. ASSUME NEW r \in requests, ServeCreate(r), ~r.answered, UNCHANGED <<client, bounds>>
      PROVE SentMeansStored'
  BY <1>9, ServeCreateRequests DEF ServeCreate
<1>10. ASSUME NEW r \in requests, ServeLink(r), ~r.answered, UNCHANGED <<client, bounds>>
      PROVE SentMeansStored'
  BY <1>10, ServeLinkRequests DEF ServeLink
<1>11. ASSUME NEW r \in requests, ServeIncopy(r), ~r.answered, UNCHANGED <<client, bounds>>
      PROVE SentMeansStored'
  BY <1>11, ServeIncopyRequests DEF ServeIncopy
<1>12. ASSUME NEW r \in requests, ServeToggle(r), ~r.answered, UNCHANGED <<client, bounds>>
      PROVE SentMeansStored'
  BY <1>12, ServeToggleRequests DEF ServeToggle
<1>13. ASSUME NEW r \in requests, HearFetch(r), r.answered, UNCHANGED <<server, bounds>>
      PROVE SentMeansStored'
  <2> SUFFICES ASSUME button' = "sent" PROVE ComposerLink(shown'.id, url') \in links
    BY <1>13 DEF SentMeansStored
  <2>1. CASE Visible /\ shown.id = r.answer.id
    BY <1>13, <2>1 DEF HearFetch, Show
  <2>2. CASE ~(Visible /\ shown.id = r.answer.id)
    <3>1. PICK l \in ComposerLinks(r.answer.links) : url' = l.page
      BY <1>13, <2>2 DEF HearFetch, Show, Mount
    <3>2. l \in links /\ l.wire = r.answer.id /\ l.tool = "composer"
      BY <1>13, <3>1 DEF HearFetch, ComposerLinks
    <3>3. l = ComposerLink(r.answer.id, l.page)
      BY <3>2 DEF Link, ComposerLink
    <3> QED
      BY <1>13, <3>1, <3>2, <3>3 DEF HearFetch, Show
  <2> QED
    BY <2>1, <2>2
<1>14. ASSUME NEW r \in requests, HearPoll(r), r.answered, UNCHANGED <<server, bounds>>
      PROVE SentMeansStored'
  BY <1>14, HearPollShown DEF HearPoll
<1>15. ASSUME NEW r \in requests, HearCreate(r), r.answered, UNCHANGED <<server, bounds>>
      PROVE SentMeansStored'
  BY <1>15, HearCreateRequests DEF HearCreate
<1>16. ASSUME NEW r \in requests, HearLink(r), r.answered, UNCHANGED <<server, bounds>>
      PROVE SentMeansStored'
  <2>1. r.heard = "button" => r.wire = shown.id /\ ComposerLink(r.wire, r.page) \in links
    BY <1>16 DEF HearLink
  <2>2. shown'.id = shown.id
    BY <1>16, HearLinkShown
  <2>3. CASE r.heard = "button"
    BY <1>16, <2>1, <2>2, <2>3 DEF HearLink
  <2>4. CASE r.heard # "button"
    BY <1>16, <2>2, <2>4 DEF HearLink
  <2> QED
    BY <2>3, <2>4
<1>17. ASSUME NEW r \in requests, HearIncopy(r), r.answered, UNCHANGED <<server, bounds>>
      PROVE SentMeansStored'
  BY <1>17, HearIncopyShown DEF HearIncopy, WithLink
<1>18. ASSUME NEW r \in requests, HearToggle(r), r.answered, UNCHANGED <<server, bounds>>
      PROVE SentMeansStored'
  BY <1>18, HearToggleRequests DEF HearToggle, ClearToggleError
<1>19. ASSUME NEW r \in requests, FailFetch(r),
              failures' = failures + 1, UNCHANGED <<server, acts, others, hasty>>
      PROVE SentMeansStored'
  BY <1>19, FailFetchRequests DEF FailFetch, ShowError
<1>20. ASSUME NEW r \in requests, FailSend(r),
              failures' = failures + 1, UNCHANGED <<server, acts, others, hasty>>
      PROVE SentMeansStored'
  BY <1>20 DEF FailSend
<1>21. ASSUME NEW r \in requests, FailToggle(r),
              failures' = failures + 1, UNCHANGED <<server, acts, others, hasty>>
      PROVE SentMeansStored'
  BY <1>21 DEF FailToggle
<1>22. ASSUME NEW r \in requests, FailQuiet(r),
              failures' = failures + 1, UNCHANGED <<server, acts, others, hasty>>
      PROVE SentMeansStored'
  BY <1>22 DEF FailQuiet
<1>23. ASSUME UNCHANGED vars PROVE SentMeansStored'
  BY <1>23 DEF vars
<1>24. ASSUME NEW w \in Wires, OtherToggles(w) PROVE SentMeansStored'
  BY <1>24 DEF OtherToggles, OtherActs
<1> QED
  BY <1>1, <1>2, <1>3, <1>4, <1>5, <1>6, <1>7, <1>8, <1>9, <1>10, <1>11, <1>12, <1>13,
     <1>14, <1>15, <1>16, <1>17, <1>18, <1>19, <1>20, <1>21, <1>22, <1>23, <1>24 DEF Next,
     Serve, Hear, Fail

\* Who awaits each answer has one request out.
LEMMA AwaitedStep == IInv /\ [Next]_vars => OneAwaited'
<1> SUFFICES ASSUME IInv, [Next]_vars PROVE OneAwaited'
  OBVIOUS
<1> USE ItemViewAssumption DEF IInv, TypeOK, server, client, bounds, OneAwaited,
        Awaited, Outstanding, Visible, ShownIsOpen
<1>1. ASSUME NEW w \in Wires, Open(w) PROVE OneAwaited'
  <2> SUFFICES ASSUME ~hasty' PROVE OneAwaited'
    BY DEF OneAwaited
  <2>1. \A p \in requests : p.kind \notin {"fetch", "toggle"}
    BY <1>1 DEF Open, Act
  <2> QED
    BY <1>1, OpenRequests, <2>1 DEF Open, Act
<1>2. ASSUME NEW w \in Wires, OtherSends(w) PROVE OneAwaited'
  BY <1>2 DEF OtherSends, OtherActs
<1>3. ASSUME Close PROVE OneAwaited'
  <2> SUFFICES ASSUME ~hasty' PROVE OneAwaited'
    BY DEF OneAwaited
  <2>1. \A p \in requests : p.kind \notin {"fetch", "toggle"}
    BY <1>3 DEF Close, Act
  <2>2. \A q \in requests' : q.kind \notin {"fetch", "toggle"}
    BY <1>3, CloseRequests, <2>1
  <2> QED
    BY <2>2
<1>4. ASSUME Send PROVE OneAwaited'
  BY <1>4, SendRequests DEF Send, Act
<1>5. ASSUME SendToIncopy PROVE OneAwaited'
  BY <1>5, SendToIncopyRequests DEF SendToIncopy, Act
<1>6. ASSUME Toggle PROVE OneAwaited'
  BY <1>6, ToggleRequests DEF Toggle, Act
<1>7. ASSUME Poll PROVE OneAwaited'
  BY <1>7, PollRequests DEF Poll
<1>8. ASSUME NEW r \in requests, ServeRead(r), ~r.answered, UNCHANGED <<client, bounds>>
      PROVE OneAwaited'
  <2> SUFFICES ASSUME ~hasty' PROVE OneAwaited'
    BY DEF OneAwaited
  <2>1. PICK p \in Request :
             /\ requests' = (requests \ {r}) \union {p}
             /\ p.kind = r.kind /\ p.wire = r.wire /\ p.heard = r.heard
             /\ p.kind \in {"fetch", "poll"}
             /\ p.kind = "fetch" => (p.answer.tasted <=> r.wire \in tasted)
    BY <1>8, ServeReadRequests
  <2> QED
    BY <1>8, <2>1 DEF ServeRead
<1>9. ASSUME NEW r \in requests, ServeCreate(r), ~r.answered, UNCHANGED <<client, bounds>>
      PROVE OneAwaited'
  BY <1>9, ServeCreateRequests DEF ServeCreate
<1>10. ASSUME NEW r \in requests, ServeLink(r), ~r.answered, UNCHANGED <<client, bounds>>
      PROVE OneAwaited'
  BY <1>10, ServeLinkRequests DEF ServeLink
<1>11. ASSUME NEW r \in requests, ServeIncopy(r), ~r.answered, UNCHANGED <<client, bounds>>
      PROVE OneAwaited'
  BY <1>11, ServeIncopyRequests DEF ServeIncopy
<1>12. ASSUME NEW r \in requests, ServeToggle(r), ~r.answered, UNCHANGED <<client, bounds>>
      PROVE OneAwaited'
  <2> SUFFICES ASSUME ~hasty' PROVE OneAwaited'
    BY DEF OneAwaited
  <2>1. PICK p \in Request :
             /\ requests' = (requests \ {r}) \union {p}
             /\ p.kind = r.kind /\ p.wire = r.wire /\ p.heard = r.heard
             /\ p.refresh = r.refresh
    BY <1>12, ServeToggleRequests
  <2>2. r.kind = "toggle"
    BY <1>12 DEF ServeToggle
  <2>3. UNCHANGED <<open, shown, error, hasty>>
    BY <1>12
  <2>4. \A q \in requests' : q.kind \in {"fetch", "toggle"} => q = p
    BY <2>1, <2>2, <2>3
  <2> QED
    BY <2>1, <2>2, <2>3, <2>4
<1>13. ASSUME NEW r \in requests, HearFetch(r), r.answered, UNCHANGED <<server, bounds>>
      PROVE OneAwaited'
  <2> SUFFICES ASSUME ~hasty' PROVE OneAwaited'
    BY DEF OneAwaited
  <2>1. r.kind = "fetch" /\ ~hasty
    BY <1>13 DEF HearFetch
  <2>2. \A q \in requests' : q.kind \notin {"fetch", "toggle"}
    BY <1>13, HearFetchRequests, <2>1
  <2> QED
    BY <2>2
<1>14. ASSUME NEW r \in requests, HearPoll(r), r.answered, UNCHANGED <<server, bounds>>
      PROVE OneAwaited'
  BY <1>14, HearPollShown DEF HearPoll
<1>15. ASSUME NEW r \in requests, HearCreate(r), r.answered, UNCHANGED <<server, bounds>>
      PROVE OneAwaited'
  BY <1>15, HearCreateRequests DEF HearCreate
<1>16. ASSUME NEW r \in requests, HearLink(r), r.answered, UNCHANGED <<server, bounds>>
      PROVE OneAwaited'
  BY <1>16, HearLinkShown DEF HearLink, WithLink
<1>17. ASSUME NEW r \in requests, HearIncopy(r), r.answered, UNCHANGED <<server, bounds>>
      PROVE OneAwaited'
  BY <1>17, HearIncopyShown DEF HearIncopy, WithLink
<1>18. ASSUME NEW r \in requests, HearToggle(r), r.answered, UNCHANGED <<server, bounds>>
      PROVE OneAwaited'
  BY <1>18, HearToggleRequests DEF HearToggle, ClearToggleError
<1>19. ASSUME NEW r \in requests, FailFetch(r),
              failures' = failures + 1, UNCHANGED <<server, acts, others, hasty>>
      PROVE OneAwaited'
  <2> SUFFICES ASSUME ~hasty' PROVE OneAwaited'
    BY DEF OneAwaited
  <2>1. r.kind = "fetch" /\ ~hasty
    BY <1>19 DEF FailFetch
  <2>2. \A q \in requests' : q.kind \notin {"fetch", "toggle"}
    BY <1>19, FailFetchRequests, <2>1
  <2> QED
    BY <2>2
<1>20. ASSUME NEW r \in requests, FailSend(r),
              failures' = failures + 1, UNCHANGED <<server, acts, others, hasty>>
      PROVE OneAwaited'
  BY <1>20 DEF FailSend
<1>21. ASSUME NEW r \in requests, FailToggle(r),
              failures' = failures + 1, UNCHANGED <<server, acts, others, hasty>>
      PROVE OneAwaited'
  BY <1>21 DEF FailToggle
<1>22. ASSUME NEW r \in requests, FailQuiet(r),
              failures' = failures + 1, UNCHANGED <<server, acts, others, hasty>>
      PROVE OneAwaited'
  BY <1>22 DEF FailQuiet
<1>23. ASSUME UNCHANGED vars PROVE OneAwaited'
  BY <1>23 DEF vars
<1>24. ASSUME NEW w \in Wires, OtherToggles(w) PROVE OneAwaited'
  BY <1>24 DEF OtherToggles, OtherActs
<1> QED
  BY <1>1, <1>2, <1>3, <1>4, <1>5, <1>6, <1>7, <1>8, <1>9, <1>10, <1>11, <1>12, <1>13,
     <1>14, <1>15, <1>16, <1>17, <1>18, <1>19, <1>20, <1>21, <1>22, <1>23, <1>24 DEF Next,
     Serve, Hear, Fail

\* Who awaits each item sees the open one.
LEMMA OpenStep == IInv /\ [Next]_vars => ShownIsOpen'
<1> SUFFICES ASSUME IInv, [Next]_vars PROVE ShownIsOpen'
  OBVIOUS
<1> USE ItemViewAssumption DEF IInv, TypeOK, server, client, bounds, OneAwaited,
        Awaited, Outstanding, Visible, ShownIsOpen, RequestsAgree, RequestAgrees
<1>1. ASSUME NEW w \in Wires, Open(w) PROVE ShownIsOpen'
  BY <1>1, OpenRequests DEF Open, Act
<1>2. ASSUME NEW w \in Wires, OtherSends(w) PROVE ShownIsOpen'
  BY <1>2 DEF OtherSends, OtherActs
<1>3. ASSUME Close PROVE ShownIsOpen'
  <2>1. shown'.id = None /\ open' = None
    BY <1>3, NoItemTyped DEF Close
  <2> QED
    BY <2>1
<1>4. ASSUME Send PROVE ShownIsOpen'
  BY <1>4, SendRequests DEF Send, Act
<1>5. ASSUME SendToIncopy PROVE ShownIsOpen'
  BY <1>5, SendToIncopyRequests DEF SendToIncopy, Act
<1>6. ASSUME Toggle PROVE ShownIsOpen'
  BY <1>6, ToggleRequests DEF Toggle, Act
<1>7. ASSUME Poll PROVE ShownIsOpen'
  BY <1>7, PollRequests DEF Poll
<1>8. ASSUME NEW r \in requests, ServeRead(r), ~r.answered, UNCHANGED <<client, bounds>>
      PROVE ShownIsOpen'
  <2>1. PICK p \in Request :
             requests' = (requests \ {r}) \union {p} /\ p.kind = r.kind
    BY <1>8, ServeReadRequests
  <2>2. UNCHANGED <<open, shown, error, hasty>>
    BY <1>8
  <2>3. Outstanding({"fetch"})' = {} => Outstanding({"fetch"}) = {}
    BY <2>1
  <2> QED
    BY <2>2, <2>3
<1>9. ASSUME NEW r \in requests, ServeCreate(r), ~r.answered, UNCHANGED <<client, bounds>>
      PROVE ShownIsOpen'
  BY <1>9, ServeCreateRequests DEF ServeCreate
<1>10. ASSUME NEW r \in requests, ServeLink(r), ~r.answered, UNCHANGED <<client, bounds>>
      PROVE ShownIsOpen'
  BY <1>10, ServeLinkRequests DEF ServeLink
<1>11. ASSUME NEW r \in requests, ServeIncopy(r), ~r.answered, UNCHANGED <<client, bounds>>
      PROVE ShownIsOpen'
  BY <1>11, ServeIncopyRequests DEF ServeIncopy
<1>12. ASSUME NEW r \in requests, ServeToggle(r), ~r.answered, UNCHANGED <<client, bounds>>
      PROVE ShownIsOpen'
  BY <1>12, ServeToggleRequests DEF ServeToggle
<1>13. ASSUME NEW r \in requests, HearFetch(r), r.answered, UNCHANGED <<server, bounds>>
      PROVE ShownIsOpen'
  BY <1>13, HearFetchRequests DEF HearFetch, Show, Mount, ComposerLinks
<1>14. ASSUME NEW r \in requests, HearPoll(r), r.answered, UNCHANGED <<server, bounds>>
      PROVE ShownIsOpen'
  BY <1>14, HearPollShown DEF HearPoll
<1>15. ASSUME NEW r \in requests, HearCreate(r), r.answered, UNCHANGED <<server, bounds>>
      PROVE ShownIsOpen'
  BY <1>15, HearCreateRequests DEF HearCreate
<1>16. ASSUME NEW r \in requests, HearLink(r), r.answered, UNCHANGED <<server, bounds>>
      PROVE ShownIsOpen'
  BY <1>16, HearLinkShown DEF HearLink, WithLink
<1>17. ASSUME NEW r \in requests, HearIncopy(r), r.answered, UNCHANGED <<server, bounds>>
      PROVE ShownIsOpen'
  BY <1>17, HearIncopyShown DEF HearIncopy, WithLink
<1>18. ASSUME NEW r \in requests, HearToggle(r), r.answered, UNCHANGED <<server, bounds>>
      PROVE ShownIsOpen'
  BY <1>18, HearToggleRequests DEF HearToggle, ClearToggleError
<1>19. ASSUME NEW r \in requests, FailFetch(r),
              failures' = failures + 1, UNCHANGED <<server, acts, others, hasty>>
      PROVE ShownIsOpen'
  BY <1>19, FailFetchRequests DEF FailFetch, ShowError
<1>20. ASSUME NEW r \in requests, FailSend(r),
              failures' = failures + 1, UNCHANGED <<server, acts, others, hasty>>
      PROVE ShownIsOpen'
  BY <1>20 DEF FailSend
<1>21. ASSUME NEW r \in requests, FailToggle(r),
              failures' = failures + 1, UNCHANGED <<server, acts, others, hasty>>
      PROVE ShownIsOpen'
  BY <1>21 DEF FailToggle
<1>22. ASSUME NEW r \in requests, FailQuiet(r),
              failures' = failures + 1, UNCHANGED <<server, acts, others, hasty>>
      PROVE ShownIsOpen'
  BY <1>22 DEF FailQuiet
<1>23. ASSUME UNCHANGED vars PROVE ShownIsOpen'
  BY <1>23 DEF vars
<1>24. ASSUME NEW w \in Wires, OtherToggles(w) PROVE ShownIsOpen'
  BY <1>24 DEF OtherToggles, OtherActs
<1> QED
  BY <1>1, <1>2, <1>3, <1>4, <1>5, <1>6, <1>7, <1>8, <1>9, <1>10, <1>11, <1>12, <1>13,
     <1>14, <1>15, <1>16, <1>17, <1>18, <1>19, <1>20, <1>21, <1>22, <1>23, <1>24 DEF Next,
     Serve, Hear, Fail

\* Who awaits each toggle sees what is stored.
LEMMA TastedStep == IInv /\ [Next]_vars => TastedAsStored'
<1> SUFFICES ASSUME IInv, [Next]_vars PROVE TastedAsStored'
  OBVIOUS
<1> USE ItemViewAssumption DEF IInv, TypeOK, server, client, bounds, OneAwaited,
        Awaited, Outstanding, Visible, TastedAsStored, RequestsAgree, RequestAgrees
<1>1. ASSUME NEW w \in Wires, Open(w) PROVE TastedAsStored'
  BY <1>1, OpenRequests DEF Open, Act
<1>2. ASSUME NEW w \in Wires, OtherSends(w) PROVE TastedAsStored'
  BY <1>2 DEF OtherSends, OtherActs
<1>3. ASSUME Close PROVE TastedAsStored'
  BY <1>3, CloseRequests DEF Close, Act
<1>4. ASSUME Send PROVE TastedAsStored'
  BY <1>4, SendRequests DEF Send, Act
<1>5. ASSUME SendToIncopy PROVE TastedAsStored'
  BY <1>5, SendToIncopyRequests DEF SendToIncopy, Act
<1>6. ASSUME Toggle PROVE TastedAsStored'
  BY <1>6, ToggleRequests DEF Toggle, Act
<1>7. ASSUME Poll PROVE TastedAsStored'
  BY <1>7, PollRequests DEF Poll
<1>8. ASSUME NEW r \in requests, ServeRead(r), ~r.answered, UNCHANGED <<client, bounds>>
      PROVE TastedAsStored'
  <2>1. PICK q \in Request : requests' = (requests \ {r}) \union {q} /\ q.kind = r.kind
    BY <1>8, ServeReadRequests
  <2>2. CASE r.kind = "fetch"
    <3>1. Awaited' # {}
      BY <2>1, <2>2
    <3> QED
      BY <3>1
  <2>3. CASE r.kind # "fetch"
    <3>1. UNCHANGED <<tasted, overtaken>> /\ r.kind = "poll"
      BY <1>8, <2>3 DEF ServeRead
    <3>2. Awaited' = {} => Awaited = {}
      BY <2>1, <3>1
    <3> QED
      BY <1>8, <3>1, <3>2
  <2> QED
    BY <2>2, <2>3
<1>9. ASSUME NEW r \in requests, ServeCreate(r), ~r.answered, UNCHANGED <<client, bounds>>
      PROVE TastedAsStored'
  BY <1>9, ServeCreateRequests DEF ServeCreate
<1>10. ASSUME NEW r \in requests, ServeLink(r), ~r.answered, UNCHANGED <<client, bounds>>
      PROVE TastedAsStored'
  BY <1>10, ServeLinkRequests DEF ServeLink
<1>11. ASSUME NEW r \in requests, ServeIncopy(r), ~r.answered, UNCHANGED <<client, bounds>>
      PROVE TastedAsStored'
  BY <1>11, ServeIncopyRequests DEF ServeIncopy
<1>12. ASSUME NEW r \in requests, ServeToggle(r), ~r.answered, UNCHANGED <<client, bounds>>
      PROVE TastedAsStored'
  <2>1. PICK p \in Request : requests' = (requests \ {r}) \union {p} /\ p.kind = r.kind
    BY <1>12, ServeToggleRequests
  <2>2. Awaited' # {}
    BY <1>12, <2>1 DEF ServeToggle
  <2> QED
    BY <2>2
<1>13. ASSUME NEW r \in requests, HearFetch(r), r.answered, UNCHANGED <<server, bounds>>
      PROVE TastedAsStored'
  BY <1>13, HearFetchRequests DEF HearFetch, Show, Mount, ComposerLinks
<1>14. ASSUME NEW r \in requests, HearPoll(r), r.answered, UNCHANGED <<server, bounds>>
      PROVE TastedAsStored'
  BY <1>14, HearPollShown DEF HearPoll
<1>15. ASSUME NEW r \in requests, HearCreate(r), r.answered, UNCHANGED <<server, bounds>>
      PROVE TastedAsStored'
  BY <1>15, HearCreateRequests DEF HearCreate
<1>16. ASSUME NEW r \in requests, HearLink(r), r.answered, UNCHANGED <<server, bounds>>
      PROVE TastedAsStored'
  <2>1. /\ requests' = requests \ {r} /\ r.kind = "link"
        /\ UNCHANGED <<tasted, overtaken, hasty, error, toggleError>>
    BY <1>16 DEF HearLink
  <2>2. Awaited' = Awaited /\ (Visible' <=> Visible)
    BY <1>16, <2>1, HearLinkShown
  <2>3. shown'.id = shown.id /\ (shown'.tasted <=> shown.tasted)
    BY <1>16, HearLinkShown
  <2> QED
    BY <2>1, <2>2, <2>3
<1>17. ASSUME NEW r \in requests, HearIncopy(r), r.answered, UNCHANGED <<server, bounds>>
      PROVE TastedAsStored'
  BY <1>17, HearIncopyShown DEF HearIncopy, WithLink
<1>18. ASSUME NEW r \in requests, HearToggle(r), r.answered, UNCHANGED <<server, bounds>>
      PROVE TastedAsStored'
  BY <1>18, HearToggleRequests DEF HearToggle, ClearToggleError
<1>19. ASSUME NEW r \in requests, FailFetch(r),
              failures' = failures + 1, UNCHANGED <<server, acts, others, hasty>>
      PROVE TastedAsStored'
  BY <1>19, FailFetchRequests DEF FailFetch, ShowError
<1>20. ASSUME NEW r \in requests, FailSend(r),
              failures' = failures + 1, UNCHANGED <<server, acts, others, hasty>>
      PROVE TastedAsStored'
  BY <1>20 DEF FailSend
<1>21. ASSUME NEW r \in requests, FailToggle(r),
              failures' = failures + 1, UNCHANGED <<server, acts, others, hasty>>
      PROVE TastedAsStored'
  BY <1>21 DEF FailToggle
<1>22. ASSUME NEW r \in requests, FailQuiet(r),
              failures' = failures + 1, UNCHANGED <<server, acts, others, hasty>>
      PROVE TastedAsStored'
  BY <1>22 DEF FailQuiet
<1>23. ASSUME UNCHANGED vars PROVE TastedAsStored'
  BY <1>23 DEF vars
<1>24. ASSUME NEW w \in Wires, OtherToggles(w) PROVE TastedAsStored'
  BY <1>24 DEF OtherToggles, OtherActs
<1> QED
  BY <1>1, <1>2, <1>3, <1>4, <1>5, <1>6, <1>7, <1>8, <1>9, <1>10, <1>11, <1>12, <1>13,
     <1>14, <1>15, <1>16, <1>17, <1>18, <1>19, <1>20, <1>21, <1>22, <1>23, <1>24 DEF Next,
     Serve, Hear, Fail

\* The initial state satisfies the invariant, and every step keeps it.
THEOREM ItemViewInvariance == FairSpec => []IInv
<1>1. Init => IInv
  <2> SUFFICES ASSUME Init PROVE IInv
    OBVIOUS
  <2>1. TypeOK
    <3>1. pages \in Seq(Wires) /\ links \subseteq Link /\ requests \subseteq Request
      BY DEF Init
    <3>2. open = None /\ shown = NoItem /\ url = 0 /\ acts = 0 /\ others = 0 /\ failures = 0
      BY DEF Init
    <3>3. button = "absent" /\ error = FALSE /\ toggleError = FALSE /\ hasty = FALSE
      BY DEF Init
    <3>4. tasted \subseteq Wires /\ overtaken \subseteq Wires
      BY DEF Init
    <3> QED
      BY <3>1, <3>2, <3>3, <3>4, NoItemTyped DEF TypeOK
  <2>2. RequestsAgree /\ NothingOpen
    BY DEF Init, RequestsAgree, NothingOpen
  <2>3. OneAwaited /\ ShownIsOpen
    BY NoItemTyped DEF Init, OneAwaited, Awaited, Outstanding, ShownIsOpen
  <2>4. SentMeansStored /\ LinkedPagesAreTheirs /\ TastedAsStored
    BY DEF Init, SentMeansStored, LinkedPagesAreTheirs, TastedAsStored, Visible
  <2> QED
    BY <2>1, <2>2, <2>3, <2>4 DEF IInv
<1>2. IInv /\ [Next]_vars => IInv'
  BY TypeStep, LinkedStep, RequestsStep, NothingStep, SentStep, AwaitedStep, OpenStep,
     TastedStep
  DEF IInv
<1> QED
  BY <1>1, <1>2, PTL DEF FairSpec, Spec

\* The page, its requests and the tables keep their types.
THEOREM ItemViewTypes == FairSpec => []TypeOK
<1>1. IInv => TypeOK
  BY DEF IInv
<1> QED
  BY <1>1, ItemViewInvariance, PTL

\* The Composer button leads to a page of the item shown whose link is stored.
THEOREM ItemViewSentMeansStored == FairSpec => []SentMeansStored
<1>1. IInv => SentMeansStored
  BY DEF IInv
<1> QED
  BY <1>1, ItemViewInvariance, PTL

\* A page is only ever linked to the item it was made from.
THEOREM ItemViewLinkedPages == FairSpec => []LinkedPagesAreTheirs
<1>1. IInv => LinkedPagesAreTheirs
  BY DEF IInv
<1> QED
  BY <1>1, ItemViewInvariance, PTL

\* Who awaits each item sees the open one or an error.
THEOREM ItemViewShownIsOpen == FairSpec => []ShownIsOpen
<1>1. IInv => ShownIsOpen
  BY DEF IInv
<1> QED
  BY <1>1, ItemViewInvariance, PTL

\* Who awaits each toggle sees what the collection holds, or an error.
THEOREM ItemViewTastedAsStored == FairSpec => []TastedAsStored
<1>1. IInv => TastedAsStored
  BY DEF IInv
<1> QED
  BY <1>1, ItemViewInvariance, PTL

-----------------------------------------------------------------------------
(* The pages of Composer that newswires does not know of. *)

\* A set of pages that grows by one page is at most one larger.
LEMMA PagesFinite ==
    ASSUME NEW s \in Seq(Wires), NEW P \in SUBSET DOMAIN s, NEW Q \in SUBSET DOMAIN s, NEW p
    PROVE  /\ Cardinality(P) \in Nat /\ Cardinality(Q) \in Nat
           /\ P \subseteq Q => Cardinality(P) <= Cardinality(Q)
           /\ P \subseteq Q \union {p} => Cardinality(P) <= Cardinality(Q) + 1
<1>1. IsFiniteSet(DOMAIN s)
  <2>1. Len(s) \in Int /\ 1 \in Int /\ DOMAIN s = 1 .. Len(s)
    OBVIOUS
  <2> QED
    BY <2>1, FS_Interval
<1>2. IsFiniteSet(P) /\ IsFiniteSet(Q)
  BY <1>1, FS_Subset
<1>3. Cardinality(P) \in Nat /\ Cardinality(Q) \in Nat
  BY <1>2, FS_CardinalityType
<1>4. /\ IsFiniteSet(Q \union {p})
      /\ Cardinality(Q \union {p}) = Cardinality(Q)
            \/ Cardinality(Q \union {p}) = Cardinality(Q) + 1
  BY <1>2, FS_AddElement
<1>5. P \subseteq Q => Cardinality(P) <= Cardinality(Q)
  BY <1>2, FS_Subset
<1>6. P \subseteq Q \union {p} => Cardinality(P) <= Cardinality(Q \union {p})
  BY <1>4, FS_Subset
<1> QED
  BY <1>3, <1>4, <1>5, <1>6

\* A step that keeps the pages, and whose pages that were carried are still
\* carried or linked, makes no orphan.
LEMMA NoneOrphaned ==
    ASSUME NEW X, UNCHANGED pages, links \subseteq links',
           \A r \in Outstanding({"create", "link"}) :
               \/ r.page \in Carried'
               \/ r.page \in X
               \/ r.page \in DOMAIN pages => ComposerLink(pages[r.page], r.page) \in links'
    PROVE  Orphans' \subseteq Orphans \union X
<1> SUFFICES ASSUME NEW p \in Orphans', p \notin X PROVE p \in Orphans
  OBVIOUS
<1>1. p \in DOMAIN pages /\ ComposerLink(pages[p], p) \notin links' /\ p \notin Carried'
  BY DEF Orphans
<1>2. p \notin Carried
  BY <1>1 DEF Carried
<1> QED
  BY <1>1, <1>2 DEF Orphans

\* Unanswered requests carry no page.
LEMMA UnmadeStep == IInv /\ Unmade /\ [Next]_vars => Unmade'
<1> SUFFICES ASSUME IInv, Unmade, [Next]_vars PROVE Unmade'
  OBVIOUS
<1>0. TypeOK /\ RequestsAgree
  BY DEF IInv
<1> USE <1>0 DEF Unmade
<1>1. ASSUME NEW w \in Wires, Open(w) PROVE Unmade'
  BY <1>1, OpenRequests
<1>2. ASSUME NEW w \in Wires, OtherSends(w) PROVE Unmade'
  BY <1>2 DEF OtherSends, OtherActs
<1>3. ASSUME Close PROVE Unmade'
  BY <1>3, CloseRequests
<1>4. ASSUME Send PROVE Unmade'
  BY <1>4, SendRequests
<1>5. ASSUME SendToIncopy PROVE Unmade'
  BY <1>5, SendToIncopyRequests
<1>6. ASSUME Toggle PROVE Unmade'
  BY <1>6, ToggleRequests
<1>7. ASSUME Poll PROVE Unmade'
  BY <1>7, PollRequests
<1>8. ASSUME NEW r \in requests, ServeRead(r) PROVE Unmade'
  BY <1>8, ServeReadRequests
<1>9. ASSUME NEW r \in requests, ServeCreate(r) PROVE Unmade'
  BY <1>9, ServeCreateRequests
<1>10. ASSUME NEW r \in requests, ServeLink(r) PROVE Unmade'
  BY <1>10, ServeLinkRequests
<1>11. ASSUME NEW r \in requests, ServeIncopy(r) PROVE Unmade'
  BY <1>11, ServeIncopyRequests
<1>12. ASSUME NEW r \in requests, ServeToggle(r) PROVE Unmade'
  BY <1>12, ServeToggleRequests
<1>13. ASSUME NEW r \in requests, HearFetch(r) PROVE Unmade'
  BY <1>13, HearFetchRequests
<1>14. ASSUME NEW r \in requests, HearPoll(r) PROVE Unmade'
  BY <1>14 DEF HearPoll
<1>15. ASSUME NEW r \in requests, HearCreate(r) PROVE Unmade'
  BY <1>15, HearCreateRequests
<1>16. ASSUME NEW r \in requests, HearLink(r) PROVE Unmade'
  BY <1>16 DEF HearLink
<1>17. ASSUME NEW r \in requests, HearIncopy(r) PROVE Unmade'
  BY <1>17 DEF HearIncopy
<1>18. ASSUME NEW r \in requests, HearToggle(r) PROVE Unmade'
  BY <1>18, HearToggleRequests
<1>19. ASSUME NEW r \in requests, FailFetch(r) PROVE Unmade'
  BY <1>19, FailFetchRequests
<1>20. ASSUME NEW r \in requests, FailSend(r) PROVE Unmade'
  BY <1>20 DEF FailSend
<1>21. ASSUME NEW r \in requests, FailToggle(r) PROVE Unmade'
  BY <1>21 DEF FailToggle
<1>22. ASSUME NEW r \in requests, FailQuiet(r) PROVE Unmade'
  BY <1>22 DEF FailQuiet
<1>23. ASSUME UNCHANGED vars PROVE Unmade'
  BY <1>23 DEF vars
<1>24. ASSUME NEW w \in Wires, OtherToggles(w) PROVE Unmade'
  BY <1>24 DEF OtherToggles, OtherActs
<1> QED
  BY <1>1, <1>2, <1>3, <1>4, <1>5, <1>6, <1>7, <1>8, <1>9, <1>10, <1>11, <1>12, <1>13,
     <1>14, <1>15, <1>16, <1>17, <1>18, <1>19, <1>20, <1>21, <1>22, <1>23, <1>24 DEF Next,
     Serve, Hear, Fail

\* What leaves the page with its button goes on being carried.
LEMMA DetachKeeps ==
    ASSUME NEW R \in SUBSET Request, NEW kinds, NEW p \in R
    PROVE  \E q \in Detach(R, kinds) : q.kind = p.kind /\ q.page = p.page
<1> DEFINE q == [p EXCEPT !.heard =
                     IF @ = "button" /\ p.kind \in kinds THEN "item" ELSE @]
<1>1. q.kind = p.kind /\ q.page = p.page
  BY DEF Request
<1>2. q \in Detach(R, kinds)
  BY DEF Detach
<1> QED
  BY <1>1, <1>2

\* Only a send that fails makes an orphan.
LEMMA OrphansKept ==
    ASSUME IInv, Unmade, [Next]_vars,
           \A r \in requests : ~(FailSend(r) /\ Fail(r))
    PROVE  Orphans' \subseteq Orphans
<1> DEFINE Kept == Orphans' \subseteq Orphans
           Sends == Outstanding({"create", "link"})
<1>0. /\ TypeOK /\ RequestsAgree /\ pages \in Seq(Wires) /\ requests \subseteq Request
      /\ Sends \subseteq requests /\ \A r \in Sends : r.kind \in {"create", "link"}
  BY DEF IInv, TypeOK, Outstanding
<1> USE <1>0
<1>1. ASSUME NEW w \in Wires, Open(w) PROVE Kept
  <2>1. UNCHANGED pages /\ links \subseteq links'
    BY <1>1 DEF Open, Act, server
  <2>2. \A p \in Sends : p.page \in Carried'
    BY <1>1, OpenRequests DEF Outstanding, Carried
  <2> QED
    BY <2>1, <2>2, NoneOrphaned
<1>2. ASSUME NEW w \in Wires, OtherSends(w) PROVE Kept
  <2> SUFFICES ASSUME NEW p \in Orphans' PROVE p \in Orphans
    OBVIOUS
  <2>1. p \in DOMAIN pages' /\ ComposerLink(pages'[p], p) \notin links' /\ p \notin Carried'
    BY DEF Orphans
  <2>2. /\ pages' = Append(pages, w) /\ UNCHANGED requests
        /\ links' = links \union {ComposerLink(w, Len(pages'))}
    BY <1>2 DEF OtherSends, OtherActs
  <2>3. p # Len(pages) + 1
    <3>1. Len(pages') = Len(pages) + 1 /\ pages'[Len(pages) + 1] = w
      BY <2>2, LenTyped
    <3> QED
      BY <2>1, <2>2, <3>1
  <2>4. p \in DOMAIN pages /\ pages'[p] = pages[p]
    BY <2>1, <2>2, <2>3
  <2>5. p \notin Carried
    BY <2>1, <2>2 DEF Carried, Outstanding
  <2> QED
    BY <2>1, <2>2, <2>4, <2>5 DEF Orphans
<1>3. ASSUME Close PROVE Kept
  <2>1. UNCHANGED <<pages, links>>
    BY <1>3 DEF Close, Act, server
  <2>2. ASSUME NEW p \in Sends PROVE p.page \in Carried'
    <3> DEFINE q == [p EXCEPT !.heard = "nobody"]
    <3>1. p \in Request /\ p \in requests /\ p.kind \in {"create", "link"}
      BY <2>2 DEF Outstanding
    <3>2. q.kind = p.kind /\ q.page = p.page
      BY <3>1 DEF Request
    <3>3. q \in requests'
      BY <1>3, <3>1 DEF Close
    <3> QED
      BY <3>1, <3>2, <3>3 DEF Carried, Outstanding
  <2> QED
    BY <2>1, <2>2, NoneOrphaned
<1>4. ASSUME Send PROVE Kept
  <2>1. UNCHANGED pages /\ links \subseteq links'
    BY <1>4 DEF Send, Act, server
  <2>2. \A p \in Sends : p.page \in Carried'
    BY <1>4, SendRequests DEF Outstanding, Carried
  <2> QED
    BY <2>1, <2>2, NoneOrphaned
<1>5. ASSUME SendToIncopy PROVE Kept
  <2>1. UNCHANGED pages /\ links \subseteq links'
    BY <1>5 DEF SendToIncopy, Act, server
  <2>2. \A p \in Sends : p.page \in Carried'
    BY <1>5, SendToIncopyRequests DEF Outstanding, Carried
  <2> QED
    BY <2>1, <2>2, NoneOrphaned
<1>6. ASSUME Toggle PROVE Kept
  <2>1. UNCHANGED pages /\ links \subseteq links'
    BY <1>6 DEF Toggle, Act, server
  <2>2. \A p \in Sends : p.page \in Carried'
    BY <1>6, ToggleRequests DEF Outstanding, Carried
  <2> QED
    BY <2>1, <2>2, NoneOrphaned
<1>7. ASSUME Poll PROVE Kept
  <2>1. UNCHANGED pages /\ links \subseteq links'
    BY <1>7 DEF Poll, server
  <2>2. \A p \in Sends : p.page \in Carried'
    BY <1>7, PollRequests DEF Outstanding, Carried
  <2> QED
    BY <2>1, <2>2, NoneOrphaned
<1>8. ASSUME NEW r \in requests, ServeRead(r), UNCHANGED <<client, bounds>> PROVE Kept
  <2>1. UNCHANGED pages /\ links \subseteq links'
    BY <1>8 DEF ServeRead, server
  <2>2. \A p \in Sends : p.page \in Carried'
    BY <1>8, ServeReadRequests DEF Outstanding, Carried
  <2> QED
    BY <2>1, <2>2, NoneOrphaned
<1>9. ASSUME NEW r \in requests, ServeCreate(r), ~r.answered PROVE Kept
  <2> SUFFICES ASSUME NEW p \in Orphans' PROVE p \in Orphans
    OBVIOUS
  <2>1. p \in DOMAIN pages' /\ ComposerLink(pages'[p], p) \notin links' /\ p \notin Carried'
    BY DEF Orphans
  <2>2. pages' = Append(pages, r.wire) /\ UNCHANGED links /\ r.wire \in Wires
    BY <1>9, Fields DEF ServeCreate
  <2>3. PICK q \in Request :
            /\ requests' = (requests \ {r}) \union {q}
            /\ r.kind = "create" /\ q.kind = "create" /\ q.page = Len(pages')
    BY <1>9, ServeCreateRequests
  <2>4. r.page = 0 /\ Len(pages') = Len(pages) + 1
    BY <1>9, <2>2, <2>3, LenTyped DEF Unmade
  <2>5. Len(pages') \in Carried'
    BY <2>3 DEF Carried, Outstanding
  <2>6. p \in DOMAIN pages /\ pages'[p] = pages[p]
    BY <2>1, <2>2, <2>4, <2>5
  <2>7. ASSUME NEW c \in Sends, c.page = p PROVE FALSE
    <3>1. c # r
      BY <2>4, <2>6, <2>7
    <3> QED
      BY <2>1, <2>3, <2>7, <3>1 DEF Carried, Outstanding
  <2>8. p \notin Carried
    BY <2>7 DEF Carried
  <2> QED
    BY <2>1, <2>2, <2>6, <2>8 DEF Orphans
<1>10. ASSUME NEW r \in requests, ServeLink(r) PROVE Kept
  <2>1. UNCHANGED pages /\ links \subseteq links'
    BY <1>10 DEF ServeLink
  <2>2. \A p \in Sends : p.page \in Carried'
    BY <1>10, ServeLinkRequests DEF Outstanding, Carried
  <2> QED
    BY <2>1, <2>2, NoneOrphaned
<1>11. ASSUME NEW r \in requests, ServeIncopy(r) PROVE Kept
  <2>1. UNCHANGED pages /\ links \subseteq links'
    BY <1>11 DEF ServeIncopy
  <2>2. \A p \in Sends : p.page \in Carried'
    BY <1>11, ServeIncopyRequests DEF Outstanding, Carried
  <2> QED
    BY <2>1, <2>2, NoneOrphaned
<1>12. ASSUME NEW r \in requests, ServeToggle(r) PROVE Kept
  <2>1. UNCHANGED pages /\ links \subseteq links'
    BY <1>12 DEF ServeToggle
  <2>2. \A p \in Sends : p.page \in Carried'
    BY <1>12, ServeToggleRequests DEF Outstanding, Carried
  <2> QED
    BY <2>1, <2>2, NoneOrphaned
<1>13. ASSUME NEW r \in requests, HearFetch(r), UNCHANGED <<server, bounds>> PROVE Kept
  <2>1. UNCHANGED <<pages, links>>
    BY <1>13 DEF server
  <2>2. ASSUME NEW p \in Sends PROVE p.page \in Carried'
    <3>1. p \in Request /\ p \in requests /\ p.kind \in {"create", "link"} /\ p # r
      BY <1>13, <2>2 DEF Outstanding, HearFetch
    <3>2. \E q \in requests' : q.kind = p.kind /\ q.page = p.page
      <4>1. requests \ {r} \in SUBSET Request /\ p \in requests \ {r}
        BY <1>13, <3>1
      <4>2. \/ requests' = requests \ {r}
            \/ requests' = Detach(requests \ {r}, {"create", "link"})
        BY <1>13 DEF HearFetch, Show
      <4> QED
        BY <4>1, <4>2, DetachKeeps
    <3> QED
      BY <3>1, <3>2 DEF Carried, Outstanding
  <2> QED
    BY <2>1, <2>2, NoneOrphaned
<1>14. ASSUME NEW r \in requests, HearPoll(r), UNCHANGED <<server, bounds>> PROVE Kept
  <2>1. UNCHANGED pages /\ links \subseteq links'
    BY <1>14 DEF server
  <2>2. \A p \in Sends : p.page \in Carried'
    BY <1>14 DEF Outstanding, Carried, HearPoll
  <2> QED
    BY <2>1, <2>2, NoneOrphaned
<1>15. ASSUME NEW r \in requests, HearCreate(r), UNCHANGED <<server, bounds>> PROVE Kept
  <2>1. UNCHANGED pages /\ links \subseteq links'
    BY <1>15 DEF server
  <2>2. \A p \in Sends : p.page \in Carried'
    BY <1>15, HearCreateRequests DEF Outstanding, Carried, HearCreate
  <2> QED
    BY <2>1, <2>2, NoneOrphaned
<1>16. ASSUME NEW r \in requests, HearLink(r), r.answered, UNCHANGED <<server, bounds>>
       PROVE Kept
  <2>1. UNCHANGED <<pages, links>>
    BY <1>16 DEF server
  <2>2. r.kind = "link" /\ requests' = requests \ {r}
    BY <1>16 DEF HearLink
  <2>3. ComposerLink(pages[r.page], r.page) \in links
    BY <1>16, <2>2 DEF RequestsAgree, RequestAgrees
  <2>4. \A p \in Sends : p.page \in Carried' \/ p = r
    BY <2>2 DEF Outstanding, Carried
  <2> QED
    BY <2>1, <2>3, <2>4, NoneOrphaned
<1>17. ASSUME NEW r \in requests, HearIncopy(r), UNCHANGED <<server, bounds>> PROVE Kept
  <2>1. UNCHANGED pages /\ links \subseteq links'
    BY <1>17 DEF server
  <2>2. \A p \in Sends : p.page \in Carried'
    BY <1>17 DEF Outstanding, Carried, HearIncopy
  <2> QED
    BY <2>1, <2>2, NoneOrphaned
<1>18. ASSUME NEW r \in requests, HearToggle(r), UNCHANGED <<server, bounds>> PROVE Kept
  <2>1. UNCHANGED pages /\ links \subseteq links'
    BY <1>18 DEF server
  <2>2. \A p \in Sends : p.page \in Carried'
    BY <1>18, HearToggleRequests DEF Outstanding, Carried, HearToggle
  <2> QED
    BY <2>1, <2>2, NoneOrphaned
<1>19. ASSUME NEW r \in requests, FailFetch(r), UNCHANGED <<server, acts, others, hasty>> PROVE Kept
  <2>1. UNCHANGED <<pages, links>>
    BY <1>19 DEF server
  <2>2. ASSUME NEW p \in Sends PROVE p.page \in Carried'
    <3>1. p \in Request /\ p \in requests /\ p.kind \in {"create", "link"} /\ p # r
      BY <1>19, <2>2 DEF Outstanding, FailFetch
    <3>2. \E q \in requests' : q.kind = p.kind /\ q.page = p.page
      BY <1>19, <3>1, DetachKeeps DEF FailFetch, ShowError
    <3> QED
      BY <3>1, <3>2 DEF Carried, Outstanding
  <2> QED
    BY <2>1, <2>2, NoneOrphaned
<1>21. ASSUME NEW r \in requests, FailToggle(r), UNCHANGED <<server, acts, others, hasty>> PROVE Kept
  <2>1. UNCHANGED pages /\ links \subseteq links'
    BY <1>21 DEF server
  <2>2. \A p \in Sends : p.page \in Carried'
    BY <1>21 DEF Outstanding, Carried, FailToggle
  <2> QED
    BY <2>1, <2>2, NoneOrphaned
<1>22. ASSUME NEW r \in requests, FailQuiet(r), UNCHANGED <<server, acts, others, hasty>> PROVE Kept
  <2>1. UNCHANGED pages /\ links \subseteq links'
    BY <1>22 DEF server
  <2>2. \A p \in Sends : p.page \in Carried'
    BY <1>22 DEF Outstanding, Carried, FailQuiet
  <2> QED
    BY <2>1, <2>2, NoneOrphaned
<1>23. ASSUME UNCHANGED vars PROVE Kept
  <2>1. UNCHANGED pages /\ links \subseteq links'
    BY <1>23 DEF vars, server
  <2>2. \A p \in Sends : p.page \in Carried'
    BY <1>23 DEF Outstanding, Carried, vars
  <2> QED
    BY <2>1, <2>2, NoneOrphaned
<1>24. ASSUME NEW w \in Wires, OtherToggles(w) PROVE Kept
  <2>1. UNCHANGED pages /\ links \subseteq links'
    BY <1>24 DEF OtherToggles
  <2>2. \A p \in Sends : p.page \in Carried'
    BY <1>24 DEF Outstanding, Carried, OtherToggles, OtherActs
  <2> QED
    BY <2>1, <2>2, NoneOrphaned
<1> QED
  BY <1>1, <1>2, <1>3, <1>4, <1>5, <1>6, <1>7, <1>8, <1>9, <1>10, <1>11, <1>12, <1>13,
     <1>14, <1>15, <1>16, <1>17, <1>18, <1>19, <1>21, <1>22, <1>23, <1>24 DEF Next,
     Serve, Hear, Fail

\* A send that fails makes one at most.
LEMMA OneOrphaned ==
    ASSUME IInv, NEW r \in requests, FailSend(r), UNCHANGED server
    PROVE  Orphans' \subseteq Orphans \union {r.page}
<1>1. UNCHANGED <<pages, links>> /\ requests' = requests \ {r}
  BY DEF server, FailSend
<1>2. \A p \in Outstanding({"create", "link"}) : p.page \in Carried' \/ p = r
  BY <1>1 DEF Outstanding, Carried
<1> QED
  BY <1>1, <1>2, NoneOrphaned

\* Every step adds at most as many orphans as failures.
LEMMA OrphansStep ==
    ASSUME IInv, Unmade, OrphansAreFailures, [Next]_vars, TypeOK'
    PROVE  OrphansAreFailures'
<1>1. /\ pages \in Seq(Wires) /\ pages' \in Seq(Wires)
      /\ failures \in Nat /\ failures' \in Nat /\ Cardinality(Orphans) <= failures
      /\ Orphans \subseteq DOMAIN pages /\ Orphans' \subseteq DOMAIN pages'
  BY DEF IInv, TypeOK, OrphansAreFailures, Orphans
<1>2. DOMAIN pages \subseteq DOMAIN pages'
  <2>1. \/ UNCHANGED pages
        \/ \E w \in Wires : pages' = Append(pages, w)
    <3>1. \A r \in requests : r.wire \in Wires
      BY Fields DEF IInv, TypeOK
    <3> QED
      BY <3>1 DEF Next, vars, server, Open, Act, OtherSends, OtherActs, OtherToggles, Close, Send, SendToIncopy,
         Toggle, Poll, Serve, ServeRead, ServeCreate, ServeLink, ServeIncopy,
         ServeToggle, Hear, Fail
  <2> QED
    BY <1>1, <2>1, LenTyped
<1>3. failures' = failures \/ failures' = failures + 1
  BY DEF Next, vars, bounds, client, Open, Act, OtherSends, OtherActs, OtherToggles, Close, Send, SendToIncopy, Toggle,
     Poll, Serve, Hear, Fail
<1>4. CASE \A r \in requests : ~(FailSend(r) /\ Fail(r))
  <2>1. Orphans' \subseteq Orphans
    BY <1>4, OrphansKept
  <2>2. Cardinality(Orphans') <= Cardinality(Orphans) /\ Cardinality(Orphans') \in Nat
        /\ Cardinality(Orphans) \in Nat
    BY <1>1, <1>2, <2>1, PagesFinite
  <2> QED
    BY <1>1, <1>3, <2>2 DEF OrphansAreFailures
<1>5. CASE \E r \in requests : FailSend(r) /\ Fail(r)
  <2>1. PICK r \in requests : FailSend(r) /\ Fail(r)
    BY <1>5
  <2>2. UNCHANGED server /\ failures' = failures + 1
    BY <2>1 DEF Fail
  <2>3. Orphans' \subseteq Orphans \union {r.page}
    BY <2>1, <2>2, OneOrphaned
  <2>4. Cardinality(Orphans') <= Cardinality(Orphans) + 1 /\ Cardinality(Orphans') \in Nat
        /\ Cardinality(Orphans) \in Nat
    BY <1>1, <1>2, <2>3, PagesFinite
  <2> QED
    BY <1>1, <2>2, <2>4 DEF OrphansAreFailures
<1> QED
  BY <1>4, <1>5

\* However items are opened and closed while Composer works, there are at most
\* as many pages that newswires will not know of as requests that failed.
THEOREM ItemViewOrphans == FairSpec => []OrphansAreFailures
<1>1. Init => Unmade /\ OrphansAreFailures
  <2> SUFFICES ASSUME Init PROVE Unmade /\ OrphansAreFailures
    OBVIOUS
  <2>1. Unmade
    BY DEF Init, Unmade
  <2>2. Orphans = {} /\ failures = 0
    BY DEF Init, Orphans
  <2>3. Cardinality(Orphans) = 0
    BY <2>2, FS_EmptySet
  <2> QED
    BY <2>1, <2>2, <2>3 DEF OrphansAreFailures
<1>2. IInv /\ Unmade /\ [Next]_vars => Unmade'
  BY UnmadeStep
<1>3. IInv /\ Unmade /\ OrphansAreFailures /\ [Next]_vars => OrphansAreFailures'
  BY OrphansStep, TypeStep
<1> QED
  BY <1>1, <1>2, <1>3, ItemViewInvariance, PTL DEF FairSpec, Spec

=============================================================================
