----------------------------- MODULE FeedPaging -----------------------------
(***************************************************************************)
(* What the server answers to GET /api/search: FingerpostWireEntry.query.  *)
(* An item stands for a row of fingerpost_wire_entry.  The query joins it  *)
(* with its tool links and collections, and both the LIMIT and the count   *)
(* are of joined rows: Rows is how many a set of items has.                *)
(***************************************************************************)
EXTENDS Naturals, Sequences, SequencesExt, FiniteSetsExt

CONSTANTS
    Items,       \* the wire entries that may ever be stored
    Queries,     \* the searches
    Matches,     \* the items each search selects
    Time,        \* the ingested_at of each item
    Rows,        \* the joined rows of each set of items
    PageSize,    \* 30 in QueryController.query
    CountCap,    \* COUNT_QUERY_CAP
    NoCursor     \* the parameter is absent

ASSUME PagingAssumption ==
    /\ IsFiniteSet(Items)
    /\ Matches \in [Queries -> SUBSET Items]
    /\ Time \in [Items -> Nat]
    /\ Rows \in [SUBSET Items -> Nat] /\ Rows[{}] = 0
    /\ \A S \in SUBSET Items : \A T \in SUBSET S : Rows[T] + Cardinality(S \ T) <= Rows[S]
    /\ PageSize \in Nat \ {0}
    /\ CountCap \in Nat
    /\ NoCursor \notin Nat

\* The WHERE clause: the search's filters and the two cursors, both inclusive.
Selected(stored, q, after, before) ==
    {i \in stored \intersect Matches[q] :
        /\ after # NoCursor => Time[i] >= after
        /\ before # NoCursor => Time[i] <= before}

\* ORDER BY the timestamp alone: items with one timestamp come in any order.
Descending(s) == \A j, k \in DOMAIN s : j <= k => Time[s[j]] >= Time[s[k]]
Newest == [S \in SUBSET Items |-> {s \in SetToSeqs(S) : Descending(s)}]
Oldest == [S \in SUBSET Items |-> {Reverse(s) : s \in Newest[S]}]

\* LIMIT counts joined rows; an item with one row in the page is in the page.
Page(s) ==
    {s[j] : j \in {k \in DOMAIN s : Rows[{s[l] : l \in 1..(k - 1)}] < PageSize}}

\* Mutant of Pages: always downwards.
PagesDownwards(stored, q, after, before) ==
    {Page(s) : s \in Newest[Selected(stored, q, after, before)]}

\* Upwards from the after cursor, if there is one, and otherwise downwards.
Pages(stored, q, after, before) ==
    LET S == Selected(stored, q, after, before)
    IN  {Page(s) : s \in IF after # NoCursor THEN Oldest[S] ELSE Newest[S]}

\* The answers: the page, newest first, and the capped count of what was selected.
Replies(stored, q, after, before) ==
    LET count == Rows[Selected(stored, q, after, before)]
    IN  {[items |-> s, total |-> IF count <= CountCap THEN count ELSE CountCap + 1] :
            s \in UNION {Newest[p] : p \in Pages(stored, q, after, before)}}
=============================================================================
