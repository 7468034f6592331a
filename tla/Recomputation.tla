---------------------------- MODULE Recomputation ----------------------------
(***************************************************************************)
(* The recomputation lambda: it pages by LIMIT and OFFSET through the rows *)
(* a filter on last_updated_at selects, and sets last_updated_at as it     *)
(* goes, while the ingestion lambda inserts rows and the cleanup lambda    *)
(* deletes them.                                                           *)
(***************************************************************************)
EXTENDS Naturals, FiniteSets

CONSTANTS
    Filters,     \* the filters a run may be given: sets of stamps
    Limit,       \* the event's limit
    BatchSize,   \* the event's batchSize
    Stored,      \* bound: the rows there are at first
    MaxId,       \* bound: the rows that are ever inserted
    MaxDeleted   \* bound: the rows the cleanup deletes

\* last_updated_at: null, before or after the time a filter names, and since
\* the run began.
Stamps == {"null", "older", "newer", "now"}

ASSUME RecomputationAssumption ==
    /\ Filters \subseteq SUBSET Stamps
    /\ Limit \in Nat /\ BatchSize \in Nat \ {0}
    /\ Stored \in Nat /\ MaxId \in Nat /\ Stored <= MaxId /\ MaxDeleted \in Nat

VARIABLES
    rows,        \* the ids in fingerpost_wire_entry
    last,        \* the largest id given so far
    stamp,       \* last_updated_at of each row
    filter,      \* the run's WHERE clause
    pc,          \* where the run is
    batches,     \* how many offsets it has computed
    index,       \* how many it has processed
    records,     \* what getQuery returned
    matched,     \* history: what the filter selected when the run began
    recomputed,  \* history: the rows updated so far
    deleted      \* history: the rows the cleanup deleted

table == <<rows, last, stamp>>
run == <<filter, pc, batches, index, records, matched, recomputed>>
vars == <<table, run, deleted>>

Ids == 1..MaxId
Selected == {i \in rows : stamp[i] \in filter}

\* The types, and that no more batches are processed than were computed.
TypeOK ==
    /\ rows \subseteq 1..last /\ last \in 0..MaxId
    /\ stamp \in [Ids -> Stamps]
    /\ filter \in Filters
    /\ pc \in {"count", "select", "update", "exited", "finished", "timed out"}
    /\ batches \in Nat /\ index \in 0..batches
    /\ records \subseteq Ids /\ matched \subseteq Ids /\ recomputed \subseteq Ids
    /\ deleted \subseteq Ids

Init ==
    /\ rows = 1..Stored /\ last = Stored
    /\ stamp \in [Ids -> Stamps] /\ \A i \in Ids : stamp[i] = "now" <=> i > Stored
    /\ filter \in Filters
    /\ pc = "count"
    /\ batches = 0 /\ index = 0
    /\ records = {} /\ matched = {} /\ recomputed = {} /\ deleted = {}

\* countQuery, the effective limit and computeOffsets.
Smaller(a, b) == IF a < b THEN a ELSE b
ComputeOffsets(max) == (max + BatchSize - 1) \div BatchSize

Count ==
    /\ pc = "count"
    /\ pc' = "select"
    /\ batches' = ComputeOffsets(Smaller(Limit, Cardinality(Selected)))
    /\ matched' = Selected
    /\ UNCHANGED <<table, filter, index, records, recomputed, deleted>>

\* How many rows of S come before row i, in the order of their ids.
Rank(S, i) == Cardinality({j \in S : j < i})

\* Mutants of Window: one row too far; and one row too many.
WindowLate(S, offset) == {i \in S : Rank(S, i) \in (offset + 1)..(offset + BatchSize)}
WindowWide(S, offset) == {i \in S : Rank(S, i) \in offset..(offset + BatchSize)}

\* ORDER BY id LIMIT BatchSize OFFSET offset.
Window(S, offset) == {i \in S : Rank(S, i) \in offset..(offset + BatchSize - 1)}

\* getQuery; without records the run says that there are no more, and returns.
GetQuery ==
    /\ pc = "select" /\ index < batches
    /\ records' = Window(Selected, index * BatchSize)
    /\ pc' = IF records' = {} THEN "exited" ELSE "update"
    /\ UNCHANGED <<table, filter, batches, index, matched, recomputed, deleted>>

\* One UPDATE: of the records, those that are still there.
UpdateRecords ==
    /\ pc = "update"
    /\ stamp' = [i \in Ids |-> IF i \in records \intersect rows THEN "now" ELSE stamp[i]]
    /\ recomputed' = recomputed \union (records \intersect rows)
    /\ index' = index + 1
    /\ records' = {}
    /\ pc' = "select"
    /\ UNCHANGED <<rows, last, filter, batches, matched, deleted>>

Finish ==
    /\ pc = "select" /\ index = batches
    /\ pc' = "finished"
    /\ UNCHANGED <<table, filter, batches, index, records, matched, recomputed, deleted>>

Running == pc \in {"count", "select", "update"}

\* The lambda's 15 minutes are over, or a query fails.
TimeOut ==
    /\ Running
    /\ pc' = "timed out"
    /\ UNCHANGED <<table, filter, batches, index, records, matched, recomputed, deleted>>

\* putItemToDb inserts a row with last_updated_at = now().
Insert ==
    /\ Running
    /\ last < MaxId
    /\ last' = last + 1
    /\ rows' = rows \union {last'}
    /\ stamp' = [stamp EXCEPT ![last'] = "now"]
    /\ UNCHANGED <<run, deleted>>

\* The cleanup lambda deletes what has become too old.
Cleanup(S) ==
    /\ Running
    /\ S # {}
    /\ Cardinality(deleted \union S) <= MaxDeleted
    /\ rows' = rows \ S
    /\ deleted' = deleted \union S
    /\ UNCHANGED <<last, stamp, run>>

Next ==
    \/ Count \/ GetQuery \/ UpdateRecords \/ Finish \/ TimeOut
    \/ Insert
    \/ \E S \in SUBSET rows : Cleanup(S)

Spec == Init /\ [][Next]_vars

-----------------------------------------------------------------------------
Unlimited == Cardinality(matched) <= Limit
Missed == (matched \intersect rows) \ recomputed

\* With a filter that an updated row still passes, a run without a binding
\* limit recomputes all it selected, except for at most one row for each row
\* that the cleanup deleted under its offsets.
MissesAtMostDeleted ==
    pc \in {"exited", "finished"} /\ "now" \in filter /\ Unlimited =>
        Cardinality(Missed) <= Cardinality(deleted)

\* No batch contains a row that an earlier one has recomputed, whatever is
\* inserted and deleted in between.
NoneTwice == records \intersect recomputed = {}

\* A run that ends of its own accord, "No more records to process" or with the
\* last batch, and that no limit cuts off, leaves none of its records out.
AllUpdated == pc \in {"exited", "finished"} /\ Unlimited => Missed = {}

-----------------------------------------------------------------------------
(* The inductive invariant behind the safety properties, in parts.         *)

Paging == pc \in {"select", "update"}

\* Nothing that was deleted is in the table; a run knows of no row that is not
\* there yet; what it has updated is stamped; and until they are updated, the
\* records it holds still pass its filter.
RunSound ==
    /\ rows \intersect deleted = {} /\ deleted \subseteq 1..last
    /\ matched \subseteq 1..last /\ recomputed \subseteq 1..last /\ records \subseteq 1..last
    /\ pc = "count" => matched = {} /\ recomputed = {} /\ index = 0
    /\ \A i \in recomputed : stamp[i] = "now"
    /\ pc = "update" => index < batches /\ records \intersect rows \subseteq Selected
    /\ pc \notin {"update", "timed out"} => records = {}
    /\ NoneTwice

\* A run under a filter that its own updates pass sees one list that only
\* grows at its end and shrinks: it has been through the first Reached ranks,
\* and what it has not seen there was moved there by a deletion.
Done == recomputed \union records
Reached == (IF pc = "update" THEN index + 1 ELSE index) * BatchSize
Skipped == {i \in (matched \intersect rows) \ Done : Rank(Selected, i) < Reached}
PagedSound ==
    "now" \in filter =>
        /\ \A i \in matched : stamp[i] \in filter
        /\ pc # "count" => \A i \in matched : \A j \in Selected \ matched : i < j
        /\ Paging => \A i \in Done \intersect rows : Rank(Selected, i) < Reached
        /\ Paging => Cardinality(Skipped) <= Cardinality(deleted)
        /\ Paging /\ Unlimited => Cardinality(matched) <= batches * BatchSize

IInv == TypeOK /\ RunSound /\ PagedSound /\ MissesAtMostDeleted
=============================================================================
