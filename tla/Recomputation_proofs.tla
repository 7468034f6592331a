------------------------ MODULE Recomputation_proofs ------------------------
(* Theorems about Recomputation, for any table, filters, limit and batch   *)
(* size.                                                                   *)
EXTENDS Recomputation, FiniteSetTheorems, TLAPS

-----------------------------------------------------------------------------
(* Ranks: what LIMIT and OFFSET count.                                     *)

\* A rank in a set of ids is a number.
LEMMA RankType ==
    ASSUME NEW S \in SUBSET Ids, NEW i \in Nat
    PROVE  /\ IsFiniteSet(S) /\ Cardinality(S) \in Nat
           /\ IsFiniteSet({j \in S : j < i})
           /\ Rank(S, i) \in Nat
<1>1. IsFiniteSet(Ids)
    BY FS_Interval, RecomputationAssumption DEF Ids
<1>2. IsFiniteSet(S) /\ Cardinality(S) \in Nat
    BY <1>1, FS_Subset, FS_CardinalityType
<1>3. IsFiniteSet({j \in S : j < i})
    BY <1>2, FS_Subset
<1>. QED
    BY <1>2, <1>3, FS_CardinalityType DEF Rank

\* So are the ranks of all rows.
LEMMA RanksTyped == \A S \in SUBSET Ids : \A i \in Ids : Rank(S, i) \in Nat
<1>1. \A i \in Ids : i \in Nat
    BY DEF Ids
<1>. QED
    BY <1>1, RankType

\* A smaller set gives no larger rank.
LEMMA RankMonotone ==
    ASSUME NEW S \in SUBSET Ids, NEW T \in SUBSET S, NEW i \in Nat
    PROVE  Rank(T, i) <= Rank(S, i)
<1>1. {j \in T : j < i} \subseteq {j \in S : j < i}
    OBVIOUS
<1>. QED
    BY <1>1, RankType, FS_Subset DEF Rank

\* The first of two rows has the smaller rank.
LEMMA RankOrders ==
    ASSUME NEW S \in SUBSET Ids, NEW i \in S, NEW j \in Nat, i < j
    PROVE  Rank(S, i) < Rank(S, j)
<1> DEFINE A == {k \in S : k < i}
           B == {k \in S : k < j}
<1>1. i \in Nat
    BY DEF Ids
<1>2. IsFiniteSet(A) /\ IsFiniteSet(B) /\ Cardinality(A) \in Nat /\ Cardinality(B) \in Nat
    BY <1>1, RankType, FS_CardinalityType
<1>3. A \subseteq B /\ A # B
    <2>1. \A k \in S : k \in Nat
        BY DEF Ids
    <2>2. i \in B /\ i \notin A
        BY <1>1
    <2>3. ASSUME NEW k \in A PROVE k \in B
        <3>1. k \in S /\ k \in Nat /\ k < i
            BY <2>1
        <3>2. k < j
            BY <1>1, <3>1
        <3>. QED
            BY <3>1, <3>2
    <2>4. A # B
        <3>. HIDE DEF A, B
        <3>. QED
            BY <2>2
    <2>. QED
        BY <2>3, <2>4
<1>4. Cardinality(A) <= Cardinality(B) /\ Cardinality(A) # Cardinality(B)
    BY <1>2, <1>3, FS_Subset
<1>. QED
    BY <1>2, <1>4 DEF Rank

\* So rows of one rank are one row,
LEMMA RankInjective ==
    ASSUME NEW S \in SUBSET Ids, NEW i \in S, NEW j \in S, Rank(S, i) = Rank(S, j)
    PROVE  i = j
<1>1. i \in Nat /\ j \in Nat
    BY DEF Ids
<1>2. Rank(S, i) \in Nat /\ Rank(S, j) \in Nat
    BY <1>1, RankType
<1>3. ~(i < j) /\ ~(j < i)
    BY <1>1, <1>2, RankOrders
<1>. QED
    BY <1>1, <1>3

\* a rank is below the number of rows,
LEMMA RankBelow ==
    ASSUME NEW S \in SUBSET Ids, NEW i \in S
    PROVE  Rank(S, i) \in 0..(Cardinality(S) - 1)
<1>1. i \in Nat
    BY DEF Ids
<1>2. {j \in S : j < i} \subseteq S \ {i}
    BY <1>1
<1>3. IsFiniteSet(S \ {i}) /\ Cardinality(S \ {i}) = Cardinality(S) - 1
    BY <1>1, RankType, FS_RemoveElement
<1>4. Rank(S, i) <= Cardinality(S) - 1
    BY <1>2, <1>3, FS_Subset DEF Rank
<1>5. Rank(S, i) \in Nat /\ Cardinality(S) \in Nat
    BY <1>1, RankType
<1>. QED
    BY <1>4, <1>5

\* and every number below it is the rank of a row.
LEMMA RankOnto ==
    ASSUME NEW S \in SUBSET Ids, NEW r \in 0..(Cardinality(S) - 1)
    PROVE  \E i \in S : Rank(S, i) = r
<1> DEFINE T == 0..(Cardinality(S) - 1)
           f == [i \in S |-> Rank(S, i)]
<1>1. IsFiniteSet(S) /\ Cardinality(S) \in Nat
    BY RankType
<1>2. IsFiniteSet(T) /\ Cardinality(T) = Cardinality(S)
    BY <1>1, FS_Interval
<1>3. f \in [S -> T]
    BY RankBelow
<1>4. \A i, j \in S : f[i] = f[j] => i = j
    BY RankInjective
<1>5. f \in Injection(S, T)
    BY <1>3, <1>4 DEF Injection, IsInjective
<1>6. f \in Surjection(S, T)
    BY <1>1, <1>2, <1>5, FS_Injection
<1>. QED
    BY <1>6 DEF Surjection

\* Rows with ranks among n consecutive ones are at most n.
LEMMA RanksCount ==
    ASSUME NEW S \in SUBSET Ids, NEW A \in SUBSET S, NEW b \in Nat, NEW n \in Nat,
           \A i \in A : Rank(S, i) \in b..(b + n - 1)
    PROVE  Cardinality(A) <= n
<1> DEFINE T == b..(b + n - 1)
           f == [i \in A |-> Rank(S, i)]
<1>1. IsFiniteSet(T) /\ Cardinality(T) = n
    BY FS_Interval
<1>2. f \in [A -> T]
    OBVIOUS
<1>3. \A i, j \in A : f[i] = f[j] => i = j
    BY RankInjective
<1>4. f \in Injection(A, T)
    BY <1>2, <1>3 DEF Injection, IsInjective
<1>. QED
    BY <1>1, <1>4, FS_Injection

\* Deleting rows lowers a rank by at most their number.
LEMMA RankDrop ==
    ASSUME NEW S \in SUBSET Ids, NEW D \in SUBSET Ids, NEW i \in Nat
    PROVE  Rank(S, i) <= Rank(S \ D, i) + Cardinality(D)
<1> DEFINE A == {j \in S \ D : j < i}
           B == {j \in S : j < i}
<1>1. /\ IsFiniteSet(A) /\ IsFiniteSet(B) /\ IsFiniteSet(D)
      /\ Cardinality(A) \in Nat /\ Cardinality(B) \in Nat /\ Cardinality(D) \in Nat
    BY RankType, FS_CardinalityType
<1>2. IsFiniteSet(A \union D) /\ Cardinality(A \union D) <= Cardinality(A) + Cardinality(D)
    <2>1. IsFiniteSet(A \cap D)
        BY <1>1, FS_Subset
    <2>2. Cardinality(A \cap D) \in Nat
        BY <2>1, FS_CardinalityType
    <2>3. /\ IsFiniteSet(A \union D)
          /\ Cardinality(A \union D) = Cardinality(A) + Cardinality(D) - Cardinality(A \cap D)
        <3>. HIDE DEF A
        <3>. QED
            BY <1>1, FS_Union
    <2>. QED
        BY <1>1, <2>2, <2>3
<1>3. Cardinality(B) <= Cardinality(A \union D)
    BY <1>2, FS_Subset
<1>4. Cardinality(A \union D) \in Nat
    BY <1>2, FS_CardinalityType
<1>. QED
    BY <1>1, <1>2, <1>3, <1>4 DEF Rank

\* The offsets of a run cover as many rows as it counted.
LEMMA OffsetsCover ==
    ASSUME NEW n \in Nat
    PROVE  ComputeOffsets(n) \in Nat /\ n <= ComputeOffsets(n) * BatchSize
<1>1. BatchSize \in Nat \ {0}
    BY RecomputationAssumption
<1>. DEFINE q == (n + BatchSize - 1) \div BatchSize
            r == (n + BatchSize - 1) % BatchSize
<1>2. q \in Nat /\ r \in 0..(BatchSize - 1)
    BY <1>1
<1>3. n + BatchSize - 1 = BatchSize * q + r
    BY <1>1
<1>. HIDE DEF q, r
<1>4. BatchSize * q = q * BatchSize /\ q * BatchSize \in Nat
    BY <1>1, <1>2
<1>5. n <= q * BatchSize
    BY <1>1, <1>2, <1>3, <1>4
<1>. QED
    BY <1>2, <1>5 DEF ComputeOffsets, q

\* The next batch begins where the last one ends.
LEMMA NextOffset ==
    ASSUME NEW n \in Nat
    PROVE  n * BatchSize \in Nat /\ (n + 1) * BatchSize = n * BatchSize + BatchSize
BY RecomputationAssumption

-----------------------------------------------------------------------------
(* Typing, and what a run knows.                                           *)

\* What TypeOK says of the sizes.
LEMMA Sizes ==
    ASSUME TypeOK
    PROVE  /\ last \in 0..MaxId /\ last \in Nat
           /\ rows \subseteq Ids /\ Selected \subseteq rows /\ Selected \in SUBSET Ids
           /\ batches \in Nat /\ index \in Nat
           /\ IsFiniteSet(deleted) /\ Cardinality(deleted) \in Nat
           /\ IsFiniteSet(matched) /\ Cardinality(matched) \in Nat
           /\ index * BatchSize \in Nat
           /\ (index + 1) * BatchSize = index * BatchSize + BatchSize
<1>1. last \in 0..MaxId /\ last \in Nat /\ batches \in Nat /\ index \in Nat
    <2>1. last \in 0..MaxId /\ batches \in Nat /\ index \in 0..batches
        BY DEF TypeOK
    <2>2. MaxId \in Nat
        BY RecomputationAssumption
    <2>. QED
        BY <2>1, <2>2
<1>2. rows \subseteq Ids
    <2>1. rows \subseteq 1..last /\ MaxId \in Nat
        BY RecomputationAssumption DEF TypeOK
    <2>2. 1..last \subseteq 1..MaxId
        BY <1>1, <2>1
    <2>. QED
        BY <2>1, <2>2 DEF Ids
<1>3. Selected \subseteq rows /\ Selected \in SUBSET Ids
    BY <1>2 DEF Selected
<1>4. IsFiniteSet(deleted) /\ IsFiniteSet(matched)
    BY RankType DEF TypeOK
<1>5. Cardinality(deleted) \in Nat /\ Cardinality(matched) \in Nat
    BY <1>4, FS_CardinalityType
<1>. QED
    BY <1>1, <1>2, <1>3, <1>4, <1>5, NextOffset

\* A row is inserted behind all others.
LEMMA InsertedIsNew ==
    ASSUME TypeOK, Insert
    PROVE  /\ last' \in Ids /\ last' \in 0..MaxId /\ last' \in 1..last'
           /\ 1..last \subseteq 1..last' /\ last' \notin 1..last
           /\ \A i \in 1..last : i < last'
           /\ stamp'[last'] = "now" /\ \A i \in 1..last : stamp'[i] = stamp[i]
<1>1. last' = last + 1 /\ last < MaxId /\ stamp' = [stamp EXCEPT ![last'] = "now"]
    BY DEF Insert
<1>2. last \in Nat /\ MaxId \in Nat
    BY Sizes, RecomputationAssumption
<1>3. 1..last \subseteq 1..last' /\ last' \notin 1..last /\ \A i \in 1..last : i < last'
    BY <1>1, <1>2
<1>4. /\ last' \in Ids /\ last' \in 0..MaxId /\ last' \in 1..last'
      /\ 1..last \subseteq Ids
    BY <1>1, <1>2 DEF Ids
<1>5. stamp \in [Ids -> Stamps]
    BY DEF TypeOK
<1>. QED
    BY <1>1, <1>3, <1>4, <1>5

\* The state is well typed at the start,
LEMMA InitTypeOK == Init => TypeOK
BY RecomputationAssumption DEF Init, TypeOK, Ids, Stamps

\* and stays so.
LEMMA NextTypeOK == TypeOK /\ RunSound /\ [Next]_vars => TypeOK'
<1> SUFFICES ASSUME TypeOK, RunSound, [Next]_vars PROVE TypeOK'
    OBVIOUS
<1>0. /\ last \in 0..MaxId /\ last \in Nat /\ batches \in Nat /\ index \in Nat
      /\ Selected \in SUBSET Ids
    BY Sizes
<1> USE DEF TypeOK
<1>1. CASE Count
    <2>1. Cardinality(Selected) \in Nat
        BY <1>0, RankType
    <2>2. Smaller(Limit, Cardinality(Selected)) \in Nat
        BY <2>1, RecomputationAssumption DEF Smaller
    <2>3. batches' \in Nat
        BY <1>1, <2>2, OffsetsCover DEF Count
    <2>4. index' = 0
        BY <1>1 DEF Count, RunSound
    <2>. QED
        BY <1>0, <1>1, <2>3, <2>4 DEF Count, table
<1>2. CASE GetQuery
    <2>1. records' \subseteq Ids
        BY <1>0, <1>2 DEF GetQuery, Window
    <2>. QED
        BY <1>2, <2>1 DEF GetQuery, table
<1>3. CASE UpdateRecords
    <2>1. stamp' \in [Ids -> Stamps]
        BY <1>3 DEF UpdateRecords, Stamps
    <2>2. index' \in 0..batches'
        BY <1>0, <1>3 DEF UpdateRecords, RunSound
    <2>. QED
        BY <1>3, <2>1, <2>2 DEF UpdateRecords
<1>4. CASE Finish \/ TimeOut
    BY <1>4 DEF Finish, TimeOut, table
<1>5. CASE Insert
    <2>1. rows' = rows \union {last'}
        BY <1>5 DEF Insert
    <2>2. last' \in 0..MaxId /\ last' \in 1..last'
        BY <1>5, InsertedIsNew
    <2>3. rows' \subseteq 1..last'
        BY <1>5, <2>1, <2>2, InsertedIsNew
    <2>4. stamp' \in [Ids -> Stamps]
        BY <1>5 DEF Insert, Stamps
    <2>. QED
        BY <1>5, <2>2, <2>3, <2>4 DEF Insert, run
<1>6. ASSUME NEW S \in SUBSET rows, Cleanup(S) PROVE TypeOK'
    BY <1>6, Sizes DEF Cleanup, run
<1>7. CASE UNCHANGED vars
    BY <1>7 DEF vars, table, run
<1>. QED
    BY <1>1, <1>2, <1>3, <1>4, <1>5, <1>6, <1>7 DEF Next

\* A run begins without knowing a row.
LEMMA InitRunSound == Init => RunSound
BY DEF Init, RunSound, NoneTwice

\* A page holds no row that the run has updated: under a filter that updates
\* leave, those are not selected; under one they pass, they come earlier.
LEMMA PageIsNew ==
    ASSUME TypeOK, RunSound, PagedSound, GetQuery
    PROVE  records' \intersect recomputed = {}
<1>1. SUFFICES ASSUME NEW i \in records', i \in recomputed PROVE FALSE
    OBVIOUS
<1>2. i \in Selected /\ Rank(Selected, i) \in index * BatchSize..(index * BatchSize + BatchSize - 1)
    BY <1>1 DEF GetQuery, Window
<1>3. "now" \in filter /\ i \in rows
    BY <1>1, <1>2 DEF Selected, RunSound
<1>4. pc = "select" /\ Paging /\ i \in Done
    BY <1>1 DEF GetQuery, Paging, Done
<1>5. Rank(Selected, i) < index * BatchSize
    BY <1>3, <1>4 DEF PagedSound, Reached
<1>6. i \in Nat /\ Rank(Selected, i) \in Nat
    BY <1>2, Sizes, RankType DEF Ids
<1>. QED
    BY <1>2, <1>5, <1>6, Sizes

\* What a run knows stays sound.
LEMMA RunSoundStep == TypeOK /\ RunSound /\ PagedSound /\ [Next]_vars => RunSound'
<1> SUFFICES ASSUME TypeOK, RunSound, PagedSound, [Next]_vars PROVE RunSound'
    OBVIOUS
<1>0. /\ last \in Nat /\ batches \in Nat /\ index \in Nat
      /\ Selected \subseteq rows /\ rows \subseteq 1..last
    BY Sizes DEF TypeOK
<1> USE DEF RunSound, NoneTwice
<1>1. CASE Count
    <2>1. Selected' = Selected
        BY <1>1 DEF Count, table, Selected
    <2>. QED
        BY <1>0, <1>1, <2>1 DEF Count, table
<1>2. CASE GetQuery
    <2>1. records' \subseteq Selected /\ Selected' = Selected
        BY <1>2 DEF GetQuery, Window, table, Selected
    <2>2. records' \intersect recomputed = {}
        BY <1>2, PageIsNew
    <2>. QED
        BY <1>0, <1>2, <2>1, <2>2 DEF GetQuery, table
<1>3. CASE UpdateRecords
    <2>1. recomputed \subseteq Ids
        BY DEF TypeOK
    <2>2. \A i \in recomputed' : stamp'[i] = "now"
        BY <1>3, <2>1, Sizes DEF UpdateRecords
    <2>. QED
        BY <1>0, <1>3, <2>2 DEF UpdateRecords
<1>4. CASE Finish \/ TimeOut
    BY <1>4 DEF Finish, TimeOut, table
<1>5. CASE Insert
    <2>1. 1..last \subseteq 1..last' /\ last' \notin 1..last
        BY <1>5, InsertedIsNew
    <2>3. stamp'[last'] = "now" /\ \A i \in 1..last : stamp'[i] = stamp[i]
        BY <1>5, InsertedIsNew
    <2>4. UNCHANGED <<filter, pc, batches, index, records, matched, recomputed, deleted>>
        BY <1>5 DEF Insert, run
    <2>5. rows' = rows \union {last'}
        BY <1>5 DEF Insert
    <2>6. records \intersect rows' = records \intersect rows
        BY <2>1, <2>5
    <2>7. records \intersect rows \subseteq Selected => records' \intersect rows' \subseteq Selected'
        BY <1>0, <2>3, <2>4, <2>5, <2>6 DEF Selected
    <2>. QED
        BY <2>1, <2>3, <2>4, <2>5, <2>7
<1>6. ASSUME NEW S \in SUBSET rows, Cleanup(S) PROVE RunSound'
    <2>1. Selected' = Selected \ S
        BY <1>6 DEF Cleanup, Selected, run
    <2>. QED
        BY <1>0, <1>6, <2>1 DEF Cleanup, run
<1>7. CASE UNCHANGED vars
    <2>1. Selected' = Selected
        BY <1>7 DEF vars, table, run, Selected
    <2>. QED
        BY <1>7, <2>1 DEF vars, table, run
<1>. QED
    BY <1>1, <1>2, <1>3, <1>4, <1>5, <1>6, <1>7 DEF Next

-----------------------------------------------------------------------------
(* What a run that pages through a list has seen of it.                    *)

\* What the filter selected and nobody deleted it still selects, if updated
\* rows pass it.
LEMMA MatchedSelected ==
    ASSUME TypeOK, PagedSound, "now" \in filter
    PROVE  matched \intersect rows \subseteq Selected
BY DEF PagedSound, Selected

\* It is among the first of what is selected: what was inserted comes after it.
LEMMA MatchedFirst ==
    ASSUME TypeOK, PagedSound, "now" \in filter, pc # "count",
           NEW i \in matched \intersect rows
    PROVE  Rank(Selected, i) \in Nat /\ Rank(Selected, i) < Cardinality(matched)
<1>1. i \in Nat /\ matched \in SUBSET Ids
    <2>1. i \in Ids
        BY Sizes
    <2>2. matched \in SUBSET Ids
        BY DEF TypeOK
    <2>. QED
        BY <2>1, <2>2 DEF Ids
<1>2. {j \in Selected : j < i} \subseteq {j \in matched : j < i}
    <2>1. \A j \in Selected \ matched : i < j /\ j \in Nat
        BY Sizes DEF PagedSound, Ids
    <2>. QED
        BY <1>1, <2>1
<1>3. Rank(Selected, i) <= Rank(matched, i)
    BY <1>1, <1>2, RankType, FS_Subset DEF Rank
<1>4. Rank(matched, i) \in 0..(Cardinality(matched) - 1)
    BY <1>1, RankBelow
<1>5. Rank(Selected, i) \in Nat
    BY <1>1, Sizes, RankType
<1>. QED
    BY <1>3, <1>4, <1>5, Sizes

\* When there is nothing at the next offset, or no next offset, a run that no
\* limit cut off has left out only what deletions moved.
LEMMA EndsSound ==
    ASSUME TypeOK, RunSound, PagedSound, pc = "select", "now" \in filter, Unlimited,
           \/ Window(Selected, index * BatchSize) = {}
           \/ index = batches
    PROVE  Cardinality(Missed) <= Cardinality(deleted)
<1>1. Done = recomputed /\ Reached = index * BatchSize /\ Paging
    BY DEF RunSound, Done, Reached, Paging
<1>2. ASSUME NEW i \in Missed PROVE Rank(Selected, i) < Reached
    <2>1. i \in matched \intersect rows /\ i \in Selected
        BY MatchedSelected DEF Missed
    <2>2. Rank(Selected, i) \in 0..(Cardinality(Selected) - 1)
        BY <2>1, Sizes, RankBelow
    <2>3. CASE index = batches
        <3>1. Cardinality(matched) <= index * BatchSize
            BY <1>1, <2>3 DEF PagedSound
        <3>. QED
            BY <1>1, <2>1, <3>1, MatchedFirst, Sizes
    <2>4. CASE Window(Selected, index * BatchSize) = {}
        <3>1. Cardinality(Selected) \in Nat /\ index * BatchSize \in Nat /\ BatchSize \in Nat \ {0}
            BY Sizes, RankType, RecomputationAssumption
        <3>2. ASSUME Rank(Selected, i) >= index * BatchSize PROVE FALSE
            <4>1. index * BatchSize \in 0..(Cardinality(Selected) - 1)
                BY <2>2, <3>1, <3>2
            <4>2. PICK j \in Selected : Rank(Selected, j) = index * BatchSize
                BY <4>1, Sizes, RankOnto
            <4>3. index * BatchSize \in index * BatchSize..(index * BatchSize + BatchSize - 1)
                BY <3>1
            <4>. QED
                BY <2>4, <4>2, <4>3 DEF Window
        <3>. QED
            BY <1>1, <2>2, <3>1, <3>2
    <2>. QED
        BY <2>3, <2>4
<1>3. Missed \subseteq Skipped
    BY <1>1, <1>2 DEF Missed, Skipped
<1>4. Cardinality(Skipped) <= Cardinality(deleted)
    BY <1>1 DEF PagedSound
<1>5. IsFiniteSet(Skipped)
    BY Sizes, FS_Subset DEF Skipped
<1>6. Cardinality(Missed) <= Cardinality(Skipped)
    BY <1>3, <1>5, FS_Subset
<1>. QED
    BY <1>3, <1>4, <1>5, <1>6, FS_Subset, FS_CardinalityType, Sizes

\* A row inserted at the end moves no other.
LEMMA InsertKeepsRanks ==
    ASSUME TypeOK, Insert
    PROVE  /\ Selected' \ {last'} = Selected
           /\ \A i \in 1..last : Rank(Selected', i) = Rank(Selected, i)
<1>1. UNCHANGED filter /\ rows' = rows \union {last'}
    BY DEF Insert, run
<1>2. Selected' \ {last'} = Selected
    BY <1>1, InsertedIsNew DEF Selected, TypeOK
<1>3. ASSUME NEW i \in 1..last PROVE Rank(Selected', i) = Rank(Selected, i)
    <2>1. i < last' /\ i \in Nat /\ last' \in Nat
        BY InsertedIsNew DEF Ids
    <2>2. {j \in Selected' : j < i} = {j \in Selected : j < i}
        BY <1>2, <2>1
    <2>. QED
        BY <2>2 DEF Rank
<1>. QED
    BY <1>2, <1>3

\* A deletion moves up at most as many rows into what a run has been through
\* as it deletes.
LEMMA CleanupSkips ==
    ASSUME TypeOK, RunSound, PagedSound, Paging, "now" \in filter,
           NEW S \in SUBSET rows, Cleanup(S)
    PROVE  Cardinality(Skipped)' <= Cardinality(deleted)'
<1> DEFINE X == {i \in Selected : Rank(Selected, i) \in Reached..(Reached + Cardinality(S) - 1)}
<1>1. /\ Selected' = Selected \ S /\ rows' = rows \ S /\ deleted' = deleted \union S
      /\ UNCHANGED run /\ Done' = Done /\ Reached' = Reached /\ matched' = matched
    BY DEF Cleanup, Selected, run, Done, Reached
<1>2. /\ IsFiniteSet(S) /\ Cardinality(S) \in Nat /\ Reached \in Nat
      /\ IsFiniteSet(Selected)
    <2>1. IsFiniteSet(S) /\ IsFiniteSet(Selected) /\ Cardinality(S) \in Nat
        BY Sizes, RankType
    <2>2. BatchSize \in Nat /\ index * BatchSize \in Nat
        BY Sizes, RecomputationAssumption
    <2>3. (index + 1) * BatchSize \in Nat
        BY <2>2, Sizes
    <2>. QED
        BY <2>1, <2>2, <2>3 DEF Reached
<1>3. Cardinality(deleted') = Cardinality(deleted) + Cardinality(S)
    <2>1. deleted \cap S = {}
        BY DEF RunSound
    <2>2. /\ IsFiniteSet(deleted) /\ Cardinality(deleted) \in Nat
          /\ Cardinality(deleted \cap S) = 0
        BY <2>1, Sizes, FS_EmptySet
    <2>3. Cardinality(deleted \cup S)
            = Cardinality(deleted) + Cardinality(S) - Cardinality(deleted \cap S)
        BY <1>2, <2>2, FS_Union
    <2>. QED
        BY <1>1, <1>2, <2>2, <2>3
<1>4. Cardinality(X) <= Cardinality(S)
    BY <1>2, Sizes, RanksCount
<1>5. IsFiniteSet(X) /\ IsFiniteSet(Skipped)
    BY <1>2, Sizes, FS_Subset DEF Skipped
<1>6. Skipped' \subseteq Skipped \union X
    <2> SUFFICES ASSUME NEW i \in Skipped' PROVE i \in Skipped \union X
        OBVIOUS
    <2>1. /\ i \in (matched \intersect rows) \ Done /\ i \in Selected /\ i \in Nat
          /\ Rank(Selected \ S, i) < Reached
        BY <1>1, MatchedSelected, Sizes DEF Skipped, Ids
    <2>2. /\ Rank(Selected, i) <= Rank(Selected \ S, i) + Cardinality(S)
          /\ Rank(Selected, i) \in Nat /\ Rank(Selected \ S, i) \in Nat
        BY <2>1, Sizes, RankDrop, RankType
    <2>3. CASE Rank(Selected, i) < Reached
        BY <2>1, <2>3 DEF Skipped
    <2>4. CASE Rank(Selected, i) >= Reached
        <3>1. Rank(Selected, i) \in Reached..(Reached + Cardinality(S) - 1)
            BY <1>2, <2>1, <2>2, <2>4
        <3>. QED
            BY <2>1, <3>1
    <2>. QED
        BY <1>2, <2>2, <2>3, <2>4
<1>7. /\ IsFiniteSet(Skipped \union X)
      /\ Cardinality(Skipped \union X) <= Cardinality(Skipped) + Cardinality(X)
    <2> HIDE DEF X
    <2>1. IsFiniteSet(Skipped \cap X)
        BY <1>5, FS_Subset
    <2>2. /\ Cardinality(Skipped \cap X) \in Nat /\ Cardinality(Skipped) \in Nat
          /\ Cardinality(X) \in Nat
        BY <1>5, <2>1, FS_CardinalityType
    <2>3. /\ IsFiniteSet(Skipped \cup X)
          /\ Cardinality(Skipped \cup X)
                = Cardinality(Skipped) + Cardinality(X) - Cardinality(Skipped \cap X)
        BY <1>5, FS_Union
    <2>. QED
        BY <2>2, <2>3
<1>8. Cardinality(Skipped)' <= Cardinality(Skipped \union X) /\ Cardinality(Skipped') \in Nat
    <2> HIDE DEF X
    <2>. QED
        BY <1>6, <1>7, FS_Subset, FS_CardinalityType
<1>9. Cardinality(Skipped) <= Cardinality(deleted)
    BY DEF PagedSound
<1>10. /\ Cardinality(Skipped) \in Nat /\ Cardinality(X) \in Nat
       /\ Cardinality(Skipped \union X) \in Nat
    BY <1>5, <1>7, FS_CardinalityType
<1>. HIDE DEF X
<1>. QED
    BY <1>2, <1>3, <1>4, <1>7, <1>8, <1>9, <1>10, Sizes

\* A run begins with nothing seen.
LEMMA InitPagedSound == Init => PagedSound
BY DEF Init, PagedSound, Paging

\* What a run has been through stays what it was, but for the deletions.
LEMMA PagedSoundStep == TypeOK /\ RunSound /\ PagedSound /\ [Next]_vars => PagedSound'
<1> SUFFICES ASSUME TypeOK, RunSound, PagedSound, [Next]_vars, ("now" \in filter)'
             PROVE  PagedSound'
    BY DEF PagedSound
<1>0. "now" \in filter /\ filter' = filter
    BY DEF Next, Count, GetQuery, UpdateRecords, Finish, TimeOut, Insert, Cleanup, run, vars
<1>1. CASE Count
    <2>1. Selected' = Selected /\ matched' = Selected /\ Done' = {}
        BY <1>1 DEF Count, table, Selected, Done, RunSound
    <2>2. \A i \in matched' : stamp'[i] \in filter'
        BY <1>0, <1>1, <2>1 DEF Count, table, Selected
    <2>3. Reached' = 0
        <3>1. index' = 0 /\ pc' = "select"
            BY <1>1 DEF Count, RunSound
        <3>2. 0 * BatchSize = 0
            BY RecomputationAssumption
        <3>. QED
            BY <3>1, <3>2 DEF Reached
    <2>4. Cardinality(Skipped)' <= Cardinality(deleted)'
        <3>1. Skipped' = {}
            <4>1. \A i \in Selected : Rank(Selected, i) \in Nat
                BY Sizes, RanksTyped
            <4>2. \A i \in Selected : ~(Rank(Selected, i) < 0)
                BY <4>1
            <4>. QED
                BY <2>1, <2>3, <4>2 DEF Skipped
        <3>2. deleted' = deleted
            BY <1>1 DEF Count
        <3>. QED
            BY <3>1, <3>2, FS_EmptySet, Sizes
    <2>5. Unlimited' => Cardinality(matched)' <= batches' * BatchSize
        <3>1. Cardinality(Selected) \in Nat /\ Limit \in Nat
            BY Sizes, RankType, RecomputationAssumption
        <3>2. Unlimited' => Smaller(Limit, Cardinality(Selected)) = Cardinality(Selected)
            BY <2>1, <3>1 DEF Unlimited, Smaller
        <3>. QED
            BY <1>1, <2>1, <3>1, <3>2, OffsetsCover DEF Count
    <2>. QED
        BY <2>1, <2>2, <2>4, <2>5 DEF PagedSound
<1>2. CASE GetQuery
    <2>1. /\ pc = "select" /\ Paging /\ records = {} /\ Done = recomputed
          /\ Reached = index * BatchSize
        BY <1>2 DEF GetQuery, RunSound, Done, Reached, Paging
    <2>2. /\ UNCHANGED <<rows, stamp, matched, batches, index, recomputed, deleted>>
          /\ Selected' = Selected /\ Unlimited' = Unlimited
          /\ records' = Window(Selected, Reached)
        BY <1>2, <2>1 DEF GetQuery, table, Selected, Unlimited
    <2>3. CASE records' = {}
        <3>1. ~Paging' /\ pc' # "count"
            BY <1>2, <2>3 DEF GetQuery, Paging
        <3>. QED
            BY <2>1, <2>2, <3>1, <1>0 DEF PagedSound
    <2>4. CASE records' # {}
        <3>1. pc' = "update" /\ Reached' = Reached + BatchSize /\ Done' = recomputed \union records'
            BY <1>2, <2>1, <2>2, <2>4, Sizes DEF GetQuery, Reached, Done
        <3>2. Reached \in Nat /\ BatchSize \in Nat \ {0}
            BY <2>1, Sizes, RecomputationAssumption
        <3>3. \A i \in Ids : Rank(Selected, i) \in Nat
            BY Sizes, RanksTyped
        <3>4. ASSUME NEW i \in Done' \intersect rows PROVE Rank(Selected, i) < Reached'
            <4>1. i \in Ids
                BY Sizes
            <4>2. CASE i \in recomputed
                BY <2>1, <3>1, <3>2, <3>3, <3>4, <4>1, <4>2, <1>0 DEF PagedSound
            <4>3. CASE i \in records'
                BY <2>2, <3>1, <3>2, <3>3, <4>1, <4>3 DEF Window
            <4>. QED
                BY <3>1, <3>4, <4>2, <4>3
        <3>5. Skipped' \subseteq Skipped
            <4> SUFFICES ASSUME NEW i \in Skipped' PROVE i \in Skipped
                OBVIOUS
            <4>1. /\ i \in matched \intersect rows /\ i \notin Done' /\ i \in Selected /\ i \in Ids
                  /\ Rank(Selected, i) < Reached'
                BY <1>0, <2>2, MatchedSelected, Sizes DEF Skipped
            <4>2. Rank(Selected, i) \notin Reached..(Reached + BatchSize - 1)
                BY <2>2, <3>1, <4>1 DEF Window
            <4>3. Rank(Selected, i) < Reached
                BY <3>1, <3>2, <3>3, <4>1, <4>2
            <4>. QED
                BY <2>1, <3>1, <4>1, <4>3 DEF Skipped
        <3>6. Cardinality(Skipped') <= Cardinality(deleted)
            <4>1. IsFiniteSet(Skipped)
                BY Sizes, FS_Subset DEF Skipped
            <4>2. Cardinality(Skipped') <= Cardinality(Skipped) /\ IsFiniteSet(Skipped')
                BY <3>5, <4>1, FS_Subset
            <4>3. Cardinality(Skipped) <= Cardinality(deleted)
                BY <1>0, <2>1 DEF PagedSound
            <4>4. Cardinality(Skipped) \in Nat /\ Cardinality(Skipped') \in Nat
                BY <4>1, <4>2, FS_CardinalityType
            <4>. QED
                BY <4>2, <4>3, <4>4, Sizes
        <3>. QED
            BY <1>0, <2>1, <2>2, <3>1, <3>4, <3>6 DEF PagedSound, Paging
    <2>. QED
        BY <2>3, <2>4
<1>3. CASE UpdateRecords
    <2>1. /\ pc = "update" /\ pc' = "select" /\ Paging
          /\ UNCHANGED <<rows, matched, batches, deleted>>
          /\ index' = index + 1
          /\ Done' = recomputed \union (records \intersect rows)
        BY <1>3 DEF UpdateRecords, Done, Paging
    <2>2. Reached' = Reached
        BY <2>1 DEF Reached
    <2>3. rows \subseteq Ids /\ matched \subseteq Ids
        BY Sizes DEF TypeOK
    <2>4. \A i \in Ids : stamp'[i] = IF i \in records \intersect rows THEN "now" ELSE stamp[i]
        BY <1>3 DEF UpdateRecords
    <2>5. Selected' = Selected
        <3>1. records \intersect rows \subseteq Selected
            BY <2>1 DEF RunSound
        <3>. QED
            BY <1>0, <2>1, <2>3, <2>4, <3>1 DEF Selected
    <2>6. \A i \in matched : stamp'[i] \in filter
        BY <1>0, <2>3, <2>4 DEF PagedSound
    <2>7. Done' \intersect rows' = Done \intersect rows
        BY <2>1 DEF Done
    <2>8. Skipped' = Skipped
        BY <2>1, <2>2, <2>5, <2>7 DEF Skipped, Done
    <2>. QED
        BY <1>0, <2>1, <2>2, <2>5, <2>6, <2>7, <2>8 DEF PagedSound, Paging, Unlimited
<1>4. CASE Finish \/ TimeOut
    <2>1. UNCHANGED <<rows, stamp, matched>> /\ ~Paging' /\ pc' # "count" /\ Selected' = Selected
        BY <1>4 DEF Finish, TimeOut, table, Paging, Selected
    <2>2. pc # "count" \/ matched = {}
        BY DEF RunSound
    <2>. QED
        BY <1>0, <2>1, <2>2 DEF PagedSound
<1>5. CASE Insert
    <2>1. /\ UNCHANGED <<pc, batches, index, matched, deleted>> /\ rows' = rows \union {last'}
          /\ Done' = Done /\ Reached' = Reached /\ Paging' = Paging /\ Unlimited' = Unlimited
        BY <1>5 DEF Insert, run, Done, Reached, Paging, Unlimited
    <2>2. matched \subseteq 1..last /\ Done \subseteq 1..last /\ last' \notin 1..last
        BY <1>5, InsertedIsNew DEF RunSound, Done
    <2>3. \A i \in 1..last : /\ stamp'[i] = stamp[i] /\ i < last'
                             /\ Rank(Selected', i) = Rank(Selected, i)
        BY <1>5, InsertedIsNew, InsertKeepsRanks
    <2>4. \A j \in Selected' : j = last' \/ j \in Selected
        BY <1>5, InsertKeepsRanks
    <2>5. Done' \intersect rows' = Done \intersect rows /\ matched' \intersect rows' = matched \intersect rows
        BY <2>1, <2>2
    <2>6. Skipped' = Skipped
        BY <2>1, <2>2, <2>3, <2>5 DEF Skipped
    <2>7. \A i \in matched' : stamp'[i] \in filter'
        BY <1>0, <2>1, <2>2, <2>3 DEF PagedSound
    <2>8. pc' # "count" => \A i \in matched' : \A j \in Selected' \ matched' : i < j
        BY <1>0, <2>1, <2>2, <2>3, <2>4 DEF PagedSound
    <2>9. Paging => \A i \in Done' \intersect rows' : Rank(Selected', i) < Reached'
        BY <1>0, <2>1, <2>2, <2>3, <2>5 DEF PagedSound
    <2>. QED
        BY <1>0, <2>1, <2>6, <2>7, <2>8, <2>9 DEF PagedSound
<1>6. ASSUME NEW S \in SUBSET rows, Cleanup(S) PROVE PagedSound'
    <2>1. /\ Selected' = Selected \ S /\ rows' = rows \ S
          /\ UNCHANGED <<stamp, run>> /\ Done' = Done /\ Reached' = Reached
          /\ Paging' = Paging /\ Unlimited' = Unlimited
        BY <1>6 DEF Cleanup, Selected, run, Done, Reached, Paging, Unlimited
    <2>2. ASSUME Paging, NEW i \in Done \intersect rows' PROVE Rank(Selected', i) < Reached'
        <3>1. i \in Nat /\ i \in rows
            BY <2>1, Sizes DEF Ids
        <3>2. Rank(Selected, i) < Reached
            BY <1>0, <2>2, <3>1 DEF PagedSound
        <3>3. /\ Rank(Selected', i) <= Rank(Selected, i)
              /\ Rank(Selected', i) \in Nat /\ Rank(Selected, i) \in Nat
            BY <2>1, <3>1, Sizes, RankMonotone, RankType
        <3>4. Reached \in Nat
            <4>1. BatchSize \in Nat /\ index * BatchSize \in Nat
                BY Sizes, RecomputationAssumption
            <4>2. (index + 1) * BatchSize \in Nat
                BY <4>1, Sizes
            <4>. QED
                BY <4>1, <4>2 DEF Reached
        <3>. QED
            BY <2>1, <3>2, <3>3, <3>4
    <2>3. Paging => Cardinality(Skipped)' <= Cardinality(deleted)'
        BY <1>0, <1>6, CleanupSkips
    <2>. QED
        BY <1>0, <2>1, <2>2, <2>3 DEF PagedSound, run
<1>7. CASE UNCHANGED vars
    <2>1. /\ Selected' = Selected /\ Done' = Done /\ Reached' = Reached
          /\ Paging' = Paging /\ Unlimited' = Unlimited /\ Skipped' = Skipped
        BY <1>7 DEF vars, table, run, Selected, Done, Reached, Paging, Unlimited, Skipped
    <2>. QED
        BY <1>7, <2>1, <1>0 DEF PagedSound, vars, table, run
<1>. QED
    BY <1>1, <1>2, <1>3, <1>4, <1>5, <1>6, <1>7 DEF Next

-----------------------------------------------------------------------------
(* The invariant and what it gives.                                        *)

\* A run that ends has missed no more than the deletions explain.
LEMMA MissesStep == IInv /\ [Next]_vars => MissesAtMostDeleted'
<1> SUFFICES ASSUME IInv, [Next]_vars PROVE MissesAtMostDeleted'
    OBVIOUS
<1>0. TypeOK /\ RunSound /\ PagedSound /\ MissesAtMostDeleted
    BY DEF IInv
<1>1. CASE GetQuery \/ Finish
    <2>1. SUFFICES ASSUME pc' \in {"exited", "finished"}, "now" \in filter', Unlimited'
                   PROVE  Cardinality(Missed)' <= Cardinality(deleted)'
        BY DEF MissesAtMostDeleted
    <2>2. UNCHANGED <<filter, matched, rows, recomputed, deleted>>
        BY <1>1 DEF GetQuery, Finish, table
    <2>3. Missed' = Missed /\ Unlimited
        BY <2>1, <2>2 DEF Missed, Unlimited
    <2>4. Window(Selected, index * BatchSize) = {} \/ index = batches
        BY <1>1, <2>1 DEF GetQuery, Finish
    <2>5. pc = "select"
        BY <1>1 DEF GetQuery, Finish
    <2>. QED
        BY <1>0, <2>1, <2>2, <2>3, <2>4, <2>5, EndsSound
<1>2. CASE Count \/ UpdateRecords \/ TimeOut \/ Insert \/ \E S \in SUBSET rows : Cleanup(S)
    <2>1. pc' \notin {"exited", "finished"}
        BY <1>2 DEF Count, UpdateRecords, TimeOut, Insert, Cleanup, Running, run
    <2>. QED
        BY <2>1 DEF MissesAtMostDeleted
<1>3. CASE UNCHANGED vars
    BY <1>0, <1>3 DEF vars, table, run, MissesAtMostDeleted, Missed, Unlimited
<1>. QED
    BY <1>1, <1>2, <1>3 DEF Next

\* The inductive invariant holds in every reachable state.
THEOREM Invariance == Spec => []IInv
<1>1. Init => IInv
    <2>1. Init => MissesAtMostDeleted
        BY DEF Init, MissesAtMostDeleted
    <2>. QED
        BY <2>1, InitTypeOK, InitRunSound, InitPagedSound DEF IInv
<1>2. IInv /\ [Next]_vars => IInv'
    BY NextTypeOK, RunSoundStep, PagedSoundStep, MissesStep DEF IInv
<1>. QED
    BY <1>1, <1>2, PTL DEF Spec

\* Every reachable state is well typed, and no run processes more batches than
\* it computed offsets for.
THEOREM TypeCorrect == Spec => []TypeOK
<1>1. IInv => TypeOK
    BY DEF IInv
<1>. QED
    BY <1>1, Invariance, PTL

\* No row is recomputed twice in a run, whatever the ingestion and cleanup
\* lambdas do to the table between its queries.
THEOREM NoneRecomputedTwice == Spec => []NoneTwice
<1>1. IInv => NoneTwice
    BY DEF IInv, RunSound
<1>. QED
    BY <1>1, Invariance, PTL

\* Under a filter that updated rows pass, a run that ends of its own accord
\* misses at most one row for each one that the cleanup deleted meanwhile,
\* whatever the batch size, the table and the order of the steps.
THEOREM MissesBounded == Spec => []MissesAtMostDeleted
<1>1. IInv => MissesAtMostDeleted
    BY DEF IInv
<1>. QED
    BY <1>1, Invariance, PTL
=============================================================================
