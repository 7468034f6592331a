--------------------------- MODULE MCSearchClient ---------------------------
(* Instances of SearchClient for TLC: items enter the database in the order *)
(* of their numbers, and there are a broad search and a narrow one.         *)
EXTENDS SearchClient, TLC

CONSTANTS broad, narrow

\* The narrow search misses the second item.
Matching == broad :> Items @@ narrow :> Items \ {2}

\* A calm run has the last three items arrive one by one; in any other the
\* third comes after the others.
Beginnings == TRUE :> {1, 2} @@ FALSE :> {1, 2, 4, 5}

\* Two items have one timestamp, and the newest has two joined rows.
Stamps == 1 :> 1 @@ 2 :> 2 @@ 3 :> 3 @@ 4 :> 3 @@ 5 :> 4
Joined == [S \in SUBSET Items |-> Cardinality(S) + (IF 5 \in S THEN 1 ELSE 0)]
=============================================================================
