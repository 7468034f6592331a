------------------------ MODULE SearchClient_proofs ------------------------
(***************************************************************************)
(* Proofs about the browser's search state, for any items, searches, page  *)
(* size and joined rows, and any number of requests, acts and failures.    *)
(***************************************************************************)
EXTENDS SearchClient, FiniteSetTheorems, TLAPS

-----------------------------------------------------------------------------
(* Positions: the n-th of a set of numbers.                                *)

Place(J, j) == Cardinality({k \in J : k <= j})

\* A place in a set of positions is a number up to their number.
LEMMA PlaceType ==
    ASSUME NEW n \in Nat, NEW J \in SUBSET (1..n), NEW j \in J
    PROVE  /\ IsFiniteSet(J) /\ Cardinality(J) \in Nat
           /\ IsFiniteSet({k \in J : k <= j})
           /\ Place(J, j) \in 1..Cardinality(J)
<1> DEFINE A == {k \in J : k <= j}
<1>1. IsFiniteSet(1..n)
  BY FS_Interval
<1>2. IsFiniteSet(J) /\ Cardinality(J) \in Nat
  BY <1>1, FS_Subset, FS_CardinalityType
<1>3. A \subseteq J /\ j \in A
  OBVIOUS
<1> HIDE DEF A
<1>4. IsFiniteSet(A) /\ Cardinality(A) \in Nat /\ Cardinality(A) <= Cardinality(J)
  BY <1>2, <1>3, FS_Subset, FS_CardinalityType
<1>5. Cardinality(A) # 0
  BY <1>3, <1>4, FS_EmptySet
<1> QED
  BY <1>2, <1>4, <1>5 DEF A, Place

\* The lesser of two positions has the lesser place.
LEMMA PlaceOrders ==
    ASSUME NEW n \in Nat, NEW J \in SUBSET (1..n), NEW i \in J, NEW j \in J, i < j
    PROVE  Place(J, i) < Place(J, j)
<1> DEFINE A == {k \in J : k <= i}
           B == {k \in J : k <= j}
<1>1. IsFiniteSet(A) /\ IsFiniteSet(B)
  BY PlaceType
<1>4. \A k \in J : k \in Nat
  OBVIOUS
<1>2. A \subseteq B /\ j \in B /\ j \notin A
  <2>1. ASSUME NEW k \in J, k <= i PROVE k <= j
    <3>1. k \in Nat /\ i \in Nat /\ j \in Nat
      BY <1>4
    <3> QED
      BY <2>1, <3>1
  <2>2. j <= j /\ ~(j <= i)
    <3>1. i \in Nat /\ j \in Nat
      BY <1>4
    <3> QED
      BY <3>1
  <2> QED
    BY <2>1, <2>2
<1> HIDE DEF A, B
<1>3. /\ Cardinality(A) <= Cardinality(B) /\ Cardinality(A) # Cardinality(B)
      /\ Cardinality(A) \in Nat /\ Cardinality(B) \in Nat
  BY <1>1, <1>2, FS_Subset, FS_CardinalityType
<1> QED
  BY <1>3 DEF A, B, Place

\* So positions of one place are one position, and places are ordered.
LEMMA PlacesOrdered ==
    ASSUME NEW n \in Nat, NEW J \in SUBSET (1..n), NEW i \in J, NEW j \in J
    PROVE  /\ Place(J, i) = Place(J, j) => i = j
           /\ Place(J, i) <= Place(J, j) => i <= j
<1>1. i \in Nat /\ j \in Nat
  OBVIOUS
<1>2. Place(J, i) \in Nat /\ Place(J, j) \in Nat
  <2>1. Place(J, i) \in 1..Cardinality(J) /\ Place(J, j) \in 1..Cardinality(J)
    BY PlaceType
  <2> QED
    BY <2>1
<1>3. i < j => Place(J, i) < Place(J, j)
  BY PlaceOrders
<1>4. j < i => Place(J, j) < Place(J, i)
  BY PlaceOrders
<1> QED
  BY <1>1, <1>2, <1>3, <1>4

\* Every place is that of one position.
LEMMA PlaceOnto ==
    ASSUME NEW n \in Nat, NEW J \in SUBSET (1..n), NEW p \in 1..Cardinality(J)
    PROVE  \E j \in J : Place(J, j) = p
<1> DEFINE P == 1..Cardinality(J)
           f == [j \in J |-> Place(J, j)]
<1>1. IsFiniteSet(J) /\ Cardinality(J) \in Nat
  <2>1. IsFiniteSet(1..n)
    BY FS_Interval
  <2> QED
    BY <2>1, FS_Subset, FS_CardinalityType
<1>2. IsFiniteSet(P) /\ Cardinality(P) = Cardinality(J)
  BY <1>1, FS_Interval
<1>3. f \in [J -> P]
  BY PlaceType
<1>4. ASSUME NEW i \in J, NEW j \in J, f[i] = f[j] PROVE i = j
  <2>1. Place(J, i) = Place(J, j)
    BY <1>4
  <2> QED
    BY <2>1, PlacesOrdered
<1>5. f \in Injection(J, P)
  BY <1>3, <1>4 DEF Injection, IsInjective
<1>6. f \in Surjection(J, P)
  BY <1>1, <1>2, <1>5, FS_Injection
<1>7. \E j \in J : f[j] = p
  BY <1>6 DEF Surjection
<1> QED
  BY <1>7

\* So a finite set of numbers that is not empty has a least one.
LEMMA Least ==
    ASSUME NEW n \in Nat, NEW J \in SUBSET (1..n), J # {}
    PROVE  Min(J) \in J /\ \A k \in J : Min(J) <= k
<1>1. PICK i \in J : TRUE
  OBVIOUS
<1>2. 1 \in 1..Cardinality(J)
  <2>1. Place(J, i) \in 1..Cardinality(J) /\ Cardinality(J) \in Nat
    BY PlaceType
  <2> QED
    BY <2>1
<1>3. PICK j \in J : Place(J, j) = 1
  BY <1>2, PlaceOnto
<1>4. ASSUME NEW k \in J PROVE j <= k
  <2>1. Place(J, k) \in 1..Cardinality(J)
    BY PlaceType
  <2>2. Place(J, j) <= Place(J, k)
    BY <1>3, <2>1
  <2> QED
    BY <2>2, PlacesOrdered
<1> QED
  BY <1>4 DEF Min

-----------------------------------------------------------------------------
(* Sequences.                                                              *)

\* A sequence that repeats nothing is as long as the set of what it has.
LEMMA LengthCounts ==
    ASSUME NEW s \in Seq(Items), Unrepeated(s)
    PROVE  /\ IsFiniteSet(ToSet(s)) /\ ToSet(s) \subseteq Items
           /\ Len(s) \in Nat /\ Cardinality(ToSet(s)) = Len(s)
<1>1. Len(s) \in Nat /\ s \in [1..Len(s) -> Items] /\ DOMAIN s = 1..Len(s)
  OBVIOUS
<1>2. s \in Bijection(1..Len(s), ToSet(s))
  BY <1>1 DEF Bijection, Injection, Surjection, IsInjective, Unrepeated, ToSet
<1>3. ExistsBijection(1..Len(s), ToSet(s))
  BY <1>2 DEF ExistsBijection
<1> QED
  BY <1>1, <1>3, FS_CountingElements, FS_NatBijection DEF ToSet

\* Some of the positions of a sequence, in its order.
LEMMA AtPositionsKeeps ==
    ASSUME NEW s \in Seq(Items), NEW J \in SUBSET DOMAIN s
    PROVE  LET t == AtPositions(s, J)
           IN  /\ t \in Seq(Items) /\ ToSet(t) = {s[j] : j \in J}
               /\ Unrepeated(s) => Unrepeated(t)
               /\ Descending(s) => Descending(t)
<1> DEFINE t == AtPositions(s, J)
           c == Cardinality(J)
           At(p) == CHOOSE j \in J : Cardinality({k \in J : k <= j}) = p
<1>1. Len(s) \in Nat /\ DOMAIN s = 1..Len(s) /\ \A j \in J : s[j] \in Items /\ j \in Nat
  OBVIOUS
<1>2. c \in Nat
  <2>1. IsFiniteSet(1..Len(s))
    BY <1>1, FS_Interval
  <2> QED
    BY <1>1, <2>1, FS_Subset, FS_CardinalityType
<1>3. ASSUME NEW p \in 1..c PROVE At(p) \in J /\ Place(J, At(p)) = p
  <2>1. J \in SUBSET (1..Len(s)) /\ p \in 1..Cardinality(J)
    BY <1>1
  <2>2. \E j \in J : Place(J, j) = p
    BY <1>1, <2>1, PlaceOnto
  <2> QED
    BY <2>2 DEF Place
<1>4. ASSUME NEW j \in J PROVE Place(J, j) \in 1..c /\ At(Place(J, j)) = j
  <2> HIDE DEF At
  <2>1. Place(J, j) \in 1..c
    BY <1>1, PlaceType
  <2>2. At(Place(J, j)) \in J /\ Place(J, At(Place(J, j))) = Place(J, j)
    BY <2>1, <1>3
  <2> QED
    BY <1>1, <2>1, <2>2, PlacesOrdered
<1>5. ASSUME NEW p \in 1..c, NEW q \in 1..c, p <= q PROVE At(p) <= At(q)
  <2> HIDE DEF At, c
  <2>1. /\ At(p) \in J /\ Place(J, At(p)) = p
        /\ At(q) \in J /\ Place(J, At(q)) = q
    BY <1>3
  <2>2. Place(J, At(p)) <= Place(J, At(q))
    BY <1>5, <2>1
  <2> QED
    BY <1>1, <2>1, <2>2, PlacesOrdered
<1>6. t = [p \in 1..c |-> s[At(p)]]
  BY DEF AtPositions
<1> HIDE DEF At, t, c
<1>7. t \in Seq(Items) /\ DOMAIN t = 1..c /\ \A p \in 1..c : t[p] = s[At(p)]
  BY <1>1, <1>2, <1>3, <1>6
<1>8. ToSet(t) = {s[j] : j \in J}
  BY <1>3, <1>4, <1>7 DEF ToSet
<1>9. Unrepeated(s) => Unrepeated(t)
  <2>1. \A p, q \in 1..c : At(p) = At(q) => p = q
    BY <1>3
  <2> QED
    BY <2>1, <1>3, <1>7 DEF Unrepeated
<1>10. Descending(s) => Descending(t)
  BY <1>3, <1>5, <1>7 DEF Descending
<1> QED
  BY <1>7, <1>8, <1>9, <1>10 DEF t

\* One sequence above another.
LEMMA ConcatKeeps ==
    ASSUME NEW s \in Seq(Items), NEW t \in Seq(Items)
    PROVE  /\ s \o t \in Seq(Items) /\ ToSet(s \o t) = ToSet(s) \union ToSet(t)
           /\ Unrepeated(s) /\ Unrepeated(t) /\ ToSet(s) \intersect ToSet(t) = {}
                 => Unrepeated(s \o t)
           /\ Descending(s) /\ Descending(t) /\ Older(ToSet(t), ToSet(s))
                 => Descending(s \o t)
<1> DEFINE u == s \o t
           m == Len(s)
           n == Len(t)
<1>1. /\ m \in Nat /\ n \in Nat /\ DOMAIN s = 1..m /\ DOMAIN t = 1..n
      /\ u \in Seq(Items) /\ DOMAIN u = 1..(m + n)
      /\ \A j \in 1..m : u[j] = s[j] /\ s[j] \in ToSet(s)
      /\ \A j \in 1..n : u[j + m] = t[j] /\ t[j] \in ToSet(t)
  BY DEF ToSet
<1> HIDE DEF u, m, n
<1>2. \A j \in 1..(m + n) : j \notin 1..m => j - m \in 1..n /\ j = (j - m) + m
  BY <1>1
<1>3. \A j \in 1..m : j \in 1..(m + n)
  BY <1>1
<1>4. \A j \in 1..n : j + m \in 1..(m + n)
  BY <1>1
<1>5. ToSet(u) = ToSet(s) \union ToSet(t)
  <2>1. ToSet(s) \subseteq ToSet(u) /\ ToSet(t) \subseteq ToSet(u)
    BY <1>1, <1>3, <1>4 DEF ToSet
  <2>2. ASSUME NEW j \in 1..(m + n) PROVE u[j] \in ToSet(s) \union ToSet(t)
    BY <1>1, <1>2
  <2>3. ToSet(u) \subseteq ToSet(s) \union ToSet(t)
    BY <1>1, <2>2 DEF ToSet
  <2> QED
    BY <2>1, <2>3
<1>6. ASSUME Unrepeated(s), Unrepeated(t), ToSet(s) \intersect ToSet(t) = {}
      PROVE  Unrepeated(u)
  <2> SUFFICES ASSUME NEW j \in 1..(m + n), NEW k \in 1..(m + n), u[j] = u[k] PROVE j = k
    BY <1>1 DEF Unrepeated
  <2>1. CASE j \in 1..m /\ k \in 1..m
    BY <1>1, <1>6, <2>1 DEF Unrepeated
  <2>2. CASE j \notin 1..m /\ k \notin 1..m
    <3>1. t[j - m] = t[k - m] /\ j - m \in 1..n /\ k - m \in 1..n
      BY <1>1, <1>2, <2>2
    <3>2. j - m = k - m
      BY <1>1, <1>6, <3>1 DEF Unrepeated
    <3> QED
      BY <1>1, <3>2
  <2>3. CASE j \in 1..m /\ k \notin 1..m
    BY <1>1, <1>2, <1>6, <2>3
  <2>4. CASE j \notin 1..m /\ k \in 1..m
    BY <1>1, <1>2, <1>6, <2>4
  <2> QED
    BY <2>1, <2>2, <2>3, <2>4
<1>7. ASSUME Descending(s), Descending(t), Older(ToSet(t), ToSet(s))
      PROVE  Descending(u)
  <2> SUFFICES ASSUME NEW j \in 1..(m + n), NEW k \in 1..(m + n), j <= k
               PROVE  Time[u[j]] >= Time[u[k]]
    BY <1>1 DEF Descending
  <2>1. CASE j \in 1..m /\ k \in 1..m
    BY <1>1, <1>7, <2>1 DEF Descending
  <2>2. CASE j \notin 1..m /\ k \notin 1..m
    <3>1. u[j] = t[j - m] /\ u[k] = t[k - m] /\ j - m \in 1..n /\ k - m \in 1..n
      BY <1>1, <1>2, <2>2
    <3>2. j - m <= k - m
      BY <1>1
    <3> QED
      BY <1>1, <1>7, <3>1, <3>2 DEF Descending
  <2>3. CASE j \in 1..m /\ k \notin 1..m
    <3>1. u[j] \in ToSet(s) /\ u[k] \in ToSet(t)
      BY <1>1, <1>2, <2>3
    <3>2. Time[u[k]] <= Time[u[j]] /\ Time[u[j]] \in Nat /\ Time[u[k]] \in Nat
      <4>1. u[j] \in Items /\ u[k] \in Items
        BY <1>1
      <4> QED
        BY <1>7, <3>1, <4>1, PagingAssumption DEF Older
    <3> QED
      BY <3>2
  <2>4. CASE j \notin 1..m /\ k \in 1..m
    BY <1>1, <2>4
  <2> QED
    BY <2>1, <2>2, <2>3, <2>4
<1> QED
  BY <1>1, <1>5, <1>6, <1>7 DEF u

-----------------------------------------------------------------------------
(* What the server answers.                                                *)

\* More items have more joined rows, at least as many as there are items.
LEMMA RowsGrow ==
    ASSUME NEW S \in SUBSET Items, NEW T \in SUBSET S
    PROVE  /\ Rows[S] \in Nat /\ Rows[T] \in Nat /\ Rows[T] <= Rows[S]
           /\ IsFiniteSet(S) /\ Cardinality(S) \in Nat /\ Cardinality(S) <= Rows[S]
<1>1. T \in SUBSET Items /\ {} \in SUBSET S
  OBVIOUS
<1>2. Rows[S] \in Nat /\ Rows[T] \in Nat /\ Rows[{}] = 0
  BY <1>1, PagingAssumption
<1>3. IsFiniteSet(S) /\ IsFiniteSet(S \ T)
  BY PagingAssumption, FS_Subset
<1>4. Cardinality(S) \in Nat /\ Cardinality(S \ T) \in Nat
  BY <1>3, FS_CardinalityType
<1>5. Rows[T] + Cardinality(S \ T) <= Rows[S] /\ Rows[{}] + Cardinality(S \ {}) <= Rows[S]
  BY <1>1, PagingAssumption
<1>6. S \ {} = S
  OBVIOUS
<1> QED
  BY <1>2, <1>3, <1>4, <1>5, <1>6

\* The items of a set, newest first.
LEMMA NewestLists ==
    ASSUME NEW S \in SUBSET Items, NEW s \in Newest[S]
    PROVE  s \in Seq(Items) /\ ToSet(s) = S /\ Unrepeated(s) /\ Descending(s)
<1> DEFINE c == Cardinality(S)
           D == 1..c
<1>1. IsFiniteSet(S) /\ c \in Nat
  BY RowsGrow
<1>2. s \in SetToSeqs(S) /\ Descending(s)
  BY DEF Newest
<1>3. s \in [D -> S] /\ \A i, j \in D : i # j => s[i] # s[j]
  BY <1>2 DEF SetToSeqs
<1>4. s \in Injection(D, S)
  BY <1>3 DEF Injection, IsInjective
<1>5. Cardinality(D) = Cardinality(S)
  BY <1>1, FS_Interval
<1>6. s \in Surjection(D, S)
  BY <1>1, <1>4, <1>5, FS_Injection
<1>7. ToSet(s) = S
  BY <1>3, <1>6 DEF Surjection, ToSet
<1>8. s \in Seq(Items) /\ DOMAIN s = D
  BY <1>1, <1>3
<1> QED
  BY <1>2, <1>3, <1>7, <1>8 DEF Unrepeated

\* The items of a set, oldest first.
LEMMA OldestLists ==
    ASSUME NEW S \in SUBSET Items, NEW s \in Oldest[S]
    PROVE  /\ s \in Seq(Items) /\ ToSet(s) = S
           /\ \A j, k \in DOMAIN s : j <= k => Time[s[j]] <= Time[s[k]]
<1>1. PICK t \in Newest[S] : s = Reverse(t)
  BY DEF Oldest
<1>2. t \in Seq(Items) /\ ToSet(t) = S /\ Descending(t)
  BY NewestLists
<1> DEFINE n == Len(t)
<1>3. n \in Nat /\ DOMAIN t = 1..n /\ \A j \in 1..n : t[j] \in Items
  BY <1>2
<1>4. s = [j \in 1..n |-> t[(n - j) + 1]]
  BY <1>1 DEF Reverse
<1> HIDE DEF n
<1>5. \A j \in 1..n : (n - j) + 1 \in 1..n /\ (n - ((n - j) + 1)) + 1 = j
  BY <1>3
<1>6. s \in Seq(Items) /\ DOMAIN s = 1..n
  BY <1>3, <1>4, <1>5
<1>7. ToSet(s) = ToSet(t)
  BY <1>3, <1>4, <1>5, <1>6 DEF ToSet
<1>8. ASSUME NEW j \in 1..n, NEW k \in 1..n, j <= k PROVE Time[s[j]] <= Time[s[k]]
  <2>1. (n - k) + 1 <= (n - j) + 1
    BY <1>3, <1>8
  <2>2. Time[t[(n - k) + 1]] >= Time[t[(n - j) + 1]]
    BY <1>2, <1>3, <1>5, <2>1 DEF Descending
  <2>3. Time[t[(n - k) + 1]] \in Nat /\ Time[t[(n - j) + 1]] \in Nat
    BY <1>3, <1>5, PagingAssumption
  <2> QED
    BY <1>4, <2>2, <2>3
<1> QED
  BY <1>2, <1>6, <1>7, <1>8

\* A page is the beginning of what it is taken from, and full if that is longer.
LEMMA PageBegins ==
    ASSUME NEW s \in Seq(Items)
    PROVE  /\ Page(s) \subseteq ToSet(s)
           /\ ToSet(s) # {} => Page(s) # {}
           /\ \A x \in Page(s), y \in ToSet(s) \ Page(s) :
                 \E j, k \in DOMAIN s : j <= k /\ s[j] = x /\ s[k] = y
           /\ ToSet(s) \ Page(s) # {} => Rows[Page(s)] >= PageSize
<1> DEFINE First(k) == {s[l] : l \in 1..(k - 1)}
<1>1. Len(s) \in Nat /\ DOMAIN s = 1..Len(s) /\ \A k \in DOMAIN s : s[k] \in Items
  OBVIOUS
<1>2. Page(s) = {s[j] : j \in {k \in DOMAIN s : Rows[First(k)] < PageSize}}
  BY DEF Page
<1>3. ASSUME NEW k \in DOMAIN s PROVE First(k) \in SUBSET Items
  BY <1>1
<1>4. ASSUME NEW j \in DOMAIN s, NEW k \in DOMAIN s, k <= j
      PROVE  First(k) \in SUBSET First(j)
  <2>1. \A l \in 1..(k - 1) : l \in 1..(j - 1)
    BY <1>1, <1>4
  <2> QED
    BY <2>1
<1>5. PageSize \in Nat \ {0} /\ Rows[{}] = 0
  BY PagingAssumption
<1>6. ToSet(s) # {} => Page(s) # {}
  <2> SUFFICES ASSUME ToSet(s) # {} PROVE s[1] \in Page(s)
    OBVIOUS
  <2>1. 1 \in DOMAIN s
    BY <1>1 DEF ToSet
  <2>2. First(1) = {}
    OBVIOUS
  <2>3. Rows[{}] < PageSize
    BY <1>5
  <2> QED
    BY <1>2, <2>1, <2>2, <2>3
<1> HIDE DEF First
<1>7. ASSUME NEW x \in Page(s), NEW y \in ToSet(s) \ Page(s)
      PROVE  \E j, k \in DOMAIN s : j <= k /\ s[j] = x /\ s[k] = y
  <2>1. PICK j \in DOMAIN s : s[j] = x /\ Rows[First(j)] < PageSize
    BY <1>2, <1>7
  <2>2. PICK k \in DOMAIN s : s[k] = y
    BY <1>7 DEF ToSet
  <2>3. ~(Rows[First(k)] < PageSize)
    BY <1>2, <1>7, <2>2
  <2>4. ~(k <= j)
    <3> SUFFICES ASSUME k <= j PROVE FALSE
      OBVIOUS
    <3>1. /\ Rows[First(k)] \in Nat /\ Rows[First(j)] \in Nat
          /\ Rows[First(k)] <= Rows[First(j)]
      BY <1>3, <1>4, RowsGrow
    <3> QED
      BY <1>5, <2>1, <2>3, <3>1
  <2>5. j <= k
    BY <1>1, <2>4
  <2> QED
    BY <2>1, <2>2, <2>5
<1>8. Page(s) \subseteq ToSet(s)
  BY <1>2 DEF ToSet
<1>9. ToSet(s) \ Page(s) # {} => Rows[Page(s)] >= PageSize
  <2> SUFFICES ASSUME NEW y \in ToSet(s) \ Page(s) PROVE Rows[Page(s)] >= PageSize
    OBVIOUS
  <2> DEFINE K == {k \in DOMAIN s : ~(Rows[First(k)] < PageSize)}
             m == Min(K)
  <2>1. K \in SUBSET (1..Len(s)) /\ K # {}
    <3>1. PICK k \in DOMAIN s : s[k] = y
      BY DEF ToSet
    <3>2. k \in K
      BY <1>2, <3>1
    <3> QED
      BY <1>1, <3>2
  <2>2. m \in K /\ \A k \in K : m <= k
    BY <1>1, <2>1, Least
  <2> HIDE DEF m
  <2>3. m \in DOMAIN s /\ ~(Rows[First(m)] < PageSize)
    BY <2>2
  <2>4. First(m) \subseteq Page(s)
    <3> SUFFICES ASSUME NEW l \in 1..(m - 1) PROVE s[l] \in Page(s)
      BY DEF First
    <3>1. l \in DOMAIN s /\ ~(m <= l)
      BY <1>1, <2>3
    <3>2. Rows[First(l)] < PageSize
      BY <2>2, <3>1
    <3> QED
      BY <1>2, <3>1, <3>2
  <2>5. Page(s) \in SUBSET Items
    BY <1>1, <1>2
  <2>6. Rows[First(m)] \in Nat /\ Rows[Page(s)] \in Nat /\ Rows[First(m)] <= Rows[Page(s)]
    BY <2>4, <2>5, RowsGrow
  <2> QED
    BY <1>5, <2>3, <2>6
<1> QED
  BY <1>6, <1>7, <1>8, <1>9

\* What the WHERE clause selects.
LEMMA SelectedIs ==
    ASSUME NEW S \in SUBSET Items, NEW q \in Queries, NEW a, NEW b
    PROVE  /\ Selected(S, q, a, b) \in SUBSET Items
           /\ Selected(S, q, a, b) \subseteq S \intersect Matches[q]
           /\ \A i \in S \intersect Matches[q] :
                 i \in Selected(S, q, a, b) <=> /\ a # NoCursor => Time[i] >= a
                                                /\ b # NoCursor => Time[i] <= b
BY PagingAssumption DEF Selected

\* An answer: a page, newest first, of the newest or the oldest that is
\* selected, full if there is more, and a total that counts all of it unless
\* it is capped.
LEMMA RepliesPage ==
    ASSUME NEW S \in SUBSET Items, NEW q \in Queries, NEW a, NEW b,
           NEW rep \in Replies(S, q, a, b)
    PROVE  LET P == ToSet(rep.items)
               W == Selected(S, q, a, b)
           IN  /\ rep \in Reply
               /\ P \subseteq W
               /\ W # {} => P # {}
               /\ a = NoCursor => \A i \in W \ P : Older({i}, P)
               /\ a # NoCursor => \A i \in W \ P : Older(P, {i})
               /\ W \ P # {} => Rows[P] >= PageSize
               /\ Cardinality(W) <= rep.total \/ rep.total > CountCap
<1> DEFINE P == ToSet(rep.items)
           W == Selected(S, q, a, b)
           count == IF Rows[W] <= CountCap THEN Rows[W] ELSE CountCap + 1
<1>1. W \in SUBSET Items
  BY SelectedIs
<1> HIDE DEF W
<1>0. PICK p \in Pages(S, q, a, b) :
         \E t \in Newest[p] : rep = [items |-> t, total |-> count]
  BY DEF Replies, W
<1>2. PICK t \in Newest[p] : rep = [items |-> t, total |-> count]
  BY <1>0
<1>3. PICK s : /\ s \in IF a # NoCursor THEN Oldest[W] ELSE Newest[W]
               /\ p = Page(s)
  BY DEF Pages, W
<1>4. s \in Seq(Items) /\ ToSet(s) = W
  BY <1>1, <1>3, NewestLists, OldestLists
<1>5. /\ p \in SUBSET Items /\ p \subseteq W
      /\ W # {} => p # {}
      /\ \A x \in p, y \in W \ p :
            \E j, k \in DOMAIN s : j <= k /\ s[j] = x /\ s[k] = y
      /\ W \ p # {} => Rows[p] >= PageSize
  BY <1>1, <1>3, <1>4, PageBegins
<1>6. t \in Seq(Items) /\ ToSet(t) = p /\ Unrepeated(t) /\ Descending(t)
  BY <1>5, NewestLists
<1>7. rep.items = t /\ P = p
  BY <1>2, <1>6
<1>8. /\ Rows[W] \in Nat /\ Cardinality(W) \in Nat /\ Cardinality(W) <= Rows[W]
      /\ CountCap \in Nat
  BY <1>1, RowsGrow, PagingAssumption
<1>9. count \in Nat /\ rep.total = count
  BY <1>2, <1>8
<1>10. rep \in Reply
  BY <1>2, <1>6, <1>9 DEF Reply
<1>11. Cardinality(W) <= rep.total \/ rep.total > CountCap
  BY <1>8, <1>9
<1>12. \A i \in Items : Time[i] \in Nat
  BY PagingAssumption
<1>13. a = NoCursor => \A i \in W \ P : Older({i}, P)
  <2> SUFFICES ASSUME a = NoCursor, NEW y \in W \ p, NEW x \in p PROVE Time[y] <= Time[x]
    BY <1>7 DEF Older
  <2>1. Descending(s)
    BY <1>1, <1>3, NewestLists
  <2>2. Time[x] >= Time[y]
    BY <1>5, <2>1 DEF Descending
  <2> QED
    BY <1>1, <1>5, <1>12, <2>2
<1>14. a # NoCursor => \A i \in W \ P : Older(P, {i})
  <2> SUFFICES ASSUME a # NoCursor, NEW y \in W \ p, NEW x \in p PROVE Time[x] <= Time[y]
    BY <1>7 DEF Older
  <2> QED
    BY <1>1, <1>3, <1>5, OldestLists
<1> QED
  BY <1>5, <1>7, <1>10, <1>11, <1>13, <1>14 DEF W

-----------------------------------------------------------------------------
(* The parts of a step.                                                    *)

\* What is listed is a sequence of items, empty without results.
LEMMA ShownTyped ==
    ASSUME TypeOK
    PROVE  /\ Shown \in Seq(Items) /\ ShownItems \subseteq Items
           /\ ShownItems = {} <=> Shown = <<>>
<1>1. results = NoData \/ results \in Seq(Items)
  BY DEF TypeOK
<1>2. Shown \in Seq(Items)
  BY <1>1 DEF Shown
<1> QED
  BY <1>2 DEF ShownItems, ToSet

\* New results are what is shown next.
LEMMA ResultsShown ==
    ASSUME NEW s \in Seq(Items), results' = s
    PROVE  /\ results' # NoData /\ results' \in Seq(Items)
           /\ Shown' = s /\ ShownItems' = ToSet(s)
<1>1. s # NoData
  BY ClientAssumption
<1> QED
  BY <1>1 DEF Shown, ShownItems

\* An answer that has arrived.
LEMMA AnswerTyped ==
    ASSUME NEW r, RequestTyped(r), r.reply # NoReply
    PROVE  /\ r.reply.items \in Seq(Items) /\ r.reply.total \in Nat
           /\ Unrepeated(r.reply.items) /\ Descending(r.reply.items)
           /\ Listed(r) \subseteq Items
<1>1. r.reply \in Reply
  BY DEF RequestTyped
<1>2. /\ r.reply.items \in Seq(Items) /\ r.reply.total \in Nat
      /\ Unrepeated(r.reply.items) /\ Descending(r.reply.items)
  BY <1>1 DEF Reply
<1> QED
  BY <1>2 DEF Listed, ToSet

\* What is new in it, in its order.
LEMMA NewItemsAre ==
    ASSUME NEW r, RequestTyped(r), r.reply # NoReply
    PROVE  /\ NewItems(r) \in Seq(Items)
           /\ ToSet(NewItems(r)) = Listed(r) \ ShownItems
           /\ Unrepeated(NewItems(r)) /\ Descending(NewItems(r))
<1> DEFINE s == r.reply.items
           J == {j \in DOMAIN s : s[j] \notin ShownItems}
<1>1. s \in Seq(Items) /\ Unrepeated(s) /\ Descending(s) /\ J \in SUBSET DOMAIN s
  BY AnswerTyped
<1>2. {s[j] : j \in J} = ToSet(s) \ ShownItems
  BY DEF ToSet
<1>3. NewItems(r) = AtPositions(s, J)
  BY DEF NewItems
<1> HIDE DEF s, J
<1>4. LET t == AtPositions(s, J)
      IN  /\ t \in Seq(Items) /\ ToSet(t) = {s[j] : j \in J}
          /\ Unrepeated(s) => Unrepeated(t)
          /\ Descending(s) => Descending(t)
  BY <1>1, AtPositionsKeeps
<1> QED
  BY <1>1, <1>2, <1>3, <1>4 DEF Listed, s

\* A request that is sent.
LEMMA SentOne ==
    ASSUME TypeOK, NEW rs, NEW kind \in Kinds, NEW a, NEW b, FreeIds # {}
    PROVE  \E m : /\ Sent(rs, kind, a, b) = rs \union {m}
                  /\ RequestTyped(m) /\ m.id \in 1..MaxRequests
                  /\ m.kind = kind /\ m.query = query /\ m.after = a /\ m.before = b
                  /\ m.reply = NoReply
<1> DEFINE m == [id |-> Min(FreeIds), kind |-> kind, query |-> query,
                 after |-> a, before |-> b, reply |-> NoReply]
<1>1. Min(FreeIds) \in 1..MaxRequests
  <2>1. FreeIds \in SUBSET (1..MaxRequests) /\ MaxRequests \in Nat
    BY ClientAssumption DEF FreeIds
  <2> QED
    BY <2>1, Least
<1>2. Sent(rs, kind, a, b) = rs \union {m}
  BY DEF Sent
<1>3. /\ m.id = Min(FreeIds) /\ m.kind = kind /\ m.query = query /\ m.after = a
      /\ m.before = b /\ m.reply = NoReply /\ RequestTyped(m)
  BY DEF RequestTyped
<1> HIDE DEF m
<1> QED
  BY <1>1, <1>2, <1>3

\* A request that is answered.
LEMMA ServedOne ==
    ASSUME AnyRun, NEW r \in requests, Serve(r)
    PROVE  \E m : /\ requests' = (requests \ {r}) \union {m}
                  /\ RequestTyped(m) /\ m.id = r.id
                  /\ m.kind = r.kind /\ m.query = r.query
                  /\ m.after = r.after /\ m.before = r.before
                  /\ m.reply \in Replies(stored, r.query, r.after, r.before)
<1>1. PICK rep \in Replies(stored, r.query, r.after, r.before) :
          requests' = (requests \ {r}) \union {[r EXCEPT !.reply = rep]}
  BY DEF Serve
<1> DEFINE m == [r EXCEPT !.reply = rep]
<1>2. /\ r = [id |-> r.id, kind |-> r.kind, query |-> r.query,
              after |-> r.after, before |-> r.before, reply |-> r.reply]
      /\ stored \in SUBSET Items /\ r.query \in Queries
  BY DEF AnyRun, TypeOK, RequestTyped
<1>3. rep \in Reply
  BY <1>2, RepliesPage
<1>4. m = [id |-> r.id, kind |-> r.kind, query |-> r.query,
           after |-> r.after, before |-> r.before, reply |-> rep]
  BY <1>2
<1>5. /\ m.id = r.id /\ m.kind = r.kind /\ m.query = r.query /\ m.after = r.after
      /\ m.before = r.before /\ m.reply = rep
  BY <1>4
<1>6. requests' = (requests \ {r}) \union {m}
  BY <1>1
<1> HIDE DEF m
<1>7. RequestTyped(m)
  BY <1>3, <1>4, <1>5 DEF RequestTyped
<1> QED
  BY <1>5, <1>6, <1>7

\* What the user does: starts a search, changes the view, or asks for more.
StartsSearch ==
    /\ status' = "loading" /\ effectDue' = TRUE /\ query' \in Queries
    /\ UNCHANGED <<open, autoUpdate, loadingMore, requests>>

ChangesView ==
    /\ effectDue' \in BOOLEAN /\ autoUpdate' \in BOOLEAN
    /\ open' \in Items \union {NoItem}
    /\ UNCHANGED <<status, query, loadingMore, requests>>

AsksMore ==
    /\ Shown # <<>> /\ FreeIds # {}
    /\ \E kind \in {"more", "next"} : requests' = Sent(requests, kind, NoCursor, Earliest)
    /\ loadingMore' = TRUE
    /\ UNCHANGED <<status, config, autoUpdate, effectDue>>

LEMMA UserSteps ==
    ASSUME TypeOK, User
    PROVE  /\ Act /\ acts' = acts + 1 /\ acts < MaxActs
           /\ UNCHANGED <<calm, stored, results, total, failures>>
           /\ StartsSearch \/ ChangesView \/ AsksMore
<1> USE DEF Act, state, config
<1>1. Shown \in Seq(Items) /\ ShownItems \subseteq Items
  BY ShownTyped
<1> DEFINE Goal == /\ Act /\ acts' = acts + 1 /\ acts < MaxActs
                   /\ UNCHANGED <<calm, stored, results, total, failures>>
                   /\ StartsSearch \/ ChangesView \/ AsksMore
<1>2. ASSUME NEW i \in Items, SelectItem(i) PROVE Goal
  BY <1>2 DEF SelectItem, ChangesView, TypeOK
<1>3. ASSUME NEW kind \in {"more", "next"}, LoadMore(kind) PROVE Goal
  BY <1>3 DEF LoadMore, AsksMore
<1>4. ASSUME NEW q \in Queries, EnterQuery(q) PROVE Goal
  BY <1>4 DEF EnterQuery, StartsSearch
<1>5. ASSUME Refresh \/ Retry PROVE Goal
  BY <1>5 DEF Refresh, Retry, StartsSearch, TypeOK
<1>6. ASSUME ToggleAutoUpdate \/ DeselectItem PROVE Goal
  BY <1>6 DEF ToggleAutoUpdate, DeselectItem, ChangesView, TypeOK
<1>7. ASSUME ChooseItem PROVE Goal
  BY <1>1, <1>2, <1>7 DEF ChooseItem
<1>8. ASSUME PreviousItem PROVE Goal
  <2>1. PICK j \in 2..Len(Shown) : SelectItem(Shown[j - 1])
    BY <1>8 DEF PreviousItem
  <2>2. Shown[j - 1] \in Items
    BY <1>1
  <2> QED
    BY <1>2, <2>1, <2>2
<1>9. ASSUME NextItem PROVE Goal
  <2>1. PICK j \in 1..Len(Shown) :
            IF j < Len(Shown) THEN SelectItem(Shown[j + 1]) ELSE LoadMore("next")
    BY <1>9 DEF NextItem
  <2>2. j < Len(Shown) => Shown[j + 1] \in Items
    BY <1>1
  <2> QED
    BY <1>2, <1>3, <2>1, <2>2
<1>10. ASSUME LoadMoreResults PROVE Goal
  BY <1>3, <1>10 DEF LoadMoreResults
<1> QED
  BY <1>4, <1>5, <1>6, <1>7, <1>8, <1>9, <1>10 DEF User

-----------------------------------------------------------------------------
(* Any run.                                                                *)

\* Requests that are among those before, and perhaps one more of a known kind.
LEMMA RequestsTyped ==
    ASSUME AnyRun, NEW m,
           requests' \subseteq requests \union {m},
           RequestTyped(m) /\ m.id \in 1..MaxRequests /\ m.kind \in Kinds /\ m.query \in Queries
    PROVE  \A r \in requests' : /\ RequestTyped(r) /\ r.id \in 1..MaxRequests
                                /\ r.kind \in Kinds /\ r.query \in Queries
BY DEF AnyRun, TypeOK

LEMMA RequestsLeft ==
    ASSUME AnyRun, requests' \subseteq requests
    PROVE  \A r \in requests' : /\ RequestTyped(r) /\ r.id \in 1..MaxRequests
                                /\ r.kind \in Kinds /\ r.query \in Queries
BY DEF AnyRun, TypeOK

\* The list after each answer.
LEMMA FetchedList ==
    ASSUME AnyRun, NEW r \in requests, Fetched(r)
    PROVE  /\ results' # NoData /\ results' \in Seq(Items) /\ total' \in Nat
           /\ ShownItems' = Listed(r) /\ Unrepeated(Shown') /\ Descending(Shown')
           /\ total' = r.reply.total
<1>1. RequestTyped(r) /\ r.reply # NoReply
  BY DEF AnyRun, Fetched, Answer
<1> QED
  BY <1>1, AnswerTyped, ResultsShown DEF Fetched, Listed

LEMMA UpdatedList ==
    ASSUME AnyRun, NEW r \in requests, Updated(r)
    PROVE  /\ results' # NoData /\ results' \in Seq(Items) /\ total' \in Nat
           /\ ShownItems' = ShownItems \union Listed(r) /\ Unrepeated(Shown')
           /\ Descending(Shown) /\ Older(ShownItems, Listed(r) \ ShownItems)
                 => Descending(Shown')
           /\ results # NoData => total' = total + Cardinality(Listed(r) \ ShownItems)
<1>1. RequestTyped(r) /\ r.reply # NoReply /\ TypeOK /\ Unrepeated(Shown)
  BY DEF AnyRun, Updated, Answer
<1>2. /\ NewItems(r) \in Seq(Items) /\ ToSet(NewItems(r)) = Listed(r) \ ShownItems
      /\ Unrepeated(NewItems(r)) /\ Descending(NewItems(r))
  BY <1>1, NewItemsAre
<1>3. Shown \in Seq(Items) /\ ToSet(Shown) = ShownItems
  BY <1>1, ShownTyped DEF ShownItems
<1> DEFINE s == NewItems(r) \o Shown
<1>4. /\ s \in Seq(Items) /\ ToSet(s) = ShownItems \union Listed(r)
      /\ Unrepeated(s)
      /\ Descending(Shown) /\ Older(ShownItems, Listed(r) \ ShownItems) => Descending(s)
  <2> DEFINE N == NewItems(r)
             L == Listed(r)
  <2>1. /\ N \in Seq(Items) /\ ToSet(N) = L \ ShownItems
        /\ Unrepeated(N) /\ Descending(N)
    BY <1>2
  <2> HIDE DEF N, L
  <2>2. /\ N \o Shown \in Seq(Items)
        /\ ToSet(N \o Shown) = ToSet(N) \union ToSet(Shown)
        /\ ToSet(N) \intersect ToSet(Shown) = {} => Unrepeated(N \o Shown)
        /\ Descending(Shown) /\ Older(ToSet(Shown), ToSet(N)) => Descending(N \o Shown)
    BY <1>1, <1>3, <2>1, ConcatKeeps
  <2>3. ToSet(N) \intersect ToSet(Shown) = {}
    BY <1>3, <2>1
  <2>4. /\ N \o Shown \in Seq(Items)
        /\ ToSet(N \o Shown) = ShownItems \union L
        /\ Unrepeated(N \o Shown)
        /\ Descending(Shown) /\ Older(ShownItems, L \ ShownItems) => Descending(N \o Shown)
    BY <1>3, <2>1, <2>2, <2>3
  <2> QED
    BY <2>4 DEF N, L
<1>5. results' = s
  BY DEF Updated
<1>6. Len(NewItems(r)) \in Nat /\ Len(NewItems(r)) = Cardinality(Listed(r) \ ShownItems)
  BY <1>2, LengthCounts
<1>7. /\ results # NoData => total' = total + Len(NewItems(r))
      /\ results = NoData => total' = r.reply.total
  BY DEF Updated
<1>8. total \in Nat /\ r.reply.total \in Nat
  BY <1>1, AnswerTyped DEF TypeOK
<1> HIDE DEF s
<1>9. /\ results' # NoData /\ results' \in Seq(Items)
      /\ Shown' = s /\ ShownItems' = ToSet(s)
  BY <1>4, <1>5, ResultsShown
<1> QED
  BY <1>4, <1>6, <1>7, <1>8, <1>9

LEMMA AppendedList ==
    ASSUME AnyRun, NEW r \in requests, Append_(r)
    PROVE  /\ results' # NoData /\ results' \in Seq(Items) /\ total' \in Nat
           /\ ShownItems' = ShownItems \union Listed(r) /\ Unrepeated(Shown')
           /\ Descending(Shown) /\ Older(Listed(r) \ ShownItems, ShownItems)
                 => Descending(Shown')
           /\ results # NoData => total' = total
<1>1. RequestTyped(r) /\ r.reply # NoReply /\ TypeOK /\ Unrepeated(Shown)
  BY DEF AnyRun, Append_, Answer
<1>2. /\ NewItems(r) \in Seq(Items) /\ ToSet(NewItems(r)) = Listed(r) \ ShownItems
      /\ Unrepeated(NewItems(r)) /\ Descending(NewItems(r))
  BY <1>1, NewItemsAre
<1>3. Shown \in Seq(Items) /\ ToSet(Shown) = ShownItems
  BY <1>1, ShownTyped DEF ShownItems
<1> DEFINE s == Shown \o NewItems(r)
<1>4. /\ s \in Seq(Items) /\ ToSet(s) = ShownItems \union Listed(r)
      /\ Unrepeated(s)
      /\ Descending(Shown) /\ Older(Listed(r) \ ShownItems, ShownItems) => Descending(s)
  <2> DEFINE N == NewItems(r)
             L == Listed(r)
  <2>1. /\ N \in Seq(Items) /\ ToSet(N) = L \ ShownItems
        /\ Unrepeated(N) /\ Descending(N)
    BY <1>2
  <2> HIDE DEF N, L
  <2>2. /\ Shown \o N \in Seq(Items)
        /\ ToSet(Shown \o N) = ToSet(Shown) \union ToSet(N)
        /\ ToSet(Shown) \intersect ToSet(N) = {} => Unrepeated(Shown \o N)
        /\ Descending(Shown) /\ Older(ToSet(N), ToSet(Shown)) => Descending(Shown \o N)
    BY <1>1, <1>3, <2>1, ConcatKeeps
  <2>3. ToSet(Shown) \intersect ToSet(N) = {}
    BY <1>3, <2>1
  <2>4. /\ Shown \o N \in Seq(Items)
        /\ ToSet(Shown \o N) = ShownItems \union L
        /\ Unrepeated(Shown \o N)
        /\ Descending(Shown) /\ Older(L \ ShownItems, ShownItems) => Descending(Shown \o N)
    BY <1>3, <2>1, <2>2, <2>3
  <2> QED
    BY <2>4 DEF N, L
<1>5. results' = s
  BY DEF Append_
<1>6. /\ results # NoData => total' = total
      /\ results = NoData => total' = r.reply.total
  BY DEF Append_
<1>7. total \in Nat /\ r.reply.total \in Nat
  BY <1>1, AnswerTyped DEF TypeOK
<1> HIDE DEF s
<1>8. /\ results' # NoData /\ results' \in Seq(Items)
      /\ Shown' = s /\ ShownItems' = ToSet(s)
  BY <1>4, <1>5, ResultsShown
<1> QED
  BY <1>4, <1>6, <1>7, <1>8

\* The first item of an answer is an item.
LEMMA FirstItem ==
    ASSUME NEW r, RequestTyped(r), r.reply # NoReply, r.reply.items # <<>>
    PROVE  r.reply.items[1] \in Items
<1>1. r.reply.items \in Seq(Items)
  BY AnswerTyped
<1> QED
  BY <1>1

\* The types, and that nothing is listed twice, are kept by every step.
LEMMA AnyStep == AnyRun /\ [Next]_vars => AnyRun'
<1> SUFFICES ASSUME AnyRun, [Next]_vars PROVE AnyRun'
  OBVIOUS
<1>0. TypeOK /\ Unrepeated(Shown)
  BY DEF AnyRun
<1> USE DEF state, config
<1> DEFINE Typed(rs) == \A r \in rs : /\ RequestTyped(r) /\ r.id \in 1..MaxRequests
                                      /\ r.kind \in Kinds /\ r.query \in Queries
<1>1. ASSUME NEW i \in Items, Insert(i) PROVE AnyRun'
  <2>1. UNCHANGED <<requests, Shown>> /\ stored' \subseteq Items
    BY <1>0, <1>1 DEF Insert, Shown, TypeOK
  <2>2. Typed(requests')
    BY <2>1, RequestsLeft
  <2> QED
    BY <1>0, <1>1, <2>1, <2>2 DEF Insert, AnyRun, TypeOK, Settled
<1>2. ASSUME RunEffect PROVE AnyRun'
  <2>1. UNCHANGED <<calm, stored, config, state, acts, failures, Shown>> /\ effectDue' = FALSE
    BY <1>2 DEF RunEffect, Shown
  <2>2. Typed(requests')
    <3> DEFINE kept == {r \in requests : r.kind # "poll"}
    <3>1. CASE requests' = kept
      BY <3>1, RequestsLeft
    <3>2. CASE FreeIds # {} /\ requests' = Sent(kept, "fetch", NoCursor, NoCursor)
      <4>1. "fetch" \in Kinds /\ query \in Queries
        BY <1>0 DEF Kinds, TypeOK
      <4> HIDE DEF kept
      <4>3. \E m : /\ Sent(kept, "fetch", NoCursor, NoCursor) = kept \union {m}
                   /\ RequestTyped(m) /\ m.id \in 1..MaxRequests
                   /\ m.kind = "fetch" /\ m.query = query
        BY <1>0, <3>2, <4>1, SentOne
      <4>2. PICK m : /\ requests' = kept \union {m}
                     /\ RequestTyped(m) /\ m.id \in 1..MaxRequests
                     /\ m.kind = "fetch" /\ m.query = query
        BY <3>2, <4>3
      <4>4. kept \subseteq requests
        BY DEF kept
      <4> QED
        BY <4>1, <4>2, <4>4, RequestsTyped
    <3> QED
      BY <1>2, <3>1, <3>2 DEF RunEffect
  <2> QED
    BY <1>0, <2>1, <2>2 DEF AnyRun, TypeOK, Settled
<1>3. ASSUME Poll PROVE AnyRun'
  <2>1. UNCHANGED <<calm, stored, config, state, effectDue, acts, failures, Shown>>
    BY <1>3 DEF Poll, Shown
  <2>2. "poll" \in Kinds /\ query \in Queries
    BY <1>0 DEF Kinds, TypeOK
  <2>3. PICK m : /\ requests' = requests \union {m}
                 /\ RequestTyped(m) /\ m.id \in 1..MaxRequests
                 /\ m.kind = "poll" /\ m.query = query
    BY <1>0, <1>3, <2>2, SentOne DEF Poll
  <2>4. Typed(requests')
    BY <2>2, <2>3, RequestsTyped
  <2> QED
    BY <1>0, <2>1, <2>4 DEF AnyRun, TypeOK, Settled
<1>4. ASSUME User PROVE AnyRun'
  <2>1. /\ UNCHANGED <<calm, stored, results, total, failures, Shown>>
        /\ acts' = acts + 1 /\ acts < MaxActs
        /\ StartsSearch \/ ChangesView \/ AsksMore
    BY <1>0, <1>4, UserSteps DEF Shown
  <2>2. acts' \in 0..MaxActs
    <3>1. acts \in 0..MaxActs /\ MaxActs \in Nat
      BY <1>0, ClientAssumption DEF TypeOK
    <3> QED
      BY <2>1, <3>1
  <2>3. CASE StartsSearch
    <3>1. Typed(requests')
      BY <2>3, RequestsLeft DEF StartsSearch
    <3> QED
      BY <1>0, <2>1, <2>2, <2>3, <3>1 DEF AnyRun, TypeOK, Settled, StartsSearch
  <2>4. CASE ChangesView
    <3>1. Typed(requests')
      BY <2>4, RequestsLeft DEF ChangesView
    <3> QED
      BY <1>0, <2>1, <2>2, <2>4, <3>1 DEF AnyRun, TypeOK, Settled, ChangesView
  <2>5. CASE AsksMore
    <3>1. PICK kind \in {"more", "next"} : requests' = Sent(requests, kind, NoCursor, Earliest)
      BY <2>5 DEF AsksMore
    <3>2. kind \in Kinds /\ query \in Queries
      BY <1>0 DEF Kinds, TypeOK
    <3>3. PICK m : /\ requests' = requests \union {m}
                   /\ RequestTyped(m) /\ m.id \in 1..MaxRequests
                   /\ m.kind = kind /\ m.query = query
      <4>1. FreeIds # {} /\ TypeOK
        BY <1>0, <2>5 DEF AsksMore, AnyRun
      <4> QED
        BY <3>1, <3>2, <4>1, SentOne
    <3>4. Typed(requests')
      BY <3>2, <3>3, RequestsTyped
    <3> QED
      BY <1>0, <2>1, <2>2, <2>5, <3>4 DEF AnyRun, TypeOK, Settled, AsksMore
  <2> QED
    BY <2>1, <2>3, <2>4, <2>5
<1>5. ASSUME NEW r \in requests, Serve(r) PROVE AnyRun'
  <2>1. UNCHANGED <<calm, stored, config, state, effectDue, acts, failures, Shown>>
    BY <1>5 DEF Serve, Shown
  <2>2. PICK m : /\ requests' = (requests \ {r}) \union {m}
                 /\ RequestTyped(m) /\ m.id = r.id /\ m.kind = r.kind /\ m.query = r.query
    BY <1>5, ServedOne
  <2>3. Typed(requests')
    <3>1. r.id \in 1..MaxRequests /\ r.kind \in Kinds /\ r.query \in Queries
      BY <1>0 DEF TypeOK
    <3> QED
      BY <2>2, <3>1, RequestsTyped
  <2> QED
    BY <1>0, <2>1, <2>3 DEF AnyRun, TypeOK, Settled
<1>6. ASSUME NEW r \in requests, Fetched(r) PROVE AnyRun'
  <2>1. /\ results' # NoData /\ results' \in Seq(Items) /\ total' \in Nat
        /\ Unrepeated(Shown')
    BY <1>6, FetchedList
  <2>2. Typed(requests')
    BY <1>6, RequestsLeft DEF Fetched, Answer
  <2>3. /\ UNCHANGED <<calm, stored, config, autoUpdate, loadingMore, acts, failures>>
        /\ status' = "success" /\ effectDue' = TRUE
    BY <1>6 DEF Fetched, Answer
  <2> QED
    BY <1>0, <2>1, <2>2, <2>3 DEF AnyRun, TypeOK, Settled
<1>7. ASSUME NEW r \in requests, Updated(r) PROVE AnyRun'
  <2>1. /\ results' # NoData /\ results' \in Seq(Items) /\ total' \in Nat
        /\ Unrepeated(Shown')
    BY <1>7, UpdatedList
  <2>2. Typed(requests')
    BY <1>7, RequestsLeft DEF Updated, Answer
  <2>3. /\ UNCHANGED <<calm, stored, config, autoUpdate, loadingMore, acts, failures>>
        /\ status' = "success" /\ effectDue' = TRUE
    BY <1>7 DEF Updated, Answer
  <2> QED
    BY <1>0, <2>1, <2>2, <2>3 DEF AnyRun, TypeOK, Settled
<1>8. ASSUME NEW r \in requests, UpdateIgnored(r) PROVE AnyRun'
  <2>1. UNCHANGED <<calm, stored, config, state, effectDue, acts, failures, Shown>>
    BY <1>8 DEF UpdateIgnored, Answer, Shown
  <2>2. Typed(requests')
    BY <1>8, RequestsLeft DEF UpdateIgnored, Answer
  <2> QED
    BY <1>0, <2>1, <2>2 DEF AnyRun, TypeOK, Settled
<1>9. ASSUME NEW r \in requests, Appended(r) \/ NextAppended(r) PROVE AnyRun'
  <2>0. Append_(r) /\ RequestTyped(r) /\ r.reply # NoReply /\ r.query \in Queries
    BY <1>9, <1>0 DEF Appended, NextAppended, Append_, Answer, AnyRun, TypeOK
  <2>1. /\ results' # NoData /\ results' \in Seq(Items) /\ total' \in Nat
        /\ Unrepeated(Shown')
    BY <2>0, AppendedList
  <2>2. Typed(requests')
    BY <2>0, RequestsLeft DEF Append_, Answer
  <2>3. /\ UNCHANGED <<calm, stored, autoUpdate, acts, failures>>
        /\ status' = "success" /\ effectDue' = TRUE /\ loadingMore' = FALSE
    BY <2>0 DEF Append_, Answer
  <2>4. query' \in Queries /\ open' \in Items \union {NoItem}
    <3>1. UNCHANGED <<query, open>> \/ (r.reply.items # <<>> /\ query' = r.query
                                        /\ open' = r.reply.items[1])
      BY <1>9 DEF Appended, NextAppended
    <3> QED
      BY <1>0, <2>0, <3>1, FirstItem DEF TypeOK
  <2> QED
    BY <1>0, <2>1, <2>2, <2>3, <2>4 DEF AnyRun, TypeOK, Settled
<1>10. ASSUME NEW r \in requests, Failed(r) PROVE AnyRun'
  <2>1. /\ UNCHANGED <<calm, stored, config, results, total, autoUpdate, loadingMore, acts>>
        /\ UNCHANGED Shown /\ failures' = failures + 1 /\ failures < MaxFailures
    BY <1>10 DEF Failed, Shown
  <2>2. Typed(requests')
    BY <1>10, RequestsLeft DEF Failed
  <2>3. failures' \in 0..MaxFailures
    <3>1. failures \in 0..MaxFailures /\ MaxFailures \in Nat
      BY <1>0, ClientAssumption DEF TypeOK
    <3> QED
      BY <2>1, <3>1
  <2>4. /\ status' \in {"loading", "success", "error", "offline"}
        /\ Settled' => Settled
        /\ effectDue' \in BOOLEAN
    BY <1>0, <1>10 DEF Failed, TypeOK, Settled
  <2> QED
    BY <1>0, <2>1, <2>2, <2>3, <2>4 DEF AnyRun, TypeOK
<1>11. ASSUME UNCHANGED vars PROVE AnyRun'
  <2>1. UNCHANGED <<requests, Shown>>
    BY <1>11 DEF vars, Shown
  <2>2. Typed(requests')
    BY <2>1, RequestsLeft
  <2> QED
    BY <1>0, <1>11, <2>1, <2>2 DEF vars, AnyRun, TypeOK, Settled
<1> QED
  BY <1>1, <1>2, <1>3, <1>4, <1>5, <1>6, <1>7, <1>8, <1>9, <1>10, <1>11 DEF Next, Network

-----------------------------------------------------------------------------
(* Calm runs.                                                              *)

\* Being older goes through what lies between, and from parts to a whole.
LEMMA OlderThrough ==
    ASSUME NEW S \in SUBSET Items, NEW M \in SUBSET Items, NEW T \in SUBSET Items,
           M # {}, Older(S, M), Older(M, T)
    PROVE  Older(S, T)
<1> SUFFICES ASSUME NEW i \in S, NEW j \in T PROVE Time[i] <= Time[j]
  BY DEF Older
<1>1. PICK m \in M : TRUE
  OBVIOUS
<1>2. Time[i] <= Time[m] /\ Time[m] <= Time[j]
  BY <1>1 DEF Older
<1>3. Time[i] \in Nat /\ Time[m] \in Nat /\ Time[j] \in Nat
  BY PagingAssumption
<1> QED
  BY <1>2, <1>3

LEMMA OlderParts ==
    ASSUME NEW S, NEW T, NEW U
    PROVE  /\ Older(S \union T, U) <=> Older(S, U) /\ Older(T, U)
           /\ Older(U, S \union T) <=> Older(U, S) /\ Older(U, T)
           /\ Older(S, U) /\ T \subseteq S => Older(T, U)
           /\ Older(U, S) /\ T \subseteq S => Older(U, T)
BY DEF Older

LEMMA TimesTyped == \A i \in Items : Time[i] \in Nat
BY PagingAssumption

\* The ends of a list that is ordered, newest first.
LEMMA EndsOfList ==
    ASSUME TypeOK, Descending(Shown), ShownItems # {}
    PROVE  /\ Latest \in Nat /\ Earliest \in Nat
           /\ \E i \in ShownItems : Time[i] = Latest
           /\ \E i \in ShownItems : Time[i] = Earliest
           /\ \A i \in ShownItems : Time[i] <= Latest /\ Earliest <= Time[i]
<1> DEFINE n == Len(Shown)
           T == {Time[i] : i \in ShownItems}
<1>1. Shown \in Seq(Items) /\ Shown # <<>>
  BY ShownTyped
<1>2. n \in Nat /\ n # 0 /\ DOMAIN Shown = 1..n /\ 1 \in 1..n /\ n \in 1..n
      /\ \A j \in 1..n : Shown[j] \in Items /\ 1 <= j /\ j <= n
  BY <1>1
<1> HIDE DEF n
<1>3. \A i \in ShownItems : \E j \in 1..n : i = Shown[j]
  BY <1>2 DEF ShownItems, ToSet
<1>4. Shown[1] \in ShownItems /\ Shown[n] \in ShownItems
  BY <1>2 DEF ShownItems, ToSet
<1>5. \A j \in 1..n : Time[Shown[1]] >= Time[Shown[j]] /\ Time[Shown[j]] >= Time[Shown[n]]
  BY <1>2 DEF Descending
<1>6. \A i \in ShownItems : /\ Time[Shown[1]] >= Time[i] /\ Time[i] >= Time[Shown[n]]
                            /\ Time[i] \in Nat
  BY <1>2, <1>3, <1>5, TimesTyped
<1>7. /\ Time[Shown[1]] \in T /\ \A t \in T : Time[Shown[1]] >= t
      /\ Time[Shown[n]] \in T /\ \A t \in T : Time[Shown[n]] =< t
      /\ T \subseteq Nat
  BY <1>4, <1>6
<1>8. Latest = Max(T) /\ Earliest = Min(T)
  BY <1>1 DEF Latest, Earliest
<1> HIDE DEF T
<1>9. Latest \in T /\ \A t \in T : Latest >= t
  BY <1>7, <1>8 DEF Max
<1>10. Earliest \in T /\ \A t \in T : Earliest =< t
  BY <1>7, <1>8 DEF Min
<1> QED
  BY <1>6, <1>7, <1>9, <1>10 DEF T

\* The sets of items in a calm run.
LEMMA CalmSets ==
    ASSUME AnyRun
    PROVE  /\ stored \in SUBSET Items /\ Selection \in SUBSET Items
           /\ Selection \subseteq stored /\ Selection \subseteq Matches[query]
           /\ Wanted = Selection \ ShownItems
           /\ ShownItems \in SUBSET Items
           /\ query \in Queries
BY ShownTyped DEF AnyRun, TypeOK, Selection, Wanted

\* An item that arrives is newer than all.
LEMMA CalmInsert ==
    ASSUME AnyRun, CalmRun, calm, NEW x \in Items, Insert(x)
    PROVE  CalmRun'
<1>1. /\ stored' = stored \union {x} /\ x \notin stored
      /\ \A j \in Items \ stored : Time[x] <= Time[j]
      /\ UNCHANGED <<calm, query, status, effectDue, requests, Shown, ShownItems>>
  BY DEF Insert, Shown, ShownItems, config, state
<1>2. Older(stored, Items \ stored) /\ Older(stored, {x})
  BY <1>1 DEF CalmRun, Older
<1>3. Older(stored', (Items \ stored)')
  BY <1>1, <1>2 DEF Older
<1>4. \A q \in Queries : stored' \intersect Matches[q] # {}
  BY <1>1 DEF CalmRun
<1>5. Selection' \subseteq Selection \union {x} /\ Selection \subseteq Selection'
      /\ Wanted' \subseteq Wanted \union {x}
  BY <1>1 DEF Selection, Wanted
<1>6. \A S \in SUBSET stored : Older(S, {x})
  BY <1>2, OlderParts
<1>7. Selection \subseteq stored
  BY CalmSets
<1>8. CASE status = "loading"
  <2>1. LoadingFits
    BY <1>8 DEF CalmRun
  <2>2. ASSUME NEW r \in requests, FetchFits(r) PROVE FetchFits(r)'
    BY <1>1, <1>5, <1>6, <1>7, <2>2 DEF FetchFits, Listed
  <2>3. LoadingFits'
    BY <1>1, <2>1, <2>2 DEF LoadingFits, Quiet
  <2> QED
    BY <1>1, <1>3, <1>4, <1>8, <2>3 DEF CalmRun
<1>9. CASE status = "success"
  <2>1. ListFits
    BY <1>9 DEF CalmRun
  <2>2. Older(ShownItems, {x})
    BY <1>6, <1>7, <2>1 DEF ListFits
  <2>3. ASSUME NEW r \in requests, PollFits(r) PROVE PollFits(r)'
    BY <1>1, <1>5, <1>6, <1>7, <2>2, <2>3 DEF PollFits, Listed
  <2>4. ASSUME NEW r \in requests, MoreFits(r) PROVE MoreFits(r)'
    BY <1>1, <1>5, <1>6, <1>7, <2>2, <2>4 DEF MoreFits, Listed
  <2>5. ListFits'
    BY <1>1, <1>5, <2>1, <2>2, <2>3, <2>4 DEF ListFits
  <2> QED
    BY <1>1, <1>3, <1>4, <1>9, <2>5 DEF CalmRun
<1> QED
  BY <1>8, <1>9 DEF CalmRun

\* Steps that change neither the store, the search nor the list.
LEMMA CalmSame ==
    ASSUME UNCHANGED <<calm, stored, query, results>>
    PROVE  /\ UNCHANGED <<Shown, ShownItems, Selection, Wanted>>
           /\ \A r : (FetchFits(r)' <=> FetchFits(r)) /\ (PollFits(r)' <=> PollFits(r))
                     /\ (MoreFits(r)' <=> MoreFits(r))
<1>1. UNCHANGED <<Shown, ShownItems, Selection, Wanted>>
  BY DEF Shown, ShownItems, Selection, Wanted
<1> QED
  BY <1>1 DEF FetchFits, PollFits, MoreFits, Listed

\* The effect: the fetch of a new search, alone; or fewer polls.
LEMMA CalmEffect ==
    ASSUME AnyRun, CalmRun, calm, RunEffect
    PROVE  CalmRun'
<1>1. /\ UNCHANGED <<calm, stored, query, results, status>> /\ effectDue /\ effectDue' = FALSE
  BY DEF RunEffect, config, state
<1>2. /\ UNCHANGED <<Shown, ShownItems, Selection, Wanted>>
      /\ \A r : (FetchFits(r)' <=> FetchFits(r)) /\ (PollFits(r)' <=> PollFits(r))
                /\ (MoreFits(r)' <=> MoreFits(r))
  BY <1>1, CalmSame
<1> DEFINE kept == {r \in requests : r.kind # "poll"}
<1>3. CASE status = "loading"
  <2>1. kept = {}
    BY <1>1, <1>3 DEF CalmRun, LoadingFits, Quiet
  <2>2. requests' = Sent(kept, "fetch", NoCursor, NoCursor) /\ FreeIds # {}
    BY <1>3 DEF RunEffect
  <2> HIDE DEF kept
  <2>3. "fetch" \in Kinds /\ TypeOK
    BY DEF Kinds, AnyRun
  <2>4. \E m : /\ Sent(kept, "fetch", NoCursor, NoCursor) = kept \union {m}
               /\ m.kind = "fetch" /\ m.query = query /\ m.after = NoCursor
               /\ m.before = NoCursor /\ m.reply = NoReply
    BY <2>2, <2>3, SentOne
  <2>5. PICK m : /\ requests' = {m}
                 /\ m.kind = "fetch" /\ m.query = query /\ m.after = NoCursor
                 /\ m.before = NoCursor /\ m.reply = NoReply
    BY <2>1, <2>2, <2>4
  <2>6. FetchFits(m)
    BY <2>5 DEF FetchFits
  <2>7. LoadingFits'
    BY <1>1, <1>2, <2>5, <2>6 DEF LoadingFits
  <2> QED
    BY <1>1, <1>2, <1>3, <2>7 DEF CalmRun
<1>4. CASE status = "success"
  <2>1. requests' \subseteq requests
    BY <1>4 DEF RunEffect
  <2>2. ListFits
    BY <1>4 DEF CalmRun
  <2>3. ListFits'
    BY <1>1, <1>2, <2>1, <2>2 DEF ListFits
  <2> QED
    BY <1>1, <1>2, <1>4, <2>3 DEF CalmRun
<1> QED
  BY <1>3, <1>4 DEF CalmRun

\* A poll starts at the top of the list.
LEMMA CalmPoll ==
    ASSUME AnyRun, CalmRun, calm, Poll
    PROVE  CalmRun'
<1>1. /\ UNCHANGED <<calm, stored, query, results, status, effectDue>>
      /\ FreeIds # {} /\ requests' = Sent(requests, "poll", Latest, NoCursor)
      /\ status # "loading"
  BY DEF Poll, config, state, Settled
<1>2. /\ UNCHANGED <<Shown, ShownItems, Selection, Wanted>>
      /\ \A r : (FetchFits(r)' <=> FetchFits(r)) /\ (PollFits(r)' <=> PollFits(r))
                /\ (MoreFits(r)' <=> MoreFits(r))
  BY <1>1, CalmSame
<1>3. status = "success" /\ ListFits /\ Descending(Shown) /\ TypeOK
  BY <1>1 DEF CalmRun, AnyRun
<1>4. "poll" \in Kinds
  BY DEF Kinds
<1>5. PICK m : /\ requests' = requests \union {m}
               /\ m.kind = "poll" /\ m.query = query /\ m.after = Latest
               /\ m.before = NoCursor /\ m.reply = NoReply
  BY <1>1, <1>3, <1>4, SentOne
<1>6. /\ Latest \in Nat /\ \E i \in ShownItems : Time[i] = Latest
      /\ \A i \in ShownItems : Time[i] <= Latest
  BY <1>3, EndsOfList DEF ListFits
<1>7. ASSUME NEW i \in Wanted, Latest <= Time[i] PROVE Older(ShownItems, {i})
  <2>1. Time[i] \in Nat /\ \A j \in ShownItems : Time[j] \in Nat
    BY CalmSets, TimesTyped
  <2> QED
    BY <1>6, <1>7, <2>1 DEF Older
<1>8. PollFits(m)
  BY <1>5, <1>6, <1>7 DEF PollFits
<1>9. ListFits'
  BY <1>1, <1>2, <1>3, <1>5, <1>8 DEF ListFits
<1> QED
  BY <1>1, <1>2, <1>3, <1>9 DEF CalmRun

\* The user waits, and so nothing but polls is in flight.
LEMMA CalmUser ==
    ASSUME AnyRun, CalmRun, calm, User
    PROVE  CalmRun'
<1>0. TypeOK /\ Descending(Shown)
  BY DEF AnyRun, CalmRun
<1>1. /\ UNCHANGED <<calm, stored, results, Shown>> /\ ~effectDue /\ Quiet
      /\ StartsSearch \/ ChangesView \/ AsksMore
  BY <1>0, UserSteps DEF Act, Shown
<1>2. CASE StartsSearch
  <2>1. status' = "loading" /\ LoadingFits'
    BY <1>1, <1>2 DEF StartsSearch, LoadingFits, Quiet
  <2> QED
    BY <1>1, <2>1 DEF CalmRun
<1>3. ASSUME UNCHANGED query
      PROVE  /\ UNCHANGED <<ShownItems, Selection, Wanted>>
             /\ \A r : (PollFits(r)' <=> PollFits(r)) /\ (MoreFits(r)' <=> MoreFits(r))
  BY <1>1, <1>3, CalmSame
<1>4. status = "success" /\ ListFits
  <2>1. ASSUME LoadingFits PROVE FALSE
    BY <1>1, <2>1 DEF LoadingFits, Quiet, FetchFits
  <2> QED
    BY <2>1 DEF CalmRun
<1>5. CASE ChangesView
  <2>1. UNCHANGED <<status, query, requests>>
    BY <1>5 DEF ChangesView
  <2>2. ListFits'
    BY <1>3, <1>4, <2>1 DEF ListFits
  <2> QED
    BY <1>1, <1>4, <2>1, <2>2 DEF CalmRun
<1>6. CASE AsksMore
  <2>1. UNCHANGED <<status, query>> /\ FreeIds # {}
    BY <1>6 DEF AsksMore, config
  <2>2. PICK kind \in {"more", "next"} : requests' = Sent(requests, kind, NoCursor, Earliest)
    BY <1>6 DEF AsksMore
  <2>3. kind \in Kinds
    BY DEF Kinds
  <2>4. PICK m : /\ requests' = requests \union {m}
                 /\ m.kind = kind /\ m.query = query /\ m.after = NoCursor
                 /\ m.before = Earliest /\ m.reply = NoReply
    BY <1>0, <2>1, <2>2, <2>3, SentOne
  <2>5. /\ Earliest \in Nat /\ \E i \in ShownItems : Time[i] = Earliest
        /\ \A i \in ShownItems : Earliest <= Time[i]
    BY <1>0, <1>4, EndsOfList DEF ListFits
  <2>6. MoreFits(m)
    BY <2>4, <2>5 DEF MoreFits
  <2>7. ListFits'
    BY <1>1, <1>3, <1>4, <2>1, <2>4, <2>6 DEF ListFits, Quiet
  <2> QED
    BY <1>1, <1>4, <2>1, <2>7 DEF CalmRun
<1> QED
  BY <1>1, <1>2, <1>5, <1>6

\* An answer fits what it was asked for.
LEMMA CalmServe ==
    ASSUME AnyRun, CalmRun, calm, NEW r \in requests, Serve(r)
    PROVE  CalmRun'
<1>1. UNCHANGED <<calm, stored, query, results, status, effectDue>>
  BY DEF Serve, config, state
<1>2. /\ UNCHANGED <<Shown, ShownItems, Selection, Wanted>>
      /\ \A x : (FetchFits(x)' <=> FetchFits(x)) /\ (PollFits(x)' <=> PollFits(x))
                /\ (MoreFits(x)' <=> MoreFits(x))
  BY <1>1, CalmSame
<1>3. PICK m : /\ requests' = (requests \ {r}) \union {m}
               /\ m.kind = r.kind /\ m.query = r.query
               /\ m.after = r.after /\ m.before = r.before
               /\ m.reply \in Replies(stored, r.query, r.after, r.before)
  BY ServedOne
<1> DEFINE P == Listed(m)
           W == Selected(stored, query, m.after, m.before)
<1>4. stored \in SUBSET Items /\ query \in Queries
  BY CalmSets
<1>5. ASSUME r.query = query
      PROVE  /\ P \subseteq W /\ (W # {} => P # {})
             /\ m.after = NoCursor => \A i \in W \ P : Older({i}, P)
             /\ m.after # NoCursor => \A i \in W \ P : Older(P, {i})
  <2>1. m.reply \in Replies(stored, query, m.after, m.before)
    BY <1>3, <1>5
  <2> QED
    BY <1>4, <2>1, RepliesPage DEF Listed
<1>6. /\ W \subseteq Selection
      /\ \A i \in Selection : i \in W <=> /\ m.after # NoCursor => Time[i] >= m.after
                                          /\ m.before # NoCursor => Time[i] <= m.before
  BY <1>4, SelectedIs DEF Selection
<1>7. \A i \in Selection : Time[i] \in Nat
  BY CalmSets, TimesTyped
<1>8. NoCursor \notin Nat
  BY PagingAssumption
<1> HIDE DEF W
<1>9. CASE status = "loading" /\ ~effectDue
  <2>1. FetchFits(r) /\ requests = {r} /\ Selection # {}
    BY <1>4, <1>9 DEF CalmRun, LoadingFits, Selection
  <2>2. W = Selection
    BY <1>3, <1>6, <2>1 DEF FetchFits
  <2>3. FetchFits(m)
    BY <1>3, <1>5, <2>1, <2>2 DEF FetchFits
  <2>4. LoadingFits'
    BY <1>1, <1>2, <1>3, <1>9, <2>1, <2>3 DEF LoadingFits
  <2> QED
    BY <1>1, <1>2, <1>9, <2>4 DEF CalmRun
<1>10. CASE status = "loading" /\ effectDue
  <2>1. LoadingFits'
    BY <1>1, <1>3, <1>10 DEF CalmRun, LoadingFits, Quiet
  <2> QED
    BY <1>1, <1>2, <1>10, <2>1 DEF CalmRun
<1>11. CASE status = "success"
  <2>1. ListFits
    BY <1>11 DEF CalmRun
  <2>2. r.kind # "fetch" /\ r.query = query
    BY <2>1 DEF ListFits
  <2>3. ASSUME r.kind = "poll" PROVE PollFits(m)
    <3>1. PollFits(r) /\ m.after \in Nat /\ m.before = NoCursor /\ m.after # NoCursor
      BY <1>3, <1>8, <2>1, <2>3 DEF ListFits, PollFits
    <3>2. \A i \in Selection : i \in W <=> m.after <= Time[i]
      BY <1>6, <1>7, <3>1
    <3> HIDE DEF P
    <3>3. /\ P \subseteq Selection
          /\ \A i \in P : m.after <= Time[i]
          /\ \A i \in Selection \ P : m.after <= Time[i] => Older(P, {i})
      BY <1>5, <1>6, <2>2, <3>1, <3>2
    <3> QED
      BY <1>3, <3>1, <3>3 DEF PollFits, P
  <2>4. ASSUME r.kind # "poll" PROVE MoreFits(m)
    <3>1. MoreFits(r) /\ m.before \in Nat /\ m.after = NoCursor /\ m.before # NoCursor
      BY <1>3, <1>8, <2>1, <2>4 DEF ListFits, MoreFits
    <3>2. \A i \in Selection : i \in W <=> Time[i] <= m.before
      BY <1>6, <1>7, <3>1
    <3>4. Wanted \subseteq Selection
      BY CalmSets
    <3> HIDE DEF P
    <3>3. /\ P \subseteq Selection
          /\ \A i \in P : Time[i] <= m.before
          /\ \A i \in Wanted \ P : Time[i] <= m.before => Older({i}, P)
      BY <1>5, <1>6, <2>2, <3>1, <3>2, <3>4
    <3> QED
      BY <1>3, <3>1, <3>3 DEF MoreFits, P
  <2>5. ListFits'
    BY <1>1, <1>2, <1>3, <2>1, <2>3, <2>4 DEF ListFits
  <2> QED
    BY <1>1, <1>2, <1>11, <2>5 DEF CalmRun
<1> QED
  BY <1>9, <1>10, <1>11 DEF CalmRun

\* The first answer becomes the list.
LEMMA CalmFetched ==
    ASSUME AnyRun, CalmRun, calm, NEW r \in requests, Fetched(r)
    PROVE  CalmRun' /\ status = "loading" /\ FetchFits(r) /\ requests' = {}
<1>1. /\ UNCHANGED <<calm, stored, query>> /\ status' = "success"
      /\ requests' = requests \ {r} /\ r.kind = "fetch" /\ r.reply # NoReply
  BY DEF Fetched, Answer, config
<1>2. ShownItems' = Listed(r) /\ Descending(Shown')
  BY FetchedList
<1>3. status = "loading" /\ ~effectDue
  BY <1>1 DEF CalmRun, ListFits, LoadingFits, Quiet
<1>4. FetchFits(r) /\ requests' = {}
  BY <1>1, <1>3 DEF CalmRun, LoadingFits, ListFits
<1>5. Selection' = Selection /\ Wanted' = Selection \ Listed(r)
  BY <1>1, <1>2 DEF Selection, Wanted
<1>6. ListFits'
  BY <1>1, <1>2, <1>4, <1>5 DEF ListFits, FetchFits
<1> QED
  BY <1>1, <1>2, <1>3, <1>4, <1>6 DEF CalmRun

\* A poll's answer continues the list upwards, whatever was answered before it.
LEMMA CalmUpdated ==
    ASSUME AnyRun, CalmRun, calm, NEW r \in requests, Updated(r)
    PROVE  CalmRun' /\ status = "success" /\ PollFits(r)
<1>1. /\ UNCHANGED <<calm, stored, query>> /\ status' = "success"
      /\ requests' = requests \ {r} /\ r.kind = "poll" /\ r.reply # NoReply
      /\ status # "loading"
  BY DEF Updated, Answer, config
<1>2. status = "success" /\ ListFits /\ PollFits(r) /\ Descending(Shown)
  BY <1>1 DEF CalmRun, ListFits
<1> DEFINE L == Listed(r)
<1>3. /\ L \subseteq Selection /\ \A i \in L : r.after <= Time[i]
      /\ \A i \in Selection \ L : r.after <= Time[i] => Older(L, {i})
      /\ \A i \in Wanted : r.after <= Time[i] => Older(ShownItems, {i})
      /\ \E i \in ShownItems : r.after <= Time[i]
      /\ r.after \in Nat
  BY <1>1, <1>2 DEF PollFits
<1>4. /\ ShownItems \in SUBSET Items /\ Selection \in SUBSET Items
      /\ Wanted = Selection \ ShownItems /\ ShownItems # {}
      /\ ShownItems \subseteq Selection
  BY <1>2, CalmSets DEF ListFits
<1>5. Older(ShownItems, L \ ShownItems)
  BY <1>3, <1>4 DEF Older
<1>6. /\ ShownItems' = ShownItems \union L /\ Descending(Shown')
  BY <1>2, <1>5, UpdatedList
<1>7. Selection' = Selection /\ Wanted' = Wanted \ L
  BY <1>1, <1>6 DEF Selection, Wanted
<1> HIDE DEF L
<1>8. ASSUME NEW i \in Wanted', Older(ShownItems, {i}) PROVE Older(ShownItems', {i})
  <2>1. PICK j \in ShownItems : r.after <= Time[j]
    BY <1>3
  <2>2. Time[j] <= Time[i] /\ Time[i] \in Nat /\ Time[j] \in Nat
    BY <1>4, <1>7, <1>8, TimesTyped DEF Older
  <2>3. r.after <= Time[i]
    BY <1>3, <2>1, <2>2
  <2>4. Older(L, {i})
    BY <1>3, <1>4, <1>7, <2>3
  <2> QED
    BY <1>6, <1>8, <2>4, OlderParts
<1>9. ASSUME NEW S \in SUBSET Items, Older(S, ShownItems) PROVE Older(S, ShownItems')
  <2>1. Older(S, L \ ShownItems)
    BY <1>3, <1>4, <1>5, <1>9, OlderThrough
  <2>2. ShownItems' = ShownItems \union (L \ ShownItems)
    BY <1>6
  <2> QED
    BY <1>9, <2>1, <2>2, OlderParts
<1>10. \A i \in Wanted' : Older({i}, ShownItems') \/ Older(ShownItems', {i})
  <2> SUFFICES ASSUME NEW i \in Wanted'
               PROVE  Older({i}, ShownItems') \/ Older(ShownItems', {i})
    OBVIOUS
  <2>1. Older({i}, ShownItems) \/ Older(ShownItems, {i})
    BY <1>2, <1>7 DEF ListFits
  <2>2. {i} \in SUBSET Items
    BY <1>4, <1>7
  <2> QED
    BY <1>8, <1>9, <2>1, <2>2
<1>11. ASSUME NEW p \in requests, PollFits(p) PROVE PollFits(p)'
  <2>1. \E i \in ShownItems' : p.after <= Time[i]
    BY <1>6, <1>11 DEF PollFits
  <2>2. \A i \in Wanted' : p.after <= Time[i] => Older(ShownItems', {i})
    BY <1>7, <1>8, <1>11 DEF PollFits
  <2> QED
    BY <1>7, <1>11, <2>1, <2>2 DEF PollFits, Listed
<1>12. ASSUME NEW p \in requests, MoreFits(p) PROVE MoreFits(p)'
  <2>1. \E i \in ShownItems' : Time[i] <= p.before
    BY <1>6, <1>12 DEF MoreFits
  <2>2. \A i \in ShownItems' : p.before <= Time[i]
    <3> SUFFICES ASSUME NEW i \in L \ ShownItems PROVE p.before <= Time[i]
      BY <1>6, <1>12 DEF MoreFits
    <3>1. PICK j \in ShownItems : TRUE
      BY <1>4
    <3>2. p.before <= Time[j] /\ Time[j] <= Time[i] /\ p.before \in Nat
      BY <1>5, <1>12, <3>1 DEF MoreFits, Older
    <3>3. Time[i] \in Nat /\ Time[j] \in Nat
      BY <1>3, <1>4, TimesTyped
    <3> QED
      BY <3>2, <3>3
  <2>3. ASSUME p.reply # NoReply, NEW i \in Wanted' \ Listed(p), Time[i] <= p.before
        PROVE  Older({i}, Listed(p)) \/ Older(ShownItems', {i})
    <3>1. Older({i}, Listed(p)) \/ Older(ShownItems, {i})
      BY <1>7, <1>12, <2>3 DEF MoreFits
    <3> QED
      BY <1>8, <2>3, <3>1
  <2> QED
    BY <1>7, <1>12, <2>1, <2>2, <2>3 DEF MoreFits, Listed
<1>13. ListFits'
  BY <1>1, <1>2, <1>3, <1>4, <1>6, <1>7, <1>10, <1>11, <1>12 DEF ListFits
<1> QED
  BY <1>1, <1>2, <1>6, <1>13 DEF CalmRun

\* So does the answer to a request for more, downwards.
LEMMA CalmAppended ==
    ASSUME AnyRun, CalmRun, calm, NEW r \in requests, Appended(r) \/ NextAppended(r)
    PROVE  /\ CalmRun' /\ status = "success" /\ UNCHANGED query
           /\ Listed(r) \subseteq Selection /\ Older(Listed(r), ShownItems)
<1>1. /\ UNCHANGED <<calm, stored>> /\ status' = "success"
      /\ requests' = requests \ {r} /\ r.kind \in {"more", "next"} /\ r.reply # NoReply
      /\ Append_(r)
  BY DEF Appended, NextAppended, Append_, Answer
<1>2. status = "success" /\ ListFits /\ MoreFits(r) /\ Descending(Shown) /\ r.query = query
  BY <1>1 DEF CalmRun, ListFits, LoadingFits, FetchFits, Quiet
<1>3. UNCHANGED query
  BY <1>2 DEF Appended, NextAppended, config
<1> DEFINE L == Listed(r)
<1>4. /\ L \subseteq Selection /\ \A i \in L : Time[i] <= r.before
      /\ \A i \in Wanted \ L :
            Time[i] <= r.before => Older({i}, L) \/ Older(ShownItems, {i})
      /\ \E i \in ShownItems : Time[i] <= r.before
      /\ \A i \in ShownItems : r.before <= Time[i]
      /\ r.before \in Nat
  BY <1>1, <1>2 DEF MoreFits
<1>5. /\ ShownItems \in SUBSET Items /\ Selection \in SUBSET Items
      /\ Wanted = Selection \ ShownItems /\ ShownItems # {}
      /\ ShownItems \subseteq Selection
  BY <1>2, CalmSets DEF ListFits
<1>6. Older(L, ShownItems)
  <2> SUFFICES ASSUME NEW i \in L, NEW j \in ShownItems PROVE Time[i] <= Time[j]
    BY DEF Older
  <2>1. Time[i] <= r.before /\ r.before <= Time[j]
    BY <1>4
  <2>2. Time[i] \in Nat /\ Time[j] \in Nat
    BY <1>4, <1>5, TimesTyped
  <2> QED
    BY <1>4, <2>1, <2>2
<1>7. Older(L \ ShownItems, ShownItems)
  BY <1>6 DEF Older
<1>8. /\ ShownItems' = ShownItems \union L /\ Descending(Shown')
  BY <1>1, <1>2, <1>7, AppendedList
<1>9. Selection' = Selection /\ Wanted' = Wanted \ L
  BY <1>1, <1>3, <1>8 DEF Selection, Wanted
<1> HIDE DEF L
<1>10. ASSUME NEW i \in Wanted', Older(ShownItems, {i}) PROVE Older(ShownItems', {i})
  <2>1. {i} \in SUBSET Items /\ L \in SUBSET Items
    BY <1>4, <1>5, <1>9
  <2>2. Older(L, {i})
    BY <1>5, <1>6, <1>10, <2>1, OlderThrough
  <2> QED
    BY <1>8, <1>10, <2>2, OlderParts
<1>11. \A i \in Wanted' : Older({i}, ShownItems') \/ Older(ShownItems', {i})
  <2> SUFFICES ASSUME NEW i \in Wanted'
               PROVE  Older({i}, ShownItems') \/ Older(ShownItems', {i})
    OBVIOUS
  <2>1. CASE Older(ShownItems, {i})
    BY <1>10, <2>1
  <2>2. CASE Older({i}, ShownItems)
    <3>1. PICK j \in ShownItems : Time[j] <= r.before
      BY <1>4
    <3>2. Time[i] <= Time[j] /\ Time[i] \in Nat /\ Time[j] \in Nat
      BY <1>5, <1>9, <2>2, <3>1, TimesTyped DEF Older
    <3>3. Time[i] <= r.before
      BY <1>4, <3>1, <3>2
    <3>4. Older({i}, L) \/ Older(ShownItems, {i})
      BY <1>4, <1>9, <3>3
    <3>5. Older({i}, L) => Older({i}, ShownItems')
      BY <1>8, <2>2, OlderParts
    <3> QED
      BY <1>10, <3>4, <3>5
  <2>3. Older({i}, ShownItems) \/ Older(ShownItems, {i})
    BY <1>2, <1>9 DEF ListFits
  <2> QED
    BY <2>1, <2>2, <2>3
<1>12. ASSUME NEW p \in requests, PollFits(p) PROVE PollFits(p)'
  <2>1. \E i \in ShownItems' : p.after <= Time[i]
    BY <1>8, <1>12 DEF PollFits
  <2>2. \A i \in Wanted' : p.after <= Time[i] => Older(ShownItems', {i})
    BY <1>9, <1>10, <1>12 DEF PollFits
  <2> QED
    BY <1>9, <1>12, <2>1, <2>2 DEF PollFits, Listed
<1>13. \A p \in requests' : p.kind = "poll"
  BY <1>1, <1>2 DEF ListFits
<1>14. ListFits'
  BY <1>1, <1>2, <1>3, <1>4, <1>5, <1>8, <1>9, <1>11, <1>12, <1>13 DEF ListFits
<1> QED
  BY <1>1, <1>2, <1>3, <1>4, <1>6, <1>8, <1>14 DEF CalmRun, L

\* The interval is kept by every step.
LEMMA CalmStep == IInv /\ [Next]_vars => CalmRun'
<1> SUFFICES ASSUME AnyRun, CalmRun, [Next]_vars PROVE CalmRun'
  BY DEF IInv
<1>0. UNCHANGED calm
  BY DEF Next, Network, User, Insert, RunEffect, Poll, EnterQuery, Refresh, Retry,
     ToggleAutoUpdate, ChooseItem, PreviousItem, NextItem, SelectItem, DeselectItem,
     LoadMoreResults, LoadMore, Serve, Fetched, Updated, UpdateIgnored, Appended,
     NextAppended, Append_, Answer, Failed, vars
<1>1. CASE ~calm
  BY <1>0, <1>1 DEF CalmRun
<1>2. ASSUME calm, NEW r \in requests, UpdateIgnored(r) PROVE CalmRun'
  <2>1. /\ UNCHANGED <<calm, stored, query, results, status, effectDue>>
        /\ requests' = requests \ {r} /\ r.kind = "poll" /\ status = "loading"
    BY <1>2 DEF UpdateIgnored, Answer, config
  <2>2. LoadingFits'
    BY <1>2, <2>1 DEF CalmRun, LoadingFits, Quiet, FetchFits
  <2>3. UNCHANGED Shown
    BY <2>1, CalmSame
  <2> QED
    BY <1>2, <2>1, <2>2, <2>3 DEF CalmRun
<1>3. ASSUME calm, UNCHANGED vars PROVE CalmRun'
  <2>1. UNCHANGED <<calm, stored, query, results, status, effectDue, requests>>
    BY <1>3 DEF vars, config, state
  <2>2. /\ UNCHANGED <<Shown, ShownItems, Selection, Wanted>>
        /\ \A x : (FetchFits(x)' <=> FetchFits(x)) /\ (PollFits(x)' <=> PollFits(x))
                  /\ (MoreFits(x)' <=> MoreFits(x))
    BY <2>1, CalmSame
  <2>3. (LoadingFits' <=> LoadingFits) /\ (ListFits' <=> ListFits)
    BY <2>1, <2>2 DEF LoadingFits, ListFits, Quiet
  <2> QED
    BY <1>3, <2>1, <2>2, <2>3 DEF CalmRun
<1>4. ASSUME NEW r \in requests, Failed(r) PROVE ~calm
  BY <1>4 DEF Failed
<1> QED
  BY <1>1, <1>2, <1>3, <1>4, CalmInsert, CalmEffect, CalmPoll, CalmUser, CalmServe,
     CalmFetched, CalmUpdated, CalmAppended DEF Next, Network

-----------------------------------------------------------------------------
(* The total.  It counts the list and all that the search selects below it, *)
(* until it is capped, or one timestamp fills a page.                      *)

LEMMA DownFromFinite ==
    ASSUME NEW sel \in SUBSET Items, NEW S \in SUBSET Items
    PROVE  /\ DownFrom(sel, S) \in SUBSET Items /\ S \subseteq DownFrom(sel, S)
           /\ IsFiniteSet(DownFrom(sel, S)) /\ Cardinality(DownFrom(sel, S)) \in Nat
<1>1. DownFrom(sel, S) \in SUBSET Items /\ S \subseteq DownFrom(sel, S)
  BY DEF DownFrom
<1> QED
  BY <1>1, RowsGrow

LEMMA FewerOf ==
    ASSUME NEW S \in SUBSET Items, NEW T \in SUBSET S, NEW n \in Nat, Cardinality(S) <= n
    PROVE  Cardinality(T) <= n
<1>1. IsFiniteSet(S)
  BY RowsGrow
<1>2. Cardinality(T) <= Cardinality(S) /\ IsFiniteSet(T)
  BY <1>1, FS_Subset
<1>3. Cardinality(T) \in Nat /\ Cardinality(S) \in Nat
  BY <1>1, <1>2, FS_CardinalityType
<1> QED
  BY <1>2, <1>3

\* A list that grows is no less crowded.
LEMMA CrowdedGrows ==
    ASSUME NEW T \in SUBSET Items, NEW S \in SUBSET T, Crowded(S)
    PROVE  Crowded(T)
<1>1. PICK i \in S : Rows[{j \in S : Time[j] = Time[i]}] >= PageSize
  BY DEF Crowded
<1> DEFINE A == {j \in S : Time[j] = Time[i]}
           B == {j \in T : Time[j] = Time[i]}
<1>2. B \in SUBSET Items /\ A \in SUBSET B
  OBVIOUS
<1>3. Rows[A] \in Nat /\ Rows[B] \in Nat /\ Rows[A] <= Rows[B]
  BY <1>2, RowsGrow
<1>4. Rows[B] >= PageSize
  BY <1>1, <1>3, PagingAssumption
<1> QED
  BY <1>4 DEF Crowded

\* A total that accounts for a list accounts for a longer one, if it is no
\* smaller and still counts what it has counted.
LEMMA AccountsGrow ==
    ASSUME NEW sel, NEW T \in SUBSET Items, NEW S \in SUBSET T,
           NEW t \in Nat, NEW u \in Nat, t <= u, Accounts(sel, S, t),
           Cardinality(DownFrom(sel, S)) <= t => Cardinality(DownFrom(sel, T)) <= u
    PROVE  Accounts(sel, T, u)
<1>1. CountCap \in Nat
  BY PagingAssumption
<1>2. t > CountCap => u > CountCap
  BY <1>1
<1>3. Bottom(sel, S) => Bottom(sel, T)
  BY DEF Bottom
<1>4. Crowded(S) => Crowded(T)
  BY CrowdedGrows
<1>5. (\E i, j \in S : Time[i] < Time[j]) => \E i, j \in T : Time[i] < Time[j]
  OBVIOUS
<1> QED
  BY <1>2, <1>3, <1>4, <1>5 DEF Accounts

\* What arrives, as new as all of the list, is not below it.
LEMMA AccountsInsert ==
    ASSUME NEW sel \in SUBSET Items, NEW x \in Items, NEW S \in SUBSET Items, S # {},
           NEW t \in Nat, Accounts(sel, S, t), \A j \in S : Time[j] <= Time[x],
           NEW more \in SUBSET (sel \union {x})
    PROVE  Accounts(more, S, t)
<1>1. Bottom(sel, S) => Bottom(more, S)
  BY DEF Bottom
<1>2. ASSUME NEW i \in S, NEW j \in S, Time[i] < Time[j]
      PROVE  DownFrom(more, S) \subseteq DownFrom(sel, S)
  <2>1. Time[i] \in Nat /\ Time[j] \in Nat /\ Time[x] \in Nat
    BY TimesTyped
  <2>2. ~(Time[x] <= Time[i])
    BY <1>2, <2>1
  <2>3. ~Older({x}, S)
    BY <2>2 DEF Older
  <2> QED
    BY <2>3 DEF DownFrom
<1>3. ASSUME Cardinality(DownFrom(sel, S)) <= t, NEW i \in S, NEW j \in S, Time[i] < Time[j]
      PROVE  Cardinality(DownFrom(more, S)) <= t
  <2>1. DownFrom(sel, S) \in SUBSET Items
    BY DownFromFinite
  <2> QED
    BY <1>2, <1>3, <2>1, FewerOf
<1> QED
  BY <1>1, <1>3 DEF Accounts

\* Steps that change neither the list nor what is selected, and bring no first
\* answer.
LEMMA CountedSame ==
    ASSUME Counted, UNCHANGED <<calm, stored, query, results>>,
           status' = "success" => status = "success" /\ UNCHANGED total,
           \A m \in requests' : m.kind = "fetch" /\ m.reply # NoReply => m \in requests
    PROVE  Counted'
<1>1. UNCHANGED ShownItems /\ Selection' = Selection
  BY CalmSame
<1>2. \A r : Listed(r)' = Listed(r)
  BY DEF Listed
<1> QED
  BY <1>1, <1>2 DEF Counted

\* The first fetch waits for its answer alone.
LEMMA FetchAlone ==
    ASSUME AnyRun, CalmRun, calm, NEW r \in requests, r.kind = "fetch"
    PROVE  status = "loading" /\ FetchFits(r)
<1>1. status = "loading" /\ ~effectDue
  BY DEF CalmRun, ListFits, LoadingFits, Quiet
<1> QED
  BY <1>1 DEF CalmRun, LoadingFits

LEMMA CountedInsert ==
    ASSUME AnyRun, CalmRun, calm, Counted, NEW x \in Items, Insert(x)
    PROVE  Counted'
<1>1. /\ stored' = stored \union {x} /\ x \notin stored
      /\ UNCHANGED <<calm, query, results, status, total, requests, Shown, ShownItems>>
  BY DEF Insert, config, state, Shown, ShownItems
<1>2. /\ Selection \in SUBSET Items /\ stored \in SUBSET Items
      /\ Selection' \in SUBSET (Selection \union {x})
  BY <1>1, CalmSets DEF Selection
<1>3. \A j \in stored : Time[j] <= Time[x]
  BY <1>1 DEF CalmRun, Older
<1>4. status = "success" => Accounts(Selection', ShownItems, total)
  <2> SUFFICES ASSUME status = "success" PROVE Accounts(Selection', ShownItems, total)
    OBVIOUS
  <2>1. ShownItems # {} /\ ShownItems \in SUBSET stored /\ ShownItems \in SUBSET Items
    BY CalmSets DEF CalmRun, ListFits
  <2>2. total \in Nat
    BY DEF AnyRun, TypeOK
  <2>3. Accounts(Selection, ShownItems, total)
    BY DEF Counted
  <2> QED
    BY <1>2, <1>3, <2>1, <2>2, <2>3, AccountsInsert
<1>5. ASSUME NEW r \in requests, r.kind = "fetch", r.reply # NoReply
      PROVE  Accounts(Selection', Listed(r), r.reply.total)
  <2>1. Listed(r) # {} /\ Listed(r) \in SUBSET stored /\ Listed(r) \in SUBSET Items
    BY <1>5, FetchAlone, CalmSets DEF FetchFits
  <2>2. r.reply.total \in Nat
    BY <1>5, AnswerTyped DEF AnyRun
  <2>3. Accounts(Selection, Listed(r), r.reply.total)
    BY <1>5 DEF Counted
  <2> QED
    BY <1>2, <1>3, <2>1, <2>2, <2>3, AccountsInsert
<1>6. \A r : Listed(r)' = Listed(r)
  BY DEF Listed
<1> QED
  BY <1>1, <1>4, <1>5, <1>6 DEF Counted

\* An answer that accounts for what it lists.
LEMMA CountedReplied ==
    ASSUME Counted, UNCHANGED <<calm, stored, query, results, status, total>>,
           status = "loading", NEW r, NEW m, requests' = (requests \ {r}) \union {m},
           Accounts(Selection, Listed(m), m.reply.total)
    PROVE  Counted'
<1>1. Selection' = Selection
  BY DEF Selection
<1>2. \A p : Listed(p)' = Listed(p)
  BY DEF Listed
<1> QED
  BY <1>1, <1>2 DEF Counted

\* The count of an answer is of all that is selected; its page has the last of
\* it, or is full: of one timestamp, or of several.
LEMMA CountedServe ==
    ASSUME AnyRun, CalmRun, calm, Counted, NEW r \in requests, Serve(r)
    PROVE  Counted'
<1>1. UNCHANGED <<calm, stored, query, results, status, total>>
  BY DEF Serve, config, state
<1>2. PICK m : /\ requests' = (requests \ {r}) \union {m}
               /\ m.kind = r.kind /\ m.query = r.query
               /\ m.after = r.after /\ m.before = r.before
               /\ m.reply \in Replies(stored, r.query, r.after, r.before)
  BY ServedOne
<1>3. CASE r.kind # "fetch"
  <2>1. \A p \in requests' : p.kind = "fetch" /\ p.reply # NoReply => p \in requests
    BY <1>2, <1>3
  <2> QED
    BY <1>1, <2>1, CountedSame
<1>4. CASE r.kind = "fetch"
  <2>1. /\ status = "loading" /\ r.query = query
        /\ r.after = NoCursor /\ r.before = NoCursor
    BY <1>4, FetchAlone DEF FetchFits
  <2> DEFINE W == Selected(stored, query, NoCursor, NoCursor)
             P == Listed(m)
             t == m.reply.total
  <2>2. stored \in SUBSET Items /\ query \in Queries /\ Selection \in SUBSET Items
    BY CalmSets
  <2>3. m.reply \in Replies(stored, query, NoCursor, NoCursor)
    BY <1>2, <2>1
  <2>4. /\ P \subseteq W /\ m.reply \in Reply
        /\ W \ P # {} => Rows[P] >= PageSize
        /\ Cardinality(W) <= t \/ t > CountCap
    BY <2>2, <2>3, RepliesPage DEF Listed
  <2>5. W = Selection
    <3>1. W \subseteq Selection
      BY <2>2, SelectedIs DEF Selection
    <3>2. \A i \in Selection : i \in W
      BY <2>2, SelectedIs DEF Selection
    <3> QED
      BY <3>1, <3>2
  <2>6. t \in Nat /\ P \in SUBSET Items
    BY <2>2, <2>4, <2>5 DEF Reply
  <2> HIDE DEF W, P, t
  <2>7. DownFrom(Selection, P) \subseteq Selection
    BY <2>4, <2>5 DEF DownFrom
  <2>8. Cardinality(DownFrom(Selection, P)) <= t \/ t > CountCap
    BY <2>2, <2>4, <2>5, <2>6, <2>7, FewerOf
  <2>9. CASE P = W
    <3>1. \A i \in Selection : Time[i] <= Time[i]
      BY <2>2, TimesTyped
    <3>2. Bottom(Selection, P)
      BY <2>5, <2>9, <3>1 DEF Bottom
    <3> QED
      BY <1>1, <1>2, <2>1, <3>2, CountedReplied DEF P, Accounts
  <2>10. CASE P # W
    <3>1. Rows[P] >= PageSize
      BY <2>4, <2>10
    <3>2. ASSUME \A i, j \in P : ~(Time[i] < Time[j]) PROVE Crowded(P)
      <4>1. PICK i \in P : TRUE
        <5>1. Rows[{}] = 0 /\ PageSize \in Nat \ {0}
          BY PagingAssumption
        <5>2. P # {}
          BY <3>1, <5>1
        <5> QED
          BY <5>2
      <4>2. \A j \in P : Time[j] = Time[i]
        BY <2>6, <3>2, TimesTyped
      <4>3. {j \in P : Time[j] = Time[i]} = P
        BY <4>2
      <4>4. Rows[{j \in P : Time[j] = Time[i]}] >= PageSize
        BY <3>1, <4>3
      <4> QED
        BY <4>4 DEF Crowded
    <3> QED
      BY <1>1, <1>2, <2>1, <2>8, <3>2, CountedReplied DEF P, t, Accounts
  <2> QED
    BY <2>9, <2>10
<1> QED
  BY <1>3, <1>4

\* The first answer brings its own total.
LEMMA CountedFetched ==
    ASSUME AnyRun, CalmRun, calm, Counted, NEW r \in requests, Fetched(r)
    PROVE  Counted'
<1>1. UNCHANGED <<calm, stored, query>> /\ r.kind = "fetch" /\ r.reply # NoReply
  BY DEF Fetched, Answer, config
<1>2. requests' = {}
  BY CalmFetched
<1>3. ShownItems' = Listed(r) /\ total' = r.reply.total
  BY FetchedList
<1>4. Selection' = Selection
  BY <1>1 DEF Selection
<1>5. Accounts(Selection, Listed(r), r.reply.total)
  BY <1>1 DEF Counted
<1> QED
  BY <1>2, <1>3, <1>4, <1>5 DEF Counted

\* A poll adds to the total what it adds to the list.
LEMMA CountedUpdated ==
    ASSUME AnyRun, CalmRun, calm, Counted, NEW r \in requests, Updated(r)
    PROVE  Counted'
<1> DEFINE S == ShownItems
           L == Listed(r) \ S
           T == S \union Listed(r)
           D == DownFrom(Selection, S)
           E == DownFrom(Selection, T)
<1>1. /\ UNCHANGED <<calm, stored, query>> /\ requests' \subseteq requests
      /\ r.reply # NoReply
  BY DEF Updated, Answer, config
<1>2. status = "success" /\ CalmRun' /\ TypeOK
  BY CalmUpdated DEF AnyRun
<1>3. results # NoData /\ total \in Nat
  BY <1>2 DEF TypeOK, Settled
<1>4. ShownItems' = T /\ total' = total + Cardinality(L)
  BY <1>3, UpdatedList
<1>5. T \in SUBSET Items /\ S \in SUBSET Items /\ Selection \in SUBSET Items
  BY <1>1, AnswerTyped, CalmSets DEF AnyRun
<1>6. IsFiniteSet(D) /\ Cardinality(D) \in Nat /\ D \in SUBSET Items
  BY <1>5, DownFromFinite
<1>7. IsFiniteSet(L) /\ Cardinality(L) \in Nat /\ L \in SUBSET Items
  <2>1. L \in SUBSET Items
    BY <1>5
  <2> QED
    BY <2>1, RowsGrow
<1>8. Selection' = Selection
  BY <1>1 DEF Selection
<1>9. E \subseteq D \union L
  BY DEF DownFrom, Older
<1>10. total' \in Nat /\ total <= total'
  BY <1>3, <1>4, <1>7
<1> HIDE DEF L, D, E
<1>11. ASSUME Cardinality(D) <= total PROVE Cardinality(E) <= total'
  <2>1. IsFiniteSet(D \intersect L)
    BY <1>6, FS_Intersection
  <2>2. Cardinality(D \intersect L) \in Nat
    BY <2>1, FS_CardinalityType
  <2>3. /\ IsFiniteSet(D \union L)
        /\ Cardinality(D \union L) = Cardinality(D) + Cardinality(L) - Cardinality(D \intersect L)
    BY <1>6, <1>7, FS_Union
  <2>4. Cardinality(D \union L) \in Nat
    BY <2>3, FS_CardinalityType
  <2>5. Cardinality(D \union L) <= total'
    BY <1>3, <1>4, <1>6, <1>7, <1>11, <2>2, <2>3, <2>4
  <2>6. D \union L \in SUBSET Items
    BY <1>6, <1>7
  <2> QED
    BY <1>9, <1>10, <2>5, <2>6, FewerOf
<1>12. Accounts(Selection, S, total)
  BY <1>2 DEF Counted
<1>13. Accounts(Selection, T, total')
  BY <1>3, <1>5, <1>10, <1>11, <1>12, AccountsGrow DEF D, E
<1>14. \A p \in requests : p.kind # "fetch"
  BY <1>2 DEF CalmRun, ListFits
<1> HIDE DEF T
<1> QED
  BY <1>1, <1>4, <1>8, <1>13, <1>14 DEF Counted

\* More of the list was counted below it.
LEMMA CountedAppended ==
    ASSUME AnyRun, CalmRun, calm, Counted, NEW r \in requests, Appended(r) \/ NextAppended(r)
    PROVE  Counted'
<1> DEFINE S == ShownItems
           T == S \union Listed(r)
           D == DownFrom(Selection, S)
           E == DownFrom(Selection, T)
<1>1. UNCHANGED <<calm, stored>> /\ requests' \subseteq requests /\ Append_(r)
  BY DEF Appended, NextAppended, Append_, Answer
<1>2. /\ status = "success" /\ UNCHANGED query
      /\ Listed(r) \subseteq Selection /\ Older(Listed(r), S) /\ TypeOK
  BY CalmAppended DEF AnyRun
<1>3. results # NoData /\ total \in Nat
  BY <1>2 DEF TypeOK, Settled
<1>4. ShownItems' = T /\ total' = total
  BY <1>1, <1>3, AppendedList
<1>5. Selection' = Selection
  BY <1>1, <1>2 DEF Selection
<1>6. Listed(r) \subseteq D
  BY <1>2 DEF DownFrom, Older
<1>7. E \subseteq D
  BY <1>6 DEF DownFrom, Older
<1>8. /\ T \in SUBSET Items /\ S \in SUBSET T /\ Selection \in SUBSET Items
      /\ D \in SUBSET Items
  <2>1. S \in SUBSET Items /\ Selection \in SUBSET Items
    BY CalmSets
  <2> QED
    BY <1>2, <2>1, DownFromFinite
<1> HIDE DEF D, E
<1>9. Cardinality(D) <= total => Cardinality(E) <= total
  BY <1>3, <1>7, <1>8, FewerOf
<1>10. Accounts(Selection, S, total)
  BY <1>2 DEF Counted
<1>11. total <= total
  BY <1>3
<1>12. Accounts(Selection, T, total)
  BY <1>3, <1>8, <1>9, <1>10, <1>11, AccountsGrow DEF D, E
<1>13. \A p \in requests : p.kind # "fetch"
  BY <1>2 DEF CalmRun, ListFits
<1> HIDE DEF T
<1> QED
  BY <1>1, <1>4, <1>5, <1>12, <1>13 DEF Counted

\* What the user does brings no answer.
LEMMA CountedUser ==
    ASSUME AnyRun, CalmRun, calm, Counted, User
    PROVE  Counted'
<1>0. TypeOK
  BY DEF AnyRun
<1>1. /\ UNCHANGED <<calm, stored, results, total>> /\ Quiet
      /\ StartsSearch \/ ChangesView \/ AsksMore
  BY <1>0, UserSteps DEF Act
<1>2. CASE StartsSearch
  <2>1. status' = "loading" /\ UNCHANGED requests
    BY <1>2 DEF StartsSearch
  <2> QED
    BY <1>1, <2>1 DEF Counted, Quiet
<1>3. CASE ChangesView
  BY <1>1, <1>3, CountedSame DEF ChangesView
<1>4. CASE AsksMore
  <2>1. UNCHANGED <<status, query>> /\ FreeIds # {}
    BY <1>4 DEF AsksMore, config
  <2>2. PICK kind \in {"more", "next"} : requests' = Sent(requests, kind, NoCursor, Earliest)
    BY <1>4 DEF AsksMore
  <2>3. kind \in Kinds
    BY DEF Kinds
  <2>4. PICK m : requests' = requests \union {m} /\ m.kind = kind
    BY <1>0, <2>1, <2>2, <2>3, SentOne
  <2> QED
    BY <1>1, <2>1, <2>4, CountedSame
<1> QED
  BY <1>1, <1>2, <1>3, <1>4

\* What the client does by itself asks for an answer.
LEMMA CountedSent ==
    ASSUME AnyRun, CalmRun, calm, Counted, RunEffect \/ Poll
    PROVE  Counted'
<1>1. UNCHANGED <<calm, stored, query, results, status, total>>
  BY DEF RunEffect, Poll, config, state
<1>2. \A m \in requests' : m.reply # NoReply => m \in requests
  <2>1. ASSUME NEW rs \in SUBSET requests, NEW kind \in Kinds, NEW a, FreeIds # {},
               requests' = Sent(rs, kind, a, NoCursor)
        PROVE  \A m \in requests' : m.reply # NoReply => m \in requests
    <3>1. TypeOK
      BY DEF AnyRun
    <3>2. PICK m : requests' = rs \union {m} /\ m.reply = NoReply
      BY <2>1, <3>1, SentOne
    <3> QED
      BY <3>2
  <2>2. "fetch" \in Kinds /\ "poll" \in Kinds
    BY DEF Kinds
  <2>3. CASE Poll
    BY <2>1, <2>2, <2>3 DEF Poll
  <2>4. CASE RunEffect
    <3> DEFINE kept == {m \in requests : m.kind # "poll"}
    <3>1. kept \in SUBSET requests
      OBVIOUS
    <3>2. IF status = "loading"
          THEN FreeIds # {} /\ requests' = Sent(kept, "fetch", NoCursor, NoCursor)
          ELSE requests' = kept
      BY <2>4 DEF RunEffect
    <3> HIDE DEF kept
    <3> QED
      BY <2>1, <2>2, <3>1, <3>2
  <2> QED
    BY <2>3, <2>4
<1> QED
  BY <1>1, <1>2, CountedSame

\* So every step keeps the total.
LEMMA CountedStep ==
    ASSUME IInv, Counted, [Next]_vars
    PROVE  Counted'
<1> USE DEF IInv
<1>0. UNCHANGED calm
  BY DEF Next, Network, User, Insert, RunEffect, Poll, EnterQuery, Refresh, Retry,
     ToggleAutoUpdate, ChooseItem, PreviousItem, NextItem, SelectItem, DeselectItem,
     LoadMoreResults, LoadMore, Serve, Fetched, Updated, UpdateIgnored, Appended,
     NextAppended, Append_, Answer, Failed, vars
<1>1. CASE ~calm
  BY <1>0, <1>1 DEF Counted
<1>2. ASSUME NEW r \in requests, UpdateIgnored(r) PROVE Counted'
  <2>1. UNCHANGED <<calm, stored, query, results, status, total>> /\ requests' \subseteq requests
    BY <1>2 DEF UpdateIgnored, Answer, config
  <2> QED
    BY <2>1, CountedSame
<1>3. ASSUME UNCHANGED vars PROVE Counted'
  <2>1. UNCHANGED <<calm, stored, query, results, status, total, requests>>
    BY <1>3 DEF vars, config, state
  <2> QED
    BY <2>1, CountedSame
<1>4. ASSUME NEW r \in requests, Failed(r) PROVE ~calm
  BY <1>4 DEF Failed
<1> QED
  BY <1>1, <1>2, <1>3, <1>4, CountedInsert, CountedSent, CountedUser, CountedServe,
     CountedFetched, CountedUpdated, CountedAppended DEF Next, Network

-----------------------------------------------------------------------------
(* The theorems.                                                           *)

\* The page begins with the invariant, and every step keeps it.
THEOREM SearchInvariance == Spec => []IInv
<1>1. Init => IInv
  <2> SUFFICES ASSUME Init PROVE IInv
    OBVIOUS
  <2>1. Shown = <<>> /\ requests = {}
    BY DEF Init, Shown
  <2>2. TypeOK
    <3>1. stored \subseteq Items
      BY ClientAssumption DEF Init
    <3>2. 0 \in 0..MaxActs /\ 0 \in 0..MaxFailures
      BY ClientAssumption
    <3> QED
      BY <3>1, <3>2 DEF Init, TypeOK, Settled
  <2>3. AnyRun
    BY <2>1, <2>2 DEF AnyRun, Unrepeated
  <2>4. CalmRun
    <3>1. calm => stored = Initially[TRUE]
      BY DEF Init
    <3>2. calm => /\ Older(stored, Items \ stored)
                  /\ \A q \in Queries : stored \intersect Matches[q] # {}
      BY <3>1, CalmAssumption DEF Older
    <3>3. Descending(Shown) /\ LoadingFits /\ status = "loading"
      BY <2>1 DEF Init, Descending, LoadingFits, Quiet
    <3> QED
      BY <3>2, <3>3 DEF CalmRun
  <2> QED
    BY <2>3, <2>4 DEF IInv
<1>2. IInv /\ [Next]_vars => IInv'
  BY AnyStep, CalmStep DEF IInv
<1> QED
  BY <1>1, <1>2, PTL DEF Spec

\* No order of failures and late answers leaves a status that polls without
\* results, for the effect to read.
THEOREM SearchTypes == Spec => []TypeOK
<1>1. IInv => TypeOK
  BY DEF IInv, AnyRun
<1> QED
  BY <1>1, SearchInvariance, PTL

\* However polls, fetches and pages overlap, fail and are answered, no item is
\* listed twice.
THEOREM SearchNoDuplicates == Spec => []NoDuplicates
<1>1. IInv => NoDuplicates
  <2> SUFFICES ASSUME IInv PROVE NoDuplicates
    OBVIOUS
  <2>1. Shown \in Seq(Items) /\ Unrepeated(Shown)
    BY ShownTyped DEF IInv, AnyRun
  <2> QED
    BY <2>1, LengthCounts DEF NoDuplicates, ShownItems
<1> QED
  BY <1>1, SearchInvariance, PTL

\* Who waits for answers sees only what the current search selects.
THEOREM SearchResultsMatchQuery == Spec => []ResultsMatchQuery
<1>1. IInv => ResultsMatchQuery
  BY CalmSets DEF IInv, CalmRun, ListFits, ResultsMatchQuery, Settled
<1> QED
  BY <1>1, SearchInvariance, PTL

\* Any mix of polls and pages keeps the list in the order of the feed.
THEOREM SearchNewestFirst == Spec => []NewestFirst
<1>1. IInv => NewestFirst
  BY DEF IInv, CalmRun, NewestFirst
<1> QED
  BY <1>1, SearchInvariance, PTL

\* The list is an interval of what the search selects.
THEOREM SearchNoHoles == Spec => []NoHoles
<1>1. IInv => NoHoles
  <2> SUFFICES ASSUME IInv, calm, Settled, NEW i \in Wanted
               PROVE  Time[i] <= Earliest \/ Time[i] >= Latest
    BY DEF NoHoles
  <2>1. AnyRun /\ TypeOK /\ Descending(Shown) /\ ListFits
    BY DEF IInv, AnyRun, CalmRun, Settled
  <2>2. /\ \E j \in ShownItems : Time[j] = Latest
        /\ \E j \in ShownItems : Time[j] = Earliest
    BY <2>1, EndsOfList DEF ListFits
  <2>3. \A j \in ShownItems : Time[j] \in Nat
    BY <2>1, CalmSets, TimesTyped
  <2>4. Time[i] \in Nat
    BY <2>1, CalmSets, TimesTyped
  <2>5. Older({i}, ShownItems) \/ Older(ShownItems, {i})
    BY <2>1 DEF ListFits
  <2> QED
    BY <2>2, <2>3, <2>4, <2>5 DEF Older
<1> QED
  BY <1>1, SearchInvariance, PTL

\* What is older stays in reach of "Load more", until the list is longer than
\* COUNT_QUERY_CAP or one timestamp fills a page of it: the total of the first
\* answer, which polls extend, never falls behind the list and what is below it.
THEOREM SearchOlderReachable == Spec => []OlderReachable
<1>1. Init => Counted
  BY DEF Init, Counted
<1>2. Counted /\ IInv /\ [Next]_vars => Counted'
  BY CountedStep
<1>3. Counted /\ IInv => OlderReachable
  <2> SUFFICES ASSUME Counted, IInv, calm, Settled, Shown # <<>>, Len(Shown) <= CountCap,
                      ~Crowded(ShownItems), NEW i \in Wanted, Time[i] < Earliest
               PROVE  LoadMoreOffered
    BY DEF OlderReachable
  <2>1. AnyRun /\ TypeOK /\ Descending(Shown) /\ Unrepeated(Shown) /\ status = "success"
    BY DEF IInv, AnyRun, CalmRun, Settled
  <2>2. Shown \in Seq(Items) /\ ShownItems # {} /\ total \in Nat
    BY <2>1, ShownTyped DEF TypeOK
  <2>3. Earliest \in Nat /\ \A j \in ShownItems : Earliest <= Time[j]
    BY <2>1, <2>2, EndsOfList
  <2>4. /\ ShownItems \in SUBSET Items /\ i \in Selection /\ i \notin ShownItems
        /\ Selection \in SUBSET Items
    BY <2>1, CalmSets
  <2>5. \A j \in ShownItems : Time[i] < Time[j] /\ Time[j] \in Nat /\ Time[i] \in Nat
    <3>1. \A j \in ShownItems : Time[j] \in Nat
      BY <2>4, TimesTyped
    <3>2. Time[i] \in Nat
      BY <2>4, TimesTyped
    <3> QED
      BY <2>3, <3>1, <3>2
  <2>6. Older({i}, ShownItems)
    BY <2>5 DEF Older
  <2>7. ~Bottom(Selection, ShownItems)
    BY <2>4, <2>5 DEF Bottom
  <2>8. /\ IsFiniteSet(ShownItems) /\ Cardinality(ShownItems) = Len(Shown)
        /\ Len(Shown) \in Nat /\ CountCap \in Nat
    BY <2>1, <2>2, LengthCounts, PagingAssumption DEF ShownItems
  <2>9. CASE total > CountCap
    BY <2>2, <2>8, <2>9 DEF LoadMoreOffered
  <2>10. CASE Cardinality(DownFrom(Selection, ShownItems)) <= total
    <3>1. ShownItems \union {i} \subseteq DownFrom(Selection, ShownItems)
      BY <2>4, <2>6 DEF DownFrom
    <3>2. DownFrom(Selection, ShownItems) \in SUBSET Items
      BY <2>4, DownFromFinite
    <3>3. Cardinality(ShownItems \union {i}) <= total
      BY <2>2, <2>10, <3>1, <3>2, FewerOf
    <3>4. Cardinality(ShownItems \union {i}) = Len(Shown) + 1
      BY <2>4, <2>8, FS_AddElement
    <3> QED
      BY <2>2, <2>8, <3>3, <3>4 DEF LoadMoreOffered
  <2> QED
    BY <2>1, <2>7, <2>9, <2>10 DEF Counted, Accounts
<1> QED
  BY <1>1, <1>2, <1>3, SearchInvariance, PTL DEF Spec
=============================================================================
