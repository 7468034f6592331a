-------------------------- MODULE WireFilters_proofs --------------------------
(***************************************************************************)
(* Proofs about WireFilters, for every set of wires and of requests. The   *)
(* first part is about SQL's logic alone: a truth value is informed by     *)
(* another when it is the same or null, and the connectives keep that      *)
(* order. So the answer to a search that is true of a row stays true when  *)
(* a null of the row is filled in.                                         *)
(***************************************************************************)
EXTENDS WireFilters, TLAPS

\* t says no more than u, and no other.
Informed(t, u) == t = u \/ t = "null"

\* The same of two sets of truths, element by element.
InformedAll(T, U) ==
    /\ \A t \in T : \E u \in U : Informed(t, u)
    /\ \A u \in U : \E t \in T : Informed(t, u)

Definite(T) == T \subseteq {"true", "false"}

(***************************************************************************)
(* The connectives.                                                        *)
(***************************************************************************)
\* A test in the host language is never null.
LEMMA TruthDefinite == ASSUME NEW b PROVE Truth(b) \in {"true", "false"}
BY DEF Truth

\* The connectives yield truth values.
LEMMA ConnectiveTypes ==
    ASSUME NEW T
    PROVE  And(T) \in Truths /\ Or(T) \in Truths
BY DEF And, Or, Truths

\* A negation is informed by the negation of what informs its operand.
LEMMA NotInformed ==
    ASSUME NEW t \in Truths, NEW u \in Truths, Informed(t, u)
    PROVE  Informed(Not(t), Not(u))
BY DEF Informed, Not, Truths

\* A conjunction is informed by the conjunction of what informs its operands.
LEMMA AndInformed ==
    ASSUME NEW T \in SUBSET Truths, NEW U \in SUBSET Truths, InformedAll(T, U)
    PROVE  Informed(And(T), And(U))
<1>1. "false" \in T => "false" \in U
    BY DEF InformedAll, Informed
<1>2. "null" \in U => "null" \in T
    BY DEF InformedAll, Informed
<1>3. "false" \in U => "false" \in T \/ "null" \in T
    BY DEF InformedAll, Informed
<1>4. QED
    BY <1>1, <1>2, <1>3 DEF And, Informed

\* So is a disjunction.
LEMMA OrInformed ==
    ASSUME NEW T \in SUBSET Truths, NEW U \in SUBSET Truths, InformedAll(T, U)
    PROVE  Informed(Or(T), Or(U))
<1>1. "true" \in T => "true" \in U
    BY DEF InformedAll, Informed
<1>2. "null" \in U => "null" \in T
    BY DEF InformedAll, Informed
<1>3. "true" \in U => "true" \in T \/ "null" \in T
    BY DEF InformedAll, Informed
<1>4. QED
    BY <1>1, <1>2, <1>3 DEF Or, Informed

\* A union is informed by the union of what informs its parts.
LEMMA UnionInformed ==
    ASSUME NEW T, NEW U, NEW V, NEW W, InformedAll(T, U), InformedAll(V, W)
    PROVE  InformedAll(T \union V, U \union W)
BY DEF InformedAll

\* A set informs itself.
LEMMA SelfInformed == ASSUME NEW T PROVE InformedAll(T, T)
BY DEF InformedAll, Informed

\* A clause is informed by the clause of what informs its truth.
LEMMA ClauseInformed ==
    ASSUME NEW g, NEW t, NEW u, Informed(t, u)
    PROVE  InformedAll(Clause(g, t), Clause(g, u))
BY DEF InformedAll, Clause

(***************************************************************************)
(* Filling in the row.                                                     *)
(***************************************************************************)
\* s is r with one of its nulls filled in, or neither.
Filled(r, s) ==
    /\ r.supplier = s.supplier /\ r.categoryCodes = s.categoryCodes
    /\ r.keywords = s.keywords /\ r.slug = s.slug /\ r.headline = s.headline
    /\ r.body = s.body /\ r.dataformat = s.dataformat
    /\ r.preComputed = s.preComputed \/ r.preComputed = {}
    /\ r.guSourceFeed = s.guSourceFeed \/ r.guSourceFeed = {}

\* The clauses of a filter are truth values, whatever the filter and the row.
LEMMA ClausesTypes ==
    ASSUME NEW f, NEW r
    PROVE  Clauses(f, r) \subseteq Truths
<1>1. \A b : Truth(b) \in Truths
    BY DEF Truth, Truths
<1>2. \A t \in Truths : Not(t) \in Truths
    BY DEF Not, Truths
<1>3. \A g, t : t \in Truths => Clause(g, t) \subseteq Truths
    BY DEF Clause
<1>4. \A S : /\ KeywordsSQL(S, r) \in Truths /\ SupplierSQL(S, r) \in Truths
             /\ CategoryCodeSomeSQL(S, r) \in Truths
             /\ PreComputedCategoriesSQL(S, r) \in Truths
             /\ GuSourceFeedSQL(S, r) \in Truths
    BY DEF Truth, Truths, KeywordsSQL, SupplierSQL, CategoryCodeSomeSQL,
           PreComputedCategoriesSQL, PreComputedSomeSQL, GuSourceFeedSQL
<1>5. \A c : CategoryCodeInclSQL(c, r) \in Truths /\ DataFormattingSQL(c, r) \in Truths
    BY DEF Truth, Truths, CategoryCodeInclSQL, DataFormattingSQL
<1>6. \A c : SearchTermsSQL(c, r) \in Truths
    BY ConnectiveTypes DEF SearchTermsSQL
<1>7. QED
    BY <1>2, <1>3, <1>4, <1>5, <1>6 DEF Clauses

\* A filter's clauses are informed by those on the row filled in.
LEMMA ClausesInformed ==
    ASSUME NEW f, NEW r, NEW s, Filled(r, s)
    PROVE  InformedAll(Clauses(f, r), Clauses(f, s))
<1> DEFINE Same(x) ==
        Clause(f.keywordIncl, KeywordsSQL(f.keywordIncl, x))
        \union {CategoryCodeInclSQL(c, x) : c \in f.categoryCodesIncl}
        \union Clause(f.keywordExcl, Not(KeywordsSQL(f.keywordExcl, x)))
        \union {SearchTermsSQL(c, x) : c \in f.searchTerms}
        \union Clause(f.suppliersIncl, SupplierSQL(f.suppliersIncl, x))
        \union Clause(f.suppliersExcl, Not(SupplierSQL(f.suppliersExcl, x)))
        \union Clause(f.categoryCodesExcl, Not(CategoryCodeSomeSQL(f.categoryCodesExcl, x)))
        \union {DataFormattingSQL(h, x) : h \in f.hasDataFormatting}
<1> DEFINE Pre(x) == PreComputedCategoriesSQL(f.preComputedCategories, x)
           PreExcl(x) == PreComputedCategoriesSQL(f.preComputedCategoriesExcl, x)
           Feed(x) == GuSourceFeedSQL(f.guSourceFeeds, x)
           FeedExcl(x) == GuSourceFeedSQL(f.guSourceFeedsExcl, x)
<1>1. Same(r) = Same(s)
    BY DEF Filled, KeywordsSQL, CategoryCodeInclSQL, SearchTermsSQL, SearchTermSQL, Words,
           SupplierSQL, CategoryCodeSomeSQL, DataFormattingSQL
<1>2. /\ Informed(Pre(r), Pre(s)) /\ Informed(PreExcl(r), PreExcl(s))
      /\ Informed(Feed(r), Feed(s)) /\ Informed(FeedExcl(r), FeedExcl(s))
    BY DEF Filled, Informed, PreComputedCategoriesSQL, PreComputedSomeSQL, GuSourceFeedSQL
<1>3. \A x : PreExcl(x) \in Truths /\ FeedExcl(x) \in Truths
    BY DEF PreComputedCategoriesSQL, PreComputedSomeSQL, GuSourceFeedSQL, Truth, Truths
<1>4. Informed(Not(PreExcl(r)), Not(PreExcl(s))) /\ Informed(Not(FeedExcl(r)), Not(FeedExcl(s)))
    <2> HIDE DEF PreExcl, FeedExcl
    <2> QED BY <1>2, <1>3, NotInformed
<1>5. \A x : Clauses(f, x) =
        Same(x) \union Clause(f.preComputedCategories, Pre(x))
        \union Clause(f.preComputedCategoriesExcl, Not(PreExcl(x)))
        \union Clause(f.guSourceFeeds, Feed(x))
        \union Clause(f.guSourceFeedsExcl, Not(FeedExcl(x)))
    BY DEF Clauses
<1> HIDE DEF Same, Pre, PreExcl, Feed, FeedExcl
<1>6. InformedAll(Same(r), Same(s))
    BY <1>1, SelfInformed
<1>7. /\ InformedAll(Clause(f.preComputedCategories, Pre(r)), Clause(f.preComputedCategories, Pre(s)))
      /\ InformedAll(Clause(f.preComputedCategoriesExcl, Not(PreExcl(r))),
                     Clause(f.preComputedCategoriesExcl, Not(PreExcl(s))))
      /\ InformedAll(Clause(f.guSourceFeeds, Feed(r)), Clause(f.guSourceFeeds, Feed(s)))
      /\ InformedAll(Clause(f.guSourceFeedsExcl, Not(FeedExcl(r))),
                     Clause(f.guSourceFeedsExcl, Not(FeedExcl(s))))
    BY <1>2, <1>4, ClauseInformed
<1> DEFINE P1(x) == Clause(f.preComputedCategories, Pre(x))
           P2(x) == Clause(f.preComputedCategoriesExcl, Not(PreExcl(x)))
           G1(x) == Clause(f.guSourceFeeds, Feed(x))
           G2(x) == Clause(f.guSourceFeedsExcl, Not(FeedExcl(x)))
<1>8. /\ InformedAll(P1(r), P1(s)) /\ InformedAll(P2(r), P2(s))
      /\ InformedAll(G1(r), G1(s)) /\ InformedAll(G2(r), G2(s))
    BY <1>7
<1>9. \A x : Clauses(f, x) = (((Same(x) \union P1(x)) \union P2(x)) \union G1(x)) \union G2(x)
    BY <1>5
<1> HIDE DEF P1, P2, G1, G2
<1>10. InformedAll(Same(r) \union P1(r), Same(s) \union P1(s))
    BY <1>6, <1>8, UnionInformed
<1>11. InformedAll((Same(r) \union P1(r)) \union P2(r), (Same(s) \union P1(s)) \union P2(s))
    BY <1>8, <1>10, UnionInformed
<1>12. InformedAll(((Same(r) \union P1(r)) \union P2(r)) \union G1(r),
                   ((Same(s) \union P1(s)) \union P2(s)) \union G1(s))
    BY <1>8, <1>11, UnionInformed
<1>13. QED
    BY <1>8, <1>9, <1>12, UnionInformed

\* So is the whole clause of a filter,
LEMMA FiltersInformed ==
    ASSUME NEW f, NEW r, NEW s, Filled(r, s)
    PROVE  /\ InformedAll(FiltersBuilder(f, r), FiltersBuilder(f, s))
           /\ FiltersBuilder(f, r) \subseteq Truths
<1>1. InformedAll(Clauses(f, r), Clauses(f, s))
    BY ClausesInformed
<1>2. Clauses(f, r) \in SUBSET Truths /\ Clauses(f, s) \in SUBSET Truths
    BY ClausesTypes
<1>3. Informed(And(Clauses(f, r)), And(Clauses(f, s)))
    BY <1>1, <1>2, AndInformed
<1>4. Clauses(f, r) = {} <=> Clauses(f, s) = {}
    BY <1>1 DEF InformedAll
<1>5. QED
    BY <1>3, <1>4, ConnectiveTypes DEF FiltersBuilder, AndAll, Clause, InformedAll

\* and that of a preset.
LEMMA PresetsInformed ==
    ASSUME NEW presets, NEW r, NEW s, Filled(r, s)
    PROVE  /\ InformedAll(PresetsBuilder(presets, r), PresetsBuilder(presets, s))
           /\ PresetsBuilder(presets, r) \subseteq Truths
           /\ PresetsBuilder(presets, s) \subseteq Truths
<1> DEFINE All_(x) == UNION {FiltersBuilder(f, x) : f \in presets}
<1>1. Filled(s, s)
    BY DEF Filled
<1>2. All_(r) \in SUBSET Truths /\ All_(s) \in SUBSET Truths
    BY <1>1, FiltersInformed
<1>3. InformedAll(All_(r), All_(s))
    <2>1. \A f \in presets : InformedAll(FiltersBuilder(f, r), FiltersBuilder(f, s))
        BY FiltersInformed
    <2>2. QED
        BY <2>1 DEF InformedAll
<1>4. PresetsBuilder(presets, r) = OrAll(All_(r)) /\ PresetsBuilder(presets, s) = OrAll(All_(s))
    BY DEF PresetsBuilder
<1> HIDE DEF All_
<1>5. Informed(Or(All_(r)), Or(All_(s)))
    BY <1>2, <1>3, OrInformed
<1>6. All_(r) = {} <=> All_(s) = {}
    BY <1>3 DEF InformedAll
<1>7. QED
    BY <1>4, <1>5, <1>6, ConnectiveTypes DEF OrAll, Clause, InformedAll

\* What a search finds it finds when the row is filled in.
LEMMA FilledFound ==
    ASSUME NEW q, NEW r, NEW s, Filled(r, s), Finds(q, r)
    PROVE  Finds(q, s)
<1> DEFINE F(x) == FiltersBuilder(Build(q), x)
           P(x) == PresetsBuilder(Presets(q.preset).searchParams, x)
           N(x) == PresetsBuilder(Presets(q.preset).negated, x)
           M(x) == {Not(c) : c \in N(x)}
<1>1. Filled(s, s)
    BY DEF Filled
<1>2. InformedAll(F(r), F(s)) /\ F(r) \subseteq Truths /\ F(s) \subseteq Truths
    BY <1>1, FiltersInformed
<1>3. InformedAll(P(r), P(s)) /\ P(r) \subseteq Truths /\ P(s) \subseteq Truths
    BY PresetsInformed
<1>4. InformedAll(N(r), N(s)) /\ N(r) \subseteq Truths /\ N(s) \subseteq Truths
    BY PresetsInformed
<1>5. Where(q, r) = And(F(r) \union P(r) \union M(r)) /\ Where(q, s) = And(F(s) \union P(s) \union M(s))
    BY DEF Where
<1> HIDE DEF F, P, N
<1>6. InformedAll(M(r), M(s))
    BY <1>4, NotInformed DEF InformedAll
<1>7. M(r) \subseteq Truths /\ M(s) \subseteq Truths
    BY <1>4 DEF Not, Truths
<1> HIDE DEF M
<1>8. InformedAll(F(r) \union P(r) \union M(r), F(s) \union P(s) \union M(s))
    BY <1>2, <1>3, <1>6, UnionInformed
<1>9. Informed(Where(q, r), Where(q, s))
    <2>1. F(r) \union P(r) \union M(r) \in SUBSET Truths
          /\ F(s) \union P(s) \union M(s) \in SUBSET Truths
        BY <1>2, <1>3, <1>7
    <2>2. QED
        BY <2>1, <1>5, <1>8, AndInformed
<1>10. QED
    BY <1>9 DEF Informed, Finds

(***************************************************************************)
(* The invariant: TypeOK, and which fields a row has.                      *)
(***************************************************************************)
Shape(r) ==
    [supplier |-> r.supplier, categoryCodes |-> r.categoryCodes,
     guSourceFeed |-> r.guSourceFeed, preComputed |-> r.preComputed, keywords |-> r.keywords,
     slug |-> r.slug, headline |-> r.headline, body |-> r.body, dataformat |-> r.dataformat]

IInv == TypeOK /\ \A r \in row : r = Shape(r)

\* A wire's row is of the right types.
LEMMA RowTypes ==
    ASSUME NEW m \in Messages, NEW known \in BOOLEAN
    PROVE  LET r == Row(m, known)
           IN /\ r = Shape(r) /\ r.supplier \in {LookupSupplier(f) : f \in Feeds}
              /\ r.preComputed \subseteq {ComputePresetCategories(r.categoryCodes)}
              /\ Unique(r.guSourceFeed)
<1> DEFINE codes == ProcessCategoryCodes(m)
           feeds == {f \in {RemapSourceFeeds(m)} : known}
           categories == {c \in {ComputePresetCategories(codes)} : known}
<1>1. /\ Row(m, known).supplier = LookupSupplier(m.feed)
      /\ Row(m, known).categoryCodes = codes
      /\ Row(m, known).guSourceFeed = feeds /\ Row(m, known).preComputed = categories
      /\ Row(m, known) = Shape(Row(m, known))
    BY DEF Row, Shape
<1>2. LookupSupplier(m.feed) \in {LookupSupplier(f) : f \in Feeds}
    BY WireFiltersAssumption
<1>3. Unique(feeds) /\ categories \subseteq {ComputePresetCategories(codes)}
    BY DEF Unique
<1>4. QED
    BY <1>1, <1>2, <1>3

\* An e-mail has no codes, and so no categories.
LEMMA EmailTypes ==
    ASSUME NEW words
    PROVE  LET r == EmailRow(words)
           IN /\ r = Shape(r) /\ r.supplier = "UNAUTHED_EMAIL_FEED"
              /\ r.preComputed \subseteq {ComputePresetCategories(r.categoryCodes)}
              /\ Unique(r.guSourceFeed)
<1>1. \A toCheck : ~ContainsCode({}, toCheck)
    BY DEF ContainsCode
<1>2. \A c \in PresetCategories : ~PresetCodesMap({})[c]
    <2> SUFFICES ASSUME NEW c \in PresetCategories PROVE ~PresetCodesMap({})[c]
        OBVIOUS
    <2>1. c \in {"all-sports", "no-soccer", "sports-related-topic-codes",
                 "sports-related-news-codes", "business-related-news-codes",
                 "business-related-topic-codes", "other-topic-codes"}
        BY DEF PresetCategories
    <2>2. QED
        BY <1>1, <2>1 DEF PresetCodesMap
<1>3. ComputePresetCategories({}) = {}
    BY <1>2 DEF ComputePresetCategories
<1>4. QED
    BY <1>3 DEF EmailRow, Shape, Unique

LEMMA Initially == Init => IInv
BY DEF Init, IInv, TypeOK, Unique

LEMMA Inductive == IInv /\ [Next]_vars => IInv'
<1> SUFFICES ASSUME IInv, [Next]_vars PROVE IInv'
    OBVIOUS
<1>1. CASE Ingest
    <2>1. PICK m \in Messages :
            sent' = {m} /\ row' = {r \in {Row(m, TRUE)} : r.supplier # "HEARTBEAT"}
        BY <1>1 DEF Ingest
    <2>2. QED
        BY <2>1, RowTypes DEF IInv, TypeOK, Unique
<1>2. CASE IngestBefore
    <2>1. PICK m \in Messages :
            sent' = {m} /\ row' = {r \in {Row(m, FALSE)} : r.supplier # "HEARTBEAT"}
        BY <1>2 DEF IngestBefore
    <2>2. QED
        BY <2>1, RowTypes DEF IInv, TypeOK, Unique
<1>3. CASE IngestEmail
    <2>1. PICK words : row' = {EmailRow(words)} /\ sent' = sent
        BY <1>3 DEF IngestEmail
    <2>2. QED
        BY <2>1, EmailTypes DEF IInv, TypeOK, Unique
<1>4. CASE BackfillSourceFeed
    <2>1. PICK r \in row, m \in sent :
            row' = {[r EXCEPT !.guSourceFeed = {m.feed}]} /\ sent' = sent
        BY <1>4 DEF BackfillSourceFeed
    <2> DEFINE s == [Shape(r) EXCEPT !.guSourceFeed = {m.feed}]
    <2>2. row' = {s}
        BY <2>1 DEF IInv
    <2>3. /\ s = Shape(s) /\ s.supplier = r.supplier /\ s.categoryCodes = r.categoryCodes
          /\ s.preComputed = r.preComputed /\ s.guSourceFeed = {m.feed}
        BY DEF Shape
    <2> HIDE DEF s
    <2>4. QED
        BY <2>1, <2>2, <2>3 DEF IInv, TypeOK, Unique
<1>5. CASE Recompute
    <2>1. PICK r \in row :
            /\ row' = {[r EXCEPT !.preComputed = {ComputePresetCategories(r.categoryCodes)}]}
            /\ sent' = sent
        BY <1>5 DEF Recompute
    <2> DEFINE s == [Shape(r) EXCEPT !.preComputed = {ComputePresetCategories(r.categoryCodes)}]
    <2>2. row' = {s}
        BY <2>1 DEF IInv
    <2>3. /\ s = Shape(s) /\ s.supplier = r.supplier /\ s.categoryCodes = r.categoryCodes
          /\ s.preComputed = {ComputePresetCategories(r.categoryCodes)}
          /\ s.guSourceFeed = r.guSourceFeed
        BY DEF Shape
    <2> HIDE DEF s
    <2>4. QED
        BY <2>1, <2>2, <2>3 DEF IInv, TypeOK, Unique
<1>6. CASE UNCHANGED vars
    BY <1>6 DEF IInv, TypeOK, Unique, vars
<1>7. QED
    BY <1>1, <1>2, <1>3, <1>4, <1>5, <1>6 DEF Next

\* A row's supplier and computed categories are what the lookup and its codes
\* say, in every reachable state (WireFilters.TypeOK).
THEOREM WireFiltersTypes == Spec => []TypeOK
<1>1. IInv => TypeOK
    BY DEF IInv
<1>2. QED
    BY Initially, Inductive, <1>1, PTL DEF Spec

(***************************************************************************)
(* Late columns.                                                           *)
(***************************************************************************)
\* A step replaces a row by one in which a null is filled in.
LEMMA StepFills ==
    ASSUME IInv, [Next]_vars, NEW r \in row \ row'
    PROVE  \E s \in row' : Filled(r, s)
<1>1. CASE BackfillSourceFeed
    <2>1. PICK x \in row, m \in sent :
            x.guSourceFeed = {} /\ row' = {[x EXCEPT !.guSourceFeed = {m.feed}]}
        BY <1>1 DEF BackfillSourceFeed
    <2>2. x = r
        BY DEF IInv, TypeOK, Unique
    <2> DEFINE s == [Shape(r) EXCEPT !.guSourceFeed = {m.feed}]
    <2>3. row' = {s}
        BY <2>1, <2>2 DEF IInv
    <2>4. Filled(r, s)
        BY <2>1, <2>2 DEF Filled, Shape
    <2>5. QED
        BY <2>3, <2>4
<1>2. CASE Recompute
    <2>1. PICK x \in row :
            row' = {[x EXCEPT !.preComputed = {ComputePresetCategories(x.categoryCodes)}]}
        BY <1>2 DEF Recompute
    <2>2. x = r
        BY DEF IInv, TypeOK, Unique
    <2> DEFINE s == [Shape(r) EXCEPT !.preComputed = {ComputePresetCategories(r.categoryCodes)}]
    <2>3. row' = {s}
        BY <2>1, <2>2 DEF IInv
    <2>4. r.preComputed = {} \/ r.preComputed = {ComputePresetCategories(r.categoryCodes)}
        BY DEF IInv, TypeOK
    <2>5. Filled(r, s)
        BY <2>4 DEF Filled, Shape
    <2>6. QED
        BY <2>3, <2>5
<1>3. CASE Ingest \/ IngestBefore \/ IngestEmail
    BY <1>3 DEF Ingest, IngestBefore, IngestEmail
<1>4. CASE UNCHANGED vars
    BY <1>4 DEF vars
<1>5. QED
    BY <1>1, <1>2, <1>3, <1>4 DEF Next

\* Filling in gu_source_feed or precomputed_categories takes no wire out of any
\* answer, whatever the wire, the filters and the preset
\* (WireFilters.BackfillsOnlyReveal).
THEOREM WireFiltersBackfills == Spec => BackfillsOnlyReveal
<1>1. ASSUME IInv, [Next]_vars
      PROVE  \A q \in Searches, r \in row \ row' : Finds(q, r) => \E s \in row' : Finds(q, s)
    BY <1>1, StepFills, FilledFound
<1>2. IInv /\ [Next]_vars =>
        [\A q \in Searches, r \in row \ row' : Finds(q, r) => \E s \in row' : Finds(q, s)]_vars
    BY <1>1
<1>3. QED
    BY Initially, Inductive, <1>2, PTL DEF Spec, BackfillsOnlyReveal

(***************************************************************************)
(* Sport and its tabs.                                                     *)
(***************************************************************************)
\* A filter of a sport's: for one supplier, and on no column that may be null.
OfSport(f) ==
    /\ f.suppliersIncl # {}
    /\ f.preComputedCategories = {} /\ f.preComputedCategoriesExcl = {}
    /\ f.guSourceFeeds = {} /\ f.guSourceFeedsExcl = {}

\* The sports whose union "Sport other" leaves out.
SportOtherSets ==
    {SoccerPreset, SoccerScores, SoccerTables, AmericanFootball, AustralianRules, Baseball,
     Basketball, CollegeSports, Cricket, CricketScores, RugbyLeague, RugbyUnion, RugbyScores,
     Tennis, TennisScores, Cycling, MotorSport, Golf, GolfScores, Boxing, HorseRacing,
     IceHockey, Athletics, Olympics}

\* Each way to write a filter of a sport's makes one.
LEMMA FormsOfSport ==
    /\ \A s, t, c, k : OfSport(SportFilter(s, t, c, k))
    /\ \A s, t, c, k, x : OfSport(Without(SportFilter(s, t, c, k), x))
    /\ \A s, c : OfSport(OfCodes(s, c))
    /\ \A q, c : OfSport(ReutersSport(q, c)) /\ OfSport(PaSport(q, c))
    /\ \A q, c, x : OfSport(Without(PaSport(q, c), x)) /\ OfSport(Formatted(PaSport(q, c), x))
    /\ \A q : OfSport(AfpSport(q))
    /\ \A q, k : OfSport(ApSport(q, k))
    /\ \A p, q : OfSport(AfpSportBoth(p, q))
    /\ \A p, q, c : OfSport(ReutersSportBoth(p, q, c))
    /\ \A s, x : OfSport(Formatted(SearchPreset(s), x))
<1>1. \A s, t, c, k : OfSport(SportFilter(s, t, c, k))
    BY DEF SportFilter, SearchPreset, NoFilter, OfSport
<1>2. \A s, t, c, k, x : OfSport(Without(SportFilter(s, t, c, k), x))
    BY DEF Without, SportFilter, SearchPreset, NoFilter, OfSport
<1>3. \A s, t, c, k, x : OfSport(Formatted(SportFilter(s, t, c, k), x))
    BY DEF Formatted, SportFilter, SearchPreset, NoFilter, OfSport
<1>4. \A s, x : OfSport(Formatted(SearchPreset(s), x))
    BY DEF Formatted, SearchPreset, NoFilter, OfSport
<1>5. QED
    BY <1>1, <1>2, <1>3, <1>4, Zenon
       DEF OfCodes, ReutersSport, PaSport, AfpSport, ApSport, AfpSportBoth, ReutersSportBoth

\* The filters of the sports are of that kind, and each sport has some.
LEMMA SportsOfSport ==
    /\ SoccerPreset # {} /\ \A f \in SoccerPreset : OfSport(f)
    /\ SoccerScores # {} /\ \A f \in SoccerScores : OfSport(f)
    /\ SoccerTables # {} /\ \A f \in SoccerTables : OfSport(f)
    /\ AmericanFootball # {} /\ \A f \in AmericanFootball : OfSport(f)
    /\ AustralianRules # {} /\ \A f \in AustralianRules : OfSport(f)
    /\ Baseball # {} /\ \A f \in Baseball : OfSport(f)
    /\ Basketball # {} /\ \A f \in Basketball : OfSport(f)
    /\ BasketballScores # {} /\ \A f \in BasketballScores : OfSport(f)
    /\ CollegeSports # {} /\ \A f \in CollegeSports : OfSport(f)
    /\ Cricket # {} /\ \A f \in Cricket : OfSport(f)
    /\ CricketScores # {} /\ \A f \in CricketScores : OfSport(f)
    /\ RugbyLeague # {} /\ \A f \in RugbyLeague : OfSport(f)
    /\ RugbyUnion # {} /\ \A f \in RugbyUnion : OfSport(f)
    /\ RugbyScores # {} /\ \A f \in RugbyScores : OfSport(f)
    /\ Tennis # {} /\ \A f \in Tennis : OfSport(f)
    /\ TennisScores # {} /\ \A f \in TennisScores : OfSport(f)
    /\ Cycling # {} /\ \A f \in Cycling : OfSport(f)
    /\ MotorSport # {} /\ \A f \in MotorSport : OfSport(f)
    /\ Golf # {} /\ \A f \in Golf : OfSport(f)
    /\ GolfScores # {} /\ \A f \in GolfScores : OfSport(f)
    /\ Boxing # {} /\ \A f \in Boxing : OfSport(f)
    /\ HorseRacing # {} /\ \A f \in HorseRacing : OfSport(f)
    /\ IceHockey # {} /\ \A f \in IceHockey : OfSport(f)
    /\ Athletics # {} /\ \A f \in Athletics : OfSport(f)
    /\ Olympics # {} /\ \A f \in Olympics : OfSport(f)
    /\ AllDataFormats # {} /\ \A f \in AllDataFormats : OfSport(f)
<1>1. SoccerPreset # {} /\ \A f \in SoccerPreset : OfSport(f)
    BY FormsOfSport DEF SoccerPreset
<1>2. SoccerScores # {} /\ \A f \in SoccerScores : OfSport(f)
    BY FormsOfSport DEF SoccerScores
<1>3. SoccerTables # {} /\ \A f \in SoccerTables : OfSport(f)
    BY FormsOfSport DEF SoccerTables
<1>4. AmericanFootball # {} /\ \A f \in AmericanFootball : OfSport(f)
    BY FormsOfSport DEF AmericanFootball
<1>5. AustralianRules # {} /\ \A f \in AustralianRules : OfSport(f)
    BY FormsOfSport DEF AustralianRules
<1>6. Baseball # {} /\ \A f \in Baseball : OfSport(f)
    BY FormsOfSport DEF Baseball
<1>7. Basketball # {} /\ \A f \in Basketball : OfSport(f)
    BY FormsOfSport DEF Basketball
<1>8. BasketballScores # {} /\ \A f \in BasketballScores : OfSport(f)
    BY FormsOfSport DEF BasketballScores
<1>9. CollegeSports # {} /\ \A f \in CollegeSports : OfSport(f)
    BY FormsOfSport DEF CollegeSports
<1>10. Cricket # {} /\ \A f \in Cricket : OfSport(f)
    BY FormsOfSport DEF Cricket
<1>11. CricketScores # {} /\ \A f \in CricketScores : OfSport(f)
    BY FormsOfSport DEF CricketScores
<1>12. RugbyLeague # {} /\ \A f \in RugbyLeague : OfSport(f)
    BY FormsOfSport DEF RugbyLeague
<1>13. RugbyUnion # {} /\ \A f \in RugbyUnion : OfSport(f)
    BY FormsOfSport DEF RugbyUnion
<1>14. RugbyScores # {} /\ \A f \in RugbyScores : OfSport(f)
    BY FormsOfSport DEF RugbyScores
<1>15. Tennis # {} /\ \A f \in Tennis : OfSport(f)
    BY FormsOfSport DEF Tennis
<1>16. TennisScores # {} /\ \A f \in TennisScores : OfSport(f)
    BY FormsOfSport DEF TennisScores
<1>17. Cycling # {} /\ \A f \in Cycling : OfSport(f)
    BY FormsOfSport DEF Cycling
<1>18. MotorSport # {} /\ \A f \in MotorSport : OfSport(f)
    BY FormsOfSport DEF MotorSport
<1>19. Golf # {} /\ \A f \in Golf : OfSport(f)
    BY FormsOfSport DEF Golf
<1>20. GolfScores # {} /\ \A f \in GolfScores : OfSport(f)
    BY FormsOfSport DEF GolfScores
<1>21. Boxing # {} /\ \A f \in Boxing : OfSport(f)
    BY FormsOfSport DEF Boxing
<1>22. HorseRacing # {} /\ \A f \in HorseRacing : OfSport(f)
    BY FormsOfSport DEF HorseRacing
<1>23. IceHockey # {} /\ \A f \in IceHockey : OfSport(f)
    BY FormsOfSport DEF IceHockey
<1>24. Athletics # {} /\ \A f \in Athletics : OfSport(f)
    BY FormsOfSport DEF Athletics
<1>25. Olympics # {} /\ \A f \in Olympics : OfSport(f)
    BY FormsOfSport DEF Olympics
<1>26. AllDataFormats # {} /\ \A f \in AllDataFormats : OfSport(f)
    BY FormsOfSport DEF AllDataFormats
<1>27. QED
    BY <1>1, <1>2, <1>3, <1>4, <1>5, <1>6, <1>7, <1>8, <1>9, <1>10, <1>11, <1>12, <1>13, <1>14,
       <1>15, <1>16, <1>17, <1>18, <1>19, <1>20, <1>21, <1>22, <1>23, <1>24, <1>25, <1>26,
       Zenon

\* What the tabs of the sports show.
LEMMA SportsShown ==
    /\ ShowsOf("soccer") = SoccerPreset
    /\ ShowsOf("soccer-scores") = SoccerScores
    /\ ShowsOf("soccer-tables") = SoccerTables
    /\ ShowsOf("american-football") = AmericanFootball
    /\ ShowsOf("australian-rules") = AustralianRules
    /\ ShowsOf("baseball") = Baseball
    /\ ShowsOf("basketball") = Basketball
    /\ ShowsOf("basketball-scores") = BasketballScores
    /\ ShowsOf("college-sports") = CollegeSports
    /\ ShowsOf("cricket") = Cricket
    /\ ShowsOf("cricket-scores") = CricketScores
    /\ ShowsOf("rugby-league") = RugbyLeague
    /\ ShowsOf("rugby-union") = RugbyUnion
    /\ ShowsOf("rugby-scores") = RugbyScores
    /\ ShowsOf("tennis") = Tennis
    /\ ShowsOf("tennis-scores") = TennisScores
    /\ ShowsOf("cycling") = Cycling
    /\ ShowsOf("motor-sport") = MotorSport
    /\ ShowsOf("golf") = Golf
    /\ ShowsOf("golf-scores") = GolfScores
    /\ ShowsOf("boxing") = Boxing
    /\ ShowsOf("horse-racing") = HorseRacing
    /\ ShowsOf("ice-hockey") = IceHockey
    /\ ShowsOf("athletics") = Athletics
    /\ ShowsOf("olympics") = Olympics
    /\ ShowsOf("all-data-formats") = AllDataFormats
BY DEF ShowsOf

\* No tab of theirs is negated.
LEMMA SportsPlain ==
    ASSUME NEW sport \in NamedSports
    PROVE  Presets(sport) = [searchParams |-> ShowsOf(sport), negated |-> {}]
BY DEF NamedSports, Presets

\* The filters that "Sport other" leaves out are those of the named sports, all
\* of them but the forgotten one's.
LEMMA SportsNamed ==
    /\ \A sport \in NamedSports : /\ Presets(sport).searchParams # {}
                                  /\ Presets(sport).negated = {}
                                  /\ \A f \in Presets(sport).searchParams : OfSport(f)
    /\ \A sport \in SeparateSports : Presets(sport).searchParams \subseteq SportOther
    /\ \A f \in SportOther : OfSport(f) /\ \E sport \in NamedSports : f \in Presets(sport).searchParams
<1>1. \A sport \in NamedSports : ShowsOf(sport) # {} /\ \A f \in ShowsOf(sport) : OfSport(f)
    BY SportsOfSport, SportsShown, Zenon DEF NamedSports
<1>2. \A sport \in SeparateSports : ShowsOf(sport) \subseteq SportOther
    <2> SUFFICES ASSUME NEW sport \in SeparateSports PROVE ShowsOf(sport) \subseteq SportOther
        OBVIOUS
    <2>1. sport \in NamedSports /\ sport # "basketball-scores"
        BY DEF SeparateSports
    <2>2. ShowsOf(sport) \in SportOtherSets \union {AllDataFormats}
        BY <2>1, SportsShown, Zenon DEF NamedSports, SportOtherSets
    <2>3. QED
        BY <2>2 DEF SportOther, Sports, SportOtherSets
<1>3. \A f \in SportOther : \E sport \in NamedSports : f \in ShowsOf(sport)
    <2> SUFFICES ASSUME NEW f \in SportOther PROVE \E sport \in NamedSports : f \in ShowsOf(sport)
        OBVIOUS
    <2>1. PICK S \in SportOtherSets \union {AllDataFormats} : f \in S
        BY DEF SportOther, Sports, SportOtherSets
    <2>2. \E sport \in NamedSports : S = ShowsOf(sport)
        BY <2>1, SportsShown, Zenon DEF NamedSports, SportOtherSets
    <2>3. QED
        BY <2>1, <2>2
<1>4. QED
    BY <1>1, <1>2, <1>3, SportsPlain DEF SeparateSports

\* Such a filter has a clause, and it is true or false of every row.
LEMMA SportDefinite ==
    ASSUME NEW f, OfSport(f), NEW r
    PROVE  FiltersBuilder(f, r) = {And(Clauses(f, r))} /\ And(Clauses(f, r)) \in {"true", "false"}
<1>1. \A b : Truth(b) \in {"true", "false"} /\ Not(Truth(b)) \in {"true", "false"}
    BY DEF Truth, Not
<1>2. \A S : /\ KeywordsSQL(S, r) \in {"true", "false"}
             /\ Not(KeywordsSQL(S, r)) \in {"true", "false"}
             /\ SupplierSQL(S, r) \in {"true", "false"}
             /\ Not(SupplierSQL(S, r)) \in {"true", "false"}
             /\ Not(CategoryCodeSomeSQL(S, r)) \in {"true", "false"}
    BY <1>1 DEF KeywordsSQL, SupplierSQL, CategoryCodeSomeSQL
<1>3. \A c : CategoryCodeInclSQL(c, r) \in {"true", "false"}
             /\ DataFormattingSQL(c, r) \in {"true", "false"}
    BY <1>1 DEF CategoryCodeInclSQL, DataFormattingSQL
<1>4. \A T : Definite(T) => And(T) \in {"true", "false"} /\ Or(T) \in {"true", "false"}
    BY DEF Definite, And, Or
<1>5. \A c : SearchTermsSQL(c, r) \in {"true", "false"}
    <2>1. \A c : Definite({SearchTermSQL(t, r) : t \in c.terms})
        BY <1>1 DEF SearchTermSQL, Definite
    <2>2. QED
        BY <1>4, <2>1 DEF SearchTermsSQL
<1>6. \A g, t : t \in {"true", "false"} => Clause(g, t) \subseteq {"true", "false"}
    BY DEF Clause
<1>7. \A t : Clause({}, t) = {}
    BY DEF Clause
<1>8. Definite(Clauses(f, r))
    BY <1>2, <1>3, <1>5, <1>6, <1>7 DEF Clauses, OfSport, Definite
<1>9. Clauses(f, r) # {}
    <2>1. SupplierSQL(f.suppliersIncl, r) \in Clause(f.suppliersIncl, SupplierSQL(f.suppliersIncl, r))
        BY DEF Clause, OfSport
    <2>2. Clause(f.suppliersIncl, SupplierSQL(f.suppliersIncl, r)) \subseteq Clauses(f, r)
        BY DEF Clauses
    <2>3. QED
        BY <2>1, <2>2
<1>10. QED
    BY <1>4, <1>8, <1>9 DEF FiltersBuilder, AndAll, Clause

\* The filters a row satisfies.
Satisfied(f, r) == And(Clauses(f, r)) = "true"

\* The clause of a preset of such filters is that one of them is satisfied.
LEMMA SportPresets ==
    ASSUME NEW presets, presets # {}, \A f \in presets : OfSport(f), NEW r
    PROVE  PresetsBuilder(presets, r) = {Truth(\E f \in presets : Satisfied(f, r))}
<1> DEFINE T == UNION {FiltersBuilder(f, r) : f \in presets}
<1>1. T = {And(Clauses(f, r)) : f \in presets}
    BY SportDefinite
<1>2. T # {} /\ Definite(T)
    BY <1>1, SportDefinite DEF Definite
<1>3. Or(T) = Truth(\E f \in presets : Satisfied(f, r))
    <2>1. "true" \in T <=> \E f \in presets : Satisfied(f, r)
        BY <1>1 DEF Satisfied
    <2> HIDE DEF T
    <2>2. QED
        BY <1>2, <2>1 DEF Definite, Or, Truth
<1>4. PresetsBuilder(presets, r) = Clause(T, Or(T))
    BY DEF PresetsBuilder, OrAll
<1> HIDE DEF T
<1>5. QED
    BY <1>2, <1>3, <1>4 DEF Clause

\* The clause common to the tabs: the excluded suppliers.
Common == Build(ByPreset("all-sport"))

\* A sport's tab shows what the excluded suppliers leave and its filters find,
LEMMA SportTab ==
    ASSUME NEW sport \in NamedSports, NEW r
    PROVE  Finds(ByPreset(sport), r) <=>
             /\ And(FiltersBuilder(Common, r)) = "true"
             /\ \E f \in Presets(sport).searchParams : Satisfied(f, r)
<1> DEFINE F == FiltersBuilder(Common, r)
           sat == \E f \in Presets(sport).searchParams : Satisfied(f, r)
<1>1. Build(ByPreset(sport)) = Common
    BY DEF Build, ByPreset, ComputeSupplierExcl, Common, NamedSports
<1>2. ByPreset(sport).preset = sport
    BY DEF ByPreset
<1>3. PresetsBuilder(Presets(sport).searchParams, r) = {Truth(sat)}
    <2>1. \A f \in Presets(sport).searchParams : OfSport(f)
        BY SportsNamed
    <2>2. QED
        BY <2>1, SportsNamed, SportPresets
<1>4. PresetsBuilder(Presets(sport).negated, r) = {}
    BY SportsNamed DEF PresetsBuilder, OrAll, Clause
<1>5. Where(ByPreset(sport), r) = And(F \union {Truth(sat)})
    BY <1>1, <1>2, <1>3, <1>4 DEF Where
<1> HIDE DEF F, sat
<1>6. QED
    <2>1. Finds(ByPreset(sport), r) <=> And(F) = "true" /\ sat
        BY <1>5 DEF Finds, And, Truth
    <2>2. QED
        BY <2>1 DEF F, sat

\* and "Sport other" what they leave, "Sport" finds, and no sport's filter does.
LEMMA OtherTab ==
    ASSUME NEW r
    PROVE  Finds(ByPreset("sport-other"), r) <=>
             /\ Finds(ByPreset("all-sport"), r)
             /\ ~ \E f \in SportOther : Satisfied(f, r)
<1> DEFINE F == FiltersBuilder(Common, r)
           P == PresetsBuilder(AllSport, r)
           sat == \E f \in SportOther : Satisfied(f, r)
<1>1. Build(ByPreset("sport-other")) = Common /\ Build(ByPreset("all-sport")) = Common
    BY DEF Build, ByPreset, ComputeSupplierExcl, Common
<1>2. /\ Presets(ByPreset("sport-other").preset) = [searchParams |-> AllSport, negated |-> SportOther]
      /\ Presets(ByPreset("all-sport").preset) = [searchParams |-> AllSport, negated |-> {}]
    BY DEF ByPreset, Presets, ShowsOf
<1>3. PresetsBuilder(SportOther, r) = {Truth(sat)}
    <2>1. SportOther # {}
        BY SportsOfSport, Zenon DEF SportOther
    <2>2. QED
        BY <2>1, SportsNamed, SportPresets
<1>4. PresetsBuilder({}, r) = {}
    BY DEF PresetsBuilder, OrAll, Clause
<1>5. Where(ByPreset("sport-other"), r) = And(F \union P \union {Not(Truth(sat))})
    <2>1. Where(ByPreset("sport-other"), r)
            = And(F \union P \union {Not(c) : c \in PresetsBuilder(SportOther, r)})
        BY <1>1, <1>2 DEF Where
    <2>2. {Not(c) : c \in PresetsBuilder(SportOther, r)} = {Not(Truth(sat))}
        <3> HIDE DEF sat
        <3>1. QED
            BY <1>3
    <2>3. QED
        BY <2>1, <2>2
<1>6. Where(ByPreset("all-sport"), r) = And(F \union P)
    BY <1>1, <1>2, <1>4 DEF Where
<1> HIDE DEF F, P, sat
<1>7. QED
    <2>1. Finds(ByPreset("sport-other"), r) <=> And(F \union P) = "true" /\ ~sat
        BY <1>5 DEF Finds, And, Truth, Not
    <2>2. QED
        BY <2>1, <1>6 DEF sat, Finds

\* "Sport other" and the named sports share no wire (WireFilters.SportOtherIsApart).
THEOREM WireFiltersOtherApart == Spec => []SportOtherIsApart
<1>1. ASSUME IInv PROVE SportOtherIsApart
    <2> SUFFICES ASSUME NEW r \in row, Finds(ByPreset("sport-other"), r),
                        NEW sport \in SeparateSports, NEW s \in row, Finds(ByPreset(sport), s)
                 PROVE  FALSE
        BY DEF SportOtherIsApart, Shown
    <2>1. r = s
        BY <1>1 DEF IInv, TypeOK, Unique
    <2>2. QED
        BY <2>1, OtherTab, SportTab, SportsNamed DEF SeparateSports
<1>2. QED
    BY Initially, Inductive, <1>1, PTL DEF Spec

\* and every wire of "Sport" is in one of them (WireFilters.SportIsCovered).
THEOREM WireFiltersSportCovered == Spec => []SportIsCovered
<1>1. ASSUME NEW r \in row, Finds(ByPreset("all-sport"), r)
      PROVE  \E tab \in NamedSports \union {"sport-other"} : Finds(ByPreset(tab), r)
    <2>1. CASE ~ \E f \in SportOther : Satisfied(f, r)
        BY <1>1, <2>1, OtherTab
    <2>2. CASE \E f \in SportOther : Satisfied(f, r)
        <3>1. PICK sport \in NamedSports : \E f \in Presets(sport).searchParams : Satisfied(f, r)
            BY <2>2, SportsNamed
        <3>2. And(FiltersBuilder(Common, r)) = "true"
            <4>1. /\ "false" \notin FiltersBuilder(Common, r)
                  /\ "null" \notin FiltersBuilder(Common, r)
                BY <1>1 DEF Finds, Where, And, Common
            <4>2. QED
                BY <4>1 DEF And
        <3>3. QED
            BY <3>1, <3>2, SportTab
    <2>3. QED
        BY <2>1, <2>2
<1>2. SportIsCovered
    BY <1>1 DEF SportIsCovered, Shown
<1>3. QED
    BY <1>2, PTL

(***************************************************************************)
(* E-mailed copy.                                                          *)
(***************************************************************************)
\* A request's own filters give way to the suppliers that are left out.
LEMMA BuildFields ==
    ASSUME NEW q \in Searches
    PROVE  Build(q).suppliersExcl = ComputeSupplierExcl(q)
<1> DEFINE D == DOMAIN NoFilter
<1>1. "suppliersExcl" \in D
    BY DEF NoFilter
<1>2. q.filters = [field \in D |-> q.filters[field]]
    <2>1. CASE q \in Requests
        BY <2>1, RequestsAssumption
    <2>2. CASE q \in {ByPreset(name) : name \in PresetNames}
        <3>1. q.filters = NoFilter
            BY <2>2 DEF ByPreset
        <3>2. NoFilter = [field \in D |-> NoFilter[field]]
            BY DEF NoFilter
        <3>3. QED
            BY <3>1, <3>2
    <2>3. QED
        BY <2>1, <2>2 DEF Searches
<1> HIDE DEF D
<1>3. QED
    BY <1>1, <1>2 DEF Build

\* It is in no answer to a request that does not name its preset,
LEMMA CopyLeftOut ==
    ASSUME NEW q \in Searches, "dot-copy" \notin q.presets,
           NEW r, r.supplier = "UNAUTHED_EMAIL_FEED"
    PROVE  ~Finds(q, r)
<1> DEFINE S == ComputeSupplierExcl(q)
<1>1. "UNAUTHED_EMAIL_FEED" \in S
    BY DEF ComputeSupplierExcl
<1> HIDE DEF S
<1>2. SupplierSQL(S, r) = "true"
    BY <1>1 DEF SupplierSQL, Truth, Upper
<1>3. "false" \in Clause(S, Not(SupplierSQL(S, r)))
    BY <1>1, <1>2 DEF Clause, Not
<1>4. Clause(S, Not(SupplierSQL(S, r))) \subseteq Clauses(Build(q), r)
    BY BuildFields DEF S, Clauses
<1>5. "false" \in Clauses(Build(q), r)
    BY <1>3, <1>4
<1>6. "false" \in FiltersBuilder(Build(q), r)
    <2> DEFINE T == Clauses(Build(q), r)
    <2>1. "false" \in T
        BY <1>5
    <2>2. FiltersBuilder(Build(q), r) = Clause(T, And(T))
        BY DEF FiltersBuilder, AndAll
    <2> HIDE DEF T
    <2>3. QED
        BY <2>1, <2>2 DEF Clause, And
<1>7. QED
    BY <1>6 DEF Finds, Where, And

\* where it is, and alone.
LEMMA CopyAlone ==
    ASSUME NEW r
    PROVE  Finds(ByPreset("dot-copy"), r) <=> r.supplier = "UNAUTHED_EMAIL_FEED"
<1> DEFINE is == r.supplier = "UNAUTHED_EMAIL_FEED"
           left == Not(SupplierSQL({"GuReuters", "GuAP"}, r))
<1>1. ComputeSupplierExcl(ByPreset("dot-copy")) = {"GuReuters", "GuAP"}
    BY DEF ComputeSupplierExcl, ByPreset, NoFilter
<1>2. Build(ByPreset("dot-copy")) = [NoFilter EXCEPT !.suppliersExcl = {"GuReuters", "GuAP"}]
    BY <1>1 DEF Build, ByPreset
<1>3. FiltersBuilder(Build(ByPreset("dot-copy")), r) = {And({left})}
    <2>1. Clauses(Build(ByPreset("dot-copy")), r) = {left}
        BY <1>2 DEF Clauses, Clause, NoFilter
    <2>2. QED
        BY <2>1 DEF FiltersBuilder, AndAll, Clause
<1>4. Presets("dot-copy") = [searchParams |-> DotCopy, negated |-> {}]
    BY DEF Presets, ShowsOf
<1>5. PresetsBuilder(DotCopy, r) = {Or({And({Truth(is)})})}
    <2> DEFINE f == SearchPreset("UNAUTHED_EMAIL_FEED")
    <2>1. SupplierSQL({"UNAUTHED_EMAIL_FEED"}, r) = Truth(is)
        BY DEF SupplierSQL, Upper
    <2>2. Clauses(f, r) = {Truth(is)}
        <3> HIDE DEF is
        <3>1. QED
            BY <2>1 DEF Clauses, Clause, SearchPreset, NoFilter
    <2>3. FiltersBuilder(f, r) = {And({Truth(is)})}
        BY <2>2 DEF FiltersBuilder, AndAll, Clause
    <2>4. PresetsBuilder(DotCopy, r) = OrAll(FiltersBuilder(f, r))
        <3>1. {FiltersBuilder(g, r) : g \in DotCopy} = {FiltersBuilder(f, r)}
            BY DEF DotCopy
        <3>2. QED
            BY <3>1 DEF PresetsBuilder
    <2>5. QED
        BY <2>3, <2>4 DEF OrAll, Clause
<1>6. PresetsBuilder({}, r) = {}
    BY DEF PresetsBuilder, OrAll, Clause
<1>7. Where(ByPreset("dot-copy"), r) = And({And({left})} \union {Or({And({Truth(is)})})})
    <2>1. ByPreset("dot-copy").preset = "dot-copy"
        BY DEF ByPreset
    <2>2. QED
        BY <1>3, <1>4, <1>5, <1>6, <2>1 DEF Where
<1>8. is => left = "true"
    BY DEF SupplierSQL, Upper, Truth, Not
<1> HIDE DEF left
<1>9. CASE is
    <2> HIDE DEF is
    <2>1. And({left}) = "true" /\ Or({And({Truth(is)})}) = "true"
        BY <1>8, <1>9 DEF And, Or, Truth
    <2>2. Finds(ByPreset("dot-copy"), r)
        BY <1>7, <2>1 DEF Finds, And
    <2>3. QED
        BY <1>9, <2>2 DEF is
<1>10. CASE ~is
    <2> HIDE DEF is
    <2>1. Or({And({Truth(is)})}) = "false"
        BY <1>10 DEF And, Or, Truth
    <2>2. ~Finds(ByPreset("dot-copy"), r)
        BY <1>7, <2>1 DEF Finds, And
    <2>3. QED
        BY <1>10, <2>2 DEF is
<1>11. QED
    BY <1>9, <1>10

\* Whatever is asked for, e-mailed copy is found by its preset and by no search
\* that does not name it, and nothing else by its preset
\* (WireFilters.DotCopyIsApart).
THEOREM WireFiltersDotCopy == Spec => []DotCopyIsApart
<1>1. DotCopyIsApart
    BY CopyLeftOut, CopyAlone DEF DotCopyIsApart
<1>2. QED
    BY <1>1, PTL

(***************************************************************************)
(* The sections.                                                           *)
(***************************************************************************)
Agencies == {"PA", "REUTERS", "AP", "AAP", "AFP", "MINOR_AGENCIES"}

\* No search of a tab leaves out the wires of an agency.
LEMMA AgencyNotExcluded ==
    ASSUME NEW r, r.supplier \in Agencies
    PROVE  FiltersBuilder(Common, r) = {"true"}
<1> DEFINE S == {"UNAUTHED_EMAIL_FEED", "GuReuters", "GuAP"}
<1>1. Common = [NoFilter EXCEPT !.suppliersExcl = S]
    BY DEF Common, Build, ByPreset, ComputeSupplierExcl, NoFilter
<1>2. Not(SupplierSQL(S, r)) = "true"
    BY DEF SupplierSQL, Upper, Truth, Not, Agencies
<1>3. Clauses(Common, r) = {Not(SupplierSQL(S, r))}
    BY <1>1 DEF Clauses, Clause, NoFilter
<1> HIDE DEF S
<1>4. Clauses(Common, r) = {"true"}
    BY <1>2, <1>3
<1>5. QED
    BY <1>4 DEF FiltersBuilder, AndAll, Clause, And

\* A wire that one filter of a tab is true of is in the tab.
LEMMA TabFinds ==
    ASSUME NEW tab \in TopLevelTabs, NEW r, r.supplier \in Agencies,
           NEW f \in ShowsOf(tab), Clauses(f, r) = {"true"}
    PROVE  Finds(ByPreset(tab), r)
<1>1. Build(ByPreset(tab)) = Common /\ ByPreset(tab).preset = tab
    BY DEF Build, ByPreset, ComputeSupplierExcl, Common, TopLevelTabs
<1>2. Presets(tab).searchParams = ShowsOf(tab) /\ Presets(tab).negated = {}
    BY DEF Presets, TopLevelTabs
<1> DEFINE T == UNION {FiltersBuilder(g, r) : g \in ShowsOf(tab)}
<1>3. "true" \in T
    <2>1. FiltersBuilder(f, r) = {"true"}
        BY DEF FiltersBuilder, AndAll, Clause, And
    <2>2. QED
        BY <2>1
<1>4. PresetsBuilder(ShowsOf(tab), r) = Clause(T, Or(T))
    BY DEF PresetsBuilder, OrAll
<1> HIDE DEF T
<1>5. PresetsBuilder(ShowsOf(tab), r) = {"true"}
    BY <1>3, <1>4 DEF Clause, Or
<1>6. PresetsBuilder({}, r) = {}
    BY DEF PresetsBuilder, OrAll, Clause
<1>7. QED
    BY <1>1, <1>2, <1>5, <1>6, AgencyNotExcluded DEF Finds, Where, And

\* What makes a filter by codes, or by computed categories, true of a wire.
LEMMA CodesTrue ==
    ASSUME NEW s \in Agencies, NEW codes, NEW r, r.supplier = s
    PROVE  /\ r.categoryCodes \intersect codes # {}
                => Clauses([SearchPreset(s) EXCEPT !.categoryCodesIncl = Some(codes)], r) = {"true"}
           /\ r.categoryCodes \intersect codes = {}
                => Clauses([SearchPreset(s) EXCEPT !.categoryCodesExcl = codes], r) = {"true"}
<1>1. SupplierSQL({s}, r) = "true"
    BY DEF SupplierSQL, Upper, Truth, Agencies
<1>2. ASSUME r.categoryCodes \intersect codes # {}
      PROVE  Clauses([SearchPreset(s) EXCEPT !.categoryCodesIncl = Some(codes)], r) = {"true"}
    <2> DEFINE c == [codes |-> codes, combiner |-> "SOME"]
    <2>1. CategoryCodeInclSQL(c, r) = "true"
        BY <1>2 DEF CategoryCodeInclSQL, ContainsCode, Truth
    <2>2. Clauses([SearchPreset(s) EXCEPT !.categoryCodesIncl = {c}], r)
            = {SupplierSQL({s}, r)} \union {CategoryCodeInclSQL(d, r) : d \in {c}}
        <3> HIDE DEF c
        <3>1. QED
            BY DEF Clauses, Clause, SearchPreset, NoFilter
    <2>3. Some(codes) = {c}
        BY DEF Some
    <2> HIDE DEF c
    <2>4. QED
        BY <1>1, <2>1, <2>2, <2>3
<1>3. ASSUME r.categoryCodes \intersect codes = {}
      PROVE  Clauses([SearchPreset(s) EXCEPT !.categoryCodesExcl = codes], r) = {"true"}
    <2>1. Not(CategoryCodeSomeSQL(codes, r)) = "true"
        BY <1>3 DEF CategoryCodeSomeSQL, ContainsCode, Truth, Not
    <2>2. Clauses([SearchPreset(s) EXCEPT !.categoryCodesExcl = codes], r)
            = {SupplierSQL({s}, r)} \union Clause(codes, Not(CategoryCodeSomeSQL(codes, r)))
        BY DEF Clauses, Clause, SearchPreset, NoFilter
    <2>3. QED
        BY <1>1, <2>1, <2>2 DEF Clause
<1>4. QED
    BY <1>2, <1>3

\* A wire with a code of sport has the category of all sports, once it has any.
LEMMA SportCategory ==
    ASSUME NEW r, r.preComputed = {ComputePresetCategories(r.categoryCodes)},
           r.categoryCodes \intersect AllSports # {}
    PROVE  PreComputedCategoriesSQL({"all-sports"}, r) = "true"
<1>1. PresetCodesMap(r.categoryCodes)["all-sports"]
    BY DEF PresetCodesMap, PresetCategories, ContainsCode
<1>2. "all-sports" \in ComputePresetCategories(r.categoryCodes)
    BY <1>1 DEF ComputePresetCategories, PresetCategories
<1>3. QED
    BY <1>2 DEF PreComputedCategoriesSQL, PreComputedSomeSQL, Truth

\* So it is under "Sport", except for PA's, which is there for having no code
\* of another section.
LEMMA UnderSport ==
    ASSUME NEW s \in {"REUTERS", "AP", "AAP", "AFP"}, NEW r, r.supplier = s,
           r.preComputed = {ComputePresetCategories(r.categoryCodes)},
           r.categoryCodes \intersect AllSports # {}
    PROVE  Finds(ByPreset("all-sport"), r)
<1> DEFINE f == [SearchPreset(s) EXCEPT !.preComputedCategories = {"all-sports"}]
<1>1. SupplierSQL({s}, r) = "true"
    BY DEF SupplierSQL, Upper, Truth
<1>2. Clauses(f, r)
        = {SupplierSQL({s}, r)} \union {PreComputedCategoriesSQL({"all-sports"}, r)}
    BY DEF Clauses, Clause, SearchPreset, NoFilter
<1>3. Clauses(f, r) = {"true"}
    BY <1>1, <1>2, SportCategory
<1>4. f \in ShowsOf("all-sport") /\ "all-sport" \in TopLevelTabs
    BY DEF AllSport, ShowsOf, TopLevelTabs
<1> HIDE DEF f
<1>5. QED
    BY <1>3, <1>4, TabFinds DEF Agencies

LEMMA UnderSportPA ==
    ASSUME NEW r, r.supplier = "PA",
           r.categoryCodes \intersect (UKPA \union BusinessPA \union WorldPA \union ElectionsPA) = {}
    PROVE  Finds(ByPreset("all-sport"), r)
<1> DEFINE codes == UKPA \union BusinessPA \union WorldPA \union ElectionsPA
           f == [SearchPreset("PA") EXCEPT !.categoryCodesExcl = codes]
<1>1. f \in ShowsOf("all-sport") /\ "all-sport" \in TopLevelTabs
    BY DEF AllSport, ShowsOf, TopLevelTabs
<1> HIDE DEF codes
<1>2. Clauses(f, r) = {"true"}
    BY CodesTrue DEF Agencies, codes
<1> HIDE DEF f
<1>3. QED
    BY <1>1, <1>2, TabFinds DEF Agencies

(***************************************************************************)
(* The row and the wire it was made from.                                  *)
(***************************************************************************)
RowOfSent ==
    \A r \in row :
        /\ sent = {} => r.supplier = "UNAUTHED_EMAIL_FEED"
        /\ \A m \in sent : /\ r.supplier = LookupSupplier(m.feed)
                           /\ r.categoryCodes = ProcessCategoryCodes(m)
                           /\ r.headline = m.headline

LEMMA RowOfSentStep == IInv /\ RowOfSent /\ [Next]_vars => RowOfSent'
<1> SUFFICES ASSUME IInv, RowOfSent, [Next]_vars PROVE RowOfSent'
    OBVIOUS
<1>1. CASE Ingest
    <2>1. PICK m \in Messages : sent' = {m} /\ row' \subseteq {Row(m, TRUE)}
        BY <1>1 DEF Ingest
    <2>2. QED
        BY <2>1 DEF RowOfSent, Row
<1>2. CASE IngestBefore
    <2>1. PICK m \in Messages : sent' = {m} /\ row' \subseteq {Row(m, FALSE)}
        BY <1>2 DEF IngestBefore
    <2>2. QED
        BY <2>1 DEF RowOfSent, Row
<1>3. CASE IngestEmail
    <2>1. PICK words : row' = {EmailRow(words)}
        BY <1>3 DEF IngestEmail
    <2>2. sent' = {} /\ EmailRow(words).supplier = "UNAUTHED_EMAIL_FEED"
        BY <1>3 DEF IngestEmail, EmailRow
    <2>3. QED
        BY <2>1, <2>2 DEF RowOfSent
<1>4. CASE BackfillSourceFeed
    <2>1. PICK r \in row, m \in sent :
              row' = {[r EXCEPT !.guSourceFeed = {m.feed}]} /\ UNCHANGED sent
        BY <1>4 DEF BackfillSourceFeed
    <2>2. r = Shape(r)
        BY DEF IInv
    <2> DEFINE x == [r EXCEPT !.guSourceFeed = {m.feed}]
    <2>3. x.supplier = r.supplier /\ x.categoryCodes = r.categoryCodes /\ x.headline = r.headline
        BY <2>2 DEF Shape
    <2> HIDE DEF x
    <2>4. row' = {x}
        BY <2>1 DEF x
    <2>5. QED
        BY <2>1, <2>3, <2>4 DEF RowOfSent
<1>5. CASE Recompute
    <2>1. PICK r \in row :
              /\ row' = {[r EXCEPT !.preComputed = {ComputePresetCategories(r.categoryCodes)}]}
              /\ UNCHANGED sent
        BY <1>5 DEF Recompute
    <2>2. r = Shape(r)
        BY DEF IInv
    <2> DEFINE x == [r EXCEPT !.preComputed = {ComputePresetCategories(r.categoryCodes)}]
    <2>3. x.supplier = r.supplier /\ x.categoryCodes = r.categoryCodes /\ x.headline = r.headline
        BY <2>2 DEF Shape
    <2> HIDE DEF x
    <2>4. row' = {x}
        BY <2>1 DEF x
    <2>5. QED
        BY <2>1, <2>3, <2>4 DEF RowOfSent
<1>6. CASE UNCHANGED vars
    BY <1>6 DEF vars, RowOfSent
<1>7. QED
    BY <1>1, <1>2, <1>3, <1>4, <1>5, <1>6 DEF Next

\* What the ingestion lambda keeps of the codes that an agency sends.
LEMMA CodesKept ==
    ASSUME NEW m
    PROVE  /\ m.feed = "REUTERS" => m.subjects \subseteq ProcessCategoryCodes(m)
           /\ m.feed = "AP APAPI" =>
                \A x : <<"iptccat", x>> \in m.subjects => <<"apCat", x>> \in ProcessCategoryCodes(m)
           /\ m.feed = "AFP" =>
                \A x : <<"iptccat", x>> \in m.subjects => <<"afpCat", x>> \in ProcessCategoryCodes(m)
           /\ m.feed = "AAP" =>
                \A x : <<"subj", x>> \in m.subjects \/ <<"", x>> \in m.subjects
                    => <<"subj", x>> \in ProcessCategoryCodes(m)
<1>1. \A codes, from, to, x :
          <<from, x>> \in codes => <<to, x>> \in ReplacePrefix(codes, from, to)
    BY DEF ReplacePrefix
<1>2. \A codes, to, x : <<"subj", x>> \in codes => <<"subj", x>> \in ReplacePrefix(codes, "", to)
    BY DEF ReplacePrefix
<1>3. CASE m.feed = "REUTERS"
    BY <1>3 DEF ProcessCategoryCodes, LookupSupplier
<1>4. CASE m.feed = "AP APAPI"
    BY <1>1, <1>4 DEF ProcessCategoryCodes, LookupSupplier
<1>5. CASE m.feed = "AFP"
    BY <1>1, <1>5 DEF ProcessCategoryCodes, LookupSupplier
<1>6. CASE m.feed = "AAP"
    BY <1>1, <1>2, <1>6 DEF ProcessCategoryCodes, LookupSupplier
<1>7. QED
    BY <1>3, <1>4, <1>5, <1>6

\* Of PA's, none is of a section that none was sent of.
LEMMA CodesOfPA ==
    ASSUME NEW m, m.feed \in {"PA", "PA_API"}, NEW S,
           \A c \in m.subjects \union {<<"iptccat", m.media>>} :
               {c, <<"paCat", c[2]>>} \intersect S = {}
    PROVE  ProcessCategoryCodes(m) \intersect S = {}
<1>1. ProcessCategoryCodes(m)
        = ReplacePrefix(m.subjects, "iptccat", "paCat") \union Coded("paCat", {m.media} \ {""})
    BY DEF ProcessCategoryCodes, LookupSupplier
<1>2. ReplacePrefix(m.subjects, "iptccat", "paCat") \intersect S = {}
    BY DEF ReplacePrefix
<1>3. Coded("paCat", {m.media}) \intersect S = {}
    <2> DEFINE c == <<"iptccat", m.media>>
    <2>1. <<"paCat", c[2]>> \notin S
        BY Zenon
    <2>2. c[2] = m.media
        OBVIOUS
    <2> HIDE DEF c
    <2>3. <<"paCat", m.media>> \notin S
        BY <2>1, <2>2
    <2>4. QED
        BY <2>3 DEF Coded
<1>4. Coded("paCat", {m.media} \ {""}) \subseteq Coded("paCat", {m.media})
    BY DEF Coded
<1>5. QED
    BY <1>1, <1>2, <1>3, <1>4

\* The codes by which the presets name the sports are in the tables of sport.
LEMMA SportsInTables ==
    /\ CodesOfSports \subseteq SportsRelatedTopicCodes \union SportsRelatedNewsCodes
    /\ ForAAP(CodesOfSports) \subseteq SportsRelatedNewsCodes
    /\ \A c \in CodesOfSports : c = <<c[1], c[2]>>
<1> DEFINE S == SportsRelatedTopicCodes \union SportsRelatedNewsCodes
<1>1. \A sport \in DOMAIN CodesOf : CodesOf[sport] \subseteq S
    BY DEF CodesOf, ScoresOf, SoccerCodes, CricketCodes, TennisCodes, GolfCodes, BasketballCodes,
           RugbyLeagueCodes, Topics, News, Coded, SportsRelatedTopicCodes, SportsRelatedNewsCodes
<1>2. /\ RugbyUnionCodes \subseteq S /\ CyclingCodes \subseteq S /\ MotorSportCodes \subseteq S
      /\ BoxingCodes \subseteq S /\ HorseRacingCodes \subseteq S /\ AthleticsCodes \subseteq S
    BY DEF RugbyUnionCodes, CyclingCodes, MotorSportCodes, BoxingCodes, HorseRacingCodes,
           AthleticsCodes, Topics, News, Coded, SportsRelatedTopicCodes, SportsRelatedNewsCodes
<1>3. OlympicsCodes \ {<<"N2", "OLY">>} \subseteq S
    BY DEF OlympicsCodes, Topics, News, Coded, SportsRelatedTopicCodes, SportsRelatedNewsCodes
<1>4. \A c \in S : c = <<c[1], c[2]>> /\ (c[1] = "subj" => c \in SportsRelatedNewsCodes)
    BY DEF Coded, SportsRelatedTopicCodes, SportsRelatedNewsCodes
<1> HIDE DEF S
<1>5. CodesOfSports \subseteq S
    <2> DEFINE U == UNION {CodesOf[sport] : sport \in DOMAIN CodesOf}
               O == OlympicsCodes \ {<<"N2", "OLY">>}
    <2>1. U \subseteq S /\ O \subseteq S
        BY <1>1, <1>3
    <2>2. CodesOfSports
            = U \union RugbyUnionCodes \union CyclingCodes \union MotorSportCodes
              \union BoxingCodes \union HorseRacingCodes \union AthleticsCodes \union O
        BY DEF CodesOfSports
    <2> HIDE DEF U, O
    <2>3. QED
        BY <1>2, <2>1, <2>2
<1>6. QED
    BY <1>4, <1>5 DEF ForAAP, S

\* No agency sends the categories that the ingestion lambda gives (guCat).
GuCategoriesAreOurs == \A m \in Messages : \A c \in m.subjects : c[1] # "guCat"

\* The agencies whose presets divide their wires among the sections leave none
\* out (WireFilters.EveryWireHasATab), as long as none sends a category that is
\* ours to give: a wire of AFP with guCat:PressRelease would be in no tab.
THEOREM WireFiltersEveryTab ==
    ASSUME GuCategoriesAreOurs
    PROVE  Spec => []EveryWireHasATab
<1>1. ASSUME IInv, RowOfSent, NEW r \in row, r.preComputed # {},
             \/ r.supplier \in {"PA", "MINOR_AGENCIES"}
             \/ r.supplier = "AFP" /\ "PressRelease" \notin r.headline
             \/ r.supplier = "AAP" /\ "Sports" \notin r.keywords
      PROVE  \E tab \in TopLevelTabs : Finds(ByPreset(tab), r)
    <2> DEFINE codes == r.categoryCodes
    <2>1. r.preComputed = {ComputePresetCategories(codes)}
        BY <1>1 DEF IInv, TypeOK
    <2>2. {"all-world", "all-uk", "all-business", "all-sport"} \subseteq TopLevelTabs
        BY DEF TopLevelTabs
    <2>3. CASE r.supplier = "PA"
        <3>1. CASE codes \intersect (UKPA \union ElectionsPA) # {}
            <4> DEFINE f == [SearchPreset("PA") EXCEPT !.categoryCodesIncl = Some(UKPA \union ElectionsPA)]
            <4>1. f \in ShowsOf("all-uk")
                BY DEF AllUk, ShowsOf
            <4>2. Clauses(f, r) = {"true"}
                BY <2>3, <3>1, CodesTrue DEF Agencies
            <4> HIDE DEF f
            <4>3. QED
                BY <2>2, <2>3, <4>1, <4>2, TabFinds DEF Agencies
        <3>2. CASE codes \intersect WorldPA # {}
            <4> DEFINE f == [SearchPreset("PA") EXCEPT !.categoryCodesIncl = Some(WorldPA)]
            <4>1. f \in ShowsOf("all-world")
                BY DEF AllWorld, PaWorld, ShowsOf
            <4>2. Clauses(f, r) = {"true"}
                BY <2>3, <3>2, CodesTrue DEF Agencies
            <4> HIDE DEF f
            <4>3. QED
                BY <2>2, <2>3, <4>1, <4>2, TabFinds DEF Agencies
        <3>3. CASE codes \intersect BusinessPA # {}
            <4> DEFINE f == [SearchPreset("PA") EXCEPT !.categoryCodesIncl = Some(BusinessPA)]
            <4>1. f \in ShowsOf("all-business")
                BY DEF AllBusiness, ShowsOf
            <4>2. Clauses(f, r) = {"true"}
                BY <2>3, <3>3, CodesTrue DEF Agencies
            <4> HIDE DEF f
            <4>3. QED
                BY <2>2, <2>3, <4>1, <4>2, TabFinds DEF Agencies
        <3>4. QED
            BY <2>2, <2>3, <3>1, <3>2, <3>3, UnderSportPA
    <2>4. CASE r.supplier = "MINOR_AGENCIES"
        <3>1. CASE codes \intersect UKMinorAgencies # {}
            <4> DEFINE f == [SearchPreset("MINOR_AGENCIES") EXCEPT
                                !.categoryCodesIncl = Some(UKMinorAgencies)]
            <4>1. f \in ShowsOf("all-uk")
                BY DEF AllUk, ShowsOf
            <4>2. Clauses(f, r) = {"true"}
                BY <2>4, <3>1, CodesTrue DEF Agencies
            <4> HIDE DEF f
            <4>3. QED
                BY <2>2, <2>4, <4>1, <4>2, TabFinds DEF Agencies
        <3>2. CASE codes \intersect UKMinorAgencies = {}
            <4> DEFINE f == [SearchPreset("MINOR_AGENCIES") EXCEPT
                                !.categoryCodesExcl = UKMinorAgencies]
            <4>1. f \in ShowsOf("all-world")
                BY DEF AllWorld, MinorAgenciesWorld, ShowsOf
            <4>2. Clauses(f, r) = {"true"}
                BY <2>4, <3>2, CodesTrue DEF Agencies
            <4> HIDE DEF f
            <4>3. QED
                BY <2>2, <2>4, <4>1, <4>2, TabFinds DEF Agencies
        <3>3. QED
            BY <3>1, <3>2
    <2>5. CASE r.supplier = "AFP" /\ "PressRelease" \notin r.headline
        <3> DEFINE out == SportAFP \union {<<"guCat", "PressRelease">>}
        <3>1. <<"guCat", "PressRelease">> \notin codes
            <4>1. PICK m \in sent : codes = ProcessCategoryCodes(m) /\ r.headline = m.headline
                                    /\ r.supplier = LookupSupplier(m.feed)
                BY <1>1, <2>5 DEF RowOfSent
            <4>2. ProcessCategoryCodes(m)
                    = ReplacePrefix(m.subjects, "iptccat", "afpCat") \union Geographical(m.places)
                      \union Coded("guCat", {"PressRelease"} \intersect m.headline)
                BY <2>5, <4>1 DEF ProcessCategoryCodes
            <4>3. m \in Messages
                BY <1>1 DEF IInv, TypeOK
            <4>4. <<"guCat", "PressRelease">> \notin ReplacePrefix(m.subjects, "iptccat", "afpCat")
                <5> DEFINE g(c) == IF c[1] = "iptccat" THEN <<"afpCat", c[2]>> ELSE c
                <5>1. ASSUME NEW c \in m.subjects PROVE g(c) # <<"guCat", "PressRelease">>
                    <6>1. c[1] # "guCat"
                        BY <4>3 DEF GuCategoriesAreOurs
                    <6>2. c # <<"guCat", "PressRelease">>
                        BY <6>1
                    <6>3. <<"afpCat", c[2]>> # <<"guCat", "PressRelease">>
                        OBVIOUS
                    <6>4. QED
                        BY <6>2, <6>3
                <5>2. ReplacePrefix(m.subjects, "iptccat", "afpCat") = {g(c) : c \in m.subjects}
                    BY DEF ReplacePrefix
                <5> HIDE DEF g
                <5>3. QED
                    BY <5>1, <5>2
            <4>5. <<"guCat", "PressRelease">> \notin Geographical(m.places)
                BY DEF Geographical, Coded
            <4>6. <<"guCat", "PressRelease">>
                      \notin Coded("guCat", {"PressRelease"} \intersect m.headline)
                BY <2>5, <4>1 DEF Coded
            <4>7. QED
                BY <4>1, <4>2, <4>4, <4>5, <4>6
        <3>2. CASE <<"afpCat", "SPO">> \in codes
            <4>1. codes \intersect AllSports # {}
                BY <3>2 DEF AllSports
            <4>2. QED
                BY <2>1, <2>2, <2>5, <4>1, UnderSport
        <3>3. CASE <<"afpCat", "SPO">> \notin codes
            <4> DEFINE f == [SearchPreset("AFP") EXCEPT !.categoryCodesExcl = out]
            <4>1. f \in ShowsOf("all-world")
                BY DEF AllWorld, AfpWorld, ShowsOf
            <4>2. codes \intersect out = {}
                BY <3>1, <3>3 DEF SportAFP, Coded
            <4> HIDE DEF out
            <4>3. Clauses(f, r) = {"true"}
                BY <2>5, <4>2, CodesTrue DEF Agencies
            <4> HIDE DEF f
            <4>4. QED
                BY <2>2, <2>5, <4>1, <4>3, TabFinds DEF Agencies
        <3>4. QED
            BY <3>2, <3>3
    <2>6. CASE r.supplier = "AAP" /\ "Sports" \notin r.keywords
        <3>1. CASE codes \intersect SportsRelatedNewsCodes # {}
            <4>1. codes \intersect AllSports # {}
                BY <3>1 DEF AllSports
            <4>2. QED
                BY <2>1, <2>2, <2>6, <4>1, UnderSport
        <3>2. CASE codes \intersect SportsRelatedNewsCodes = {}
            <4> DEFINE f == [SearchPreset("AAP") EXCEPT
                                !.keywordExcl = {"Sports"},
                                !.preComputedCategoriesExcl = {"sports-related-news-codes"}]
            <4>1. f \in ShowsOf("all-world")
                BY DEF AllWorld, AapWorld, ShowsOf
            <4>2. /\ SupplierSQL({"AAP"}, r) = "true"
                  /\ Not(KeywordsSQL({"Sports"}, r)) = "true"
                BY <2>6 DEF SupplierSQL, KeywordsSQL, Upper, Truth, Not
            <4>3. ~PresetCodesMap(codes)["sports-related-news-codes"]
                BY <3>2 DEF PresetCodesMap, PresetCategories, ContainsCode
            <4>4. "sports-related-news-codes" \notin ComputePresetCategories(codes)
                BY <4>3 DEF ComputePresetCategories
            <4>5. Not(PreComputedCategoriesSQL({"sports-related-news-codes"}, r)) = "true"
                BY <2>1, <4>4 DEF PreComputedCategoriesSQL, PreComputedSomeSQL, Truth, Not
            <4>6. Clauses(f, r)
                    = {SupplierSQL({"AAP"}, r), Not(KeywordsSQL({"Sports"}, r)),
                       Not(PreComputedCategoriesSQL({"sports-related-news-codes"}, r))}
                BY DEF Clauses, Clause, SearchPreset, NoFilter
            <4> HIDE DEF f
            <4>7. Clauses(f, r) = {"true"}
                BY <4>2, <4>5, <4>6
            <4>8. QED
                BY <2>2, <2>6, <4>1, <4>7, TabFinds DEF Agencies
        <3>3. QED
            BY <3>1, <3>2
    <2>7. QED
        BY <1>1, <2>3, <2>4, <2>5, <2>6
<1>2. IInv /\ RowOfSent => EveryWireHasATab
    BY <1>1 DEF EveryWireHasATab, Shown
<1>3. Init => RowOfSent
    BY DEF Init, RowOfSent
<1>4. QED
    BY Initially, Inductive, RowOfSentStep, <1>2, <1>3, PTL DEF Spec

\* What an agency sends as sport is under "Sport" (WireFilters.SportReachesItsTab):
\* its codes are rewritten to those that the tables of sport name.
THEOREM WireFiltersSportReached == Spec => []SportReachesItsTab
<1>1. ASSUME IInv, RowOfSent, NEW m \in sent, NEW r \in row, SentAsSport(m), r.preComputed # {}
      PROVE  Finds(ByPreset("all-sport"), r)
    <2> DEFINE codes == r.categoryCodes
    <2>1. /\ r.preComputed = {ComputePresetCategories(codes)}
          /\ codes = ProcessCategoryCodes(m) /\ r.supplier = LookupSupplier(m.feed)
        BY <1>1 DEF IInv, TypeOK, RowOfSent
    <2>2. CASE m.feed = "AP APAPI"
        <3>1. r.supplier = "AP" /\ <<"apCat", "s">> \in codes
            BY <1>1, <2>1, <2>2, CodesKept DEF SentAsSport, LookupSupplier
        <3>2. codes \intersect AllSports # {}
            BY <3>1 DEF AllSports
        <3>3. QED
            BY <2>1, <3>1, <3>2, UnderSport
    <2>3. CASE m.feed = "AFP"
        <3>1. r.supplier = "AFP" /\ <<"afpCat", "SPO">> \in codes
            BY <1>1, <2>1, <2>3, CodesKept DEF SentAsSport, LookupSupplier
        <3>2. codes \intersect AllSports # {}
            BY <3>1 DEF AllSports
        <3>3. QED
            BY <2>1, <3>1, <3>2, UnderSport
    <2>4. CASE m.feed = "AAP"
        <3>1. PICK c \in ForAAP(CodesOfSports) : c \in m.subjects \/ <<"", c[2]>> \in m.subjects
            BY <1>1, <2>4 DEF SentAsSport
        <3>2. c = <<"subj", c[2]>> /\ c \in SportsRelatedNewsCodes
            BY SportsInTables DEF ForAAP
        <3>3. r.supplier = "AAP" /\ c \in codes
            BY <2>1, <2>4, <3>1, <3>2, CodesKept DEF LookupSupplier
        <3>4. codes \intersect AllSports # {}
            BY <3>2, <3>3 DEF AllSports
        <3>5. QED
            BY <2>1, <3>3, <3>4, UnderSport
    <2>5. CASE m.feed = "REUTERS"
        <3>1. r.supplier = "REUTERS" /\ codes \intersect CodesOfSports # {}
            BY <1>1, <2>1, <2>5, CodesKept DEF SentAsSport, LookupSupplier
        <3>2. codes \intersect AllSports # {}
            BY <3>1, SportsInTables DEF AllSports
        <3>3. QED
            BY <2>1, <3>1, <3>2, UnderSport
    <2>6. CASE m.feed \in {"PA", "PA_API"}
        <3> DEFINE S == UKPA \union ElectionsPA \union WorldPA \union BusinessPA
        <3>1. \A c \in m.subjects \union {<<"iptccat", m.media>>} :
                  {c, <<"paCat", c[2]>>} \intersect S = {}
            BY <1>1, <2>6 DEF SentAsSport
        <3>2. S = UKPA \union BusinessPA \union WorldPA \union ElectionsPA
            OBVIOUS
        <3> HIDE DEF S
        <3>3. codes \intersect S = {}
            BY <2>1, <2>6, <3>1, CodesOfPA
        <3>4. r.supplier = "PA"
            BY <2>1, <2>6 DEF LookupSupplier
        <3>5. QED
            BY <3>2, <3>3, <3>4, UnderSportPA
    <2>7. QED
        BY <1>1, <2>2, <2>3, <2>4, <2>5, <2>6 DEF SentAsSport
<1>2. IInv /\ RowOfSent => SportReachesItsTab
    BY <1>1 DEF SportReachesItsTab, Shown
<1>3. Init => RowOfSent
    BY DEF Init, RowOfSent
<1>4. QED
    BY Initially, Inductive, RowOfSentStep, <1>2, <1>3, PTL DEF Spec

(***************************************************************************)
(* Stories and scores.                                                     *)
(***************************************************************************)
\* A search of words finds a text.
Has(query, words) == \E a \in query : a.all \subseteq words /\ a.none \intersect words = {}

LEMMA HasForms ==
    /\ \A w, words : Has(Lacking({w}), words) <=> ~(w \in words)
    /\ \A w, words : Has(AllOf({w}), words) <=> w \in words
    /\ \A v, w, words : Has(Lacking({v, w}), words) <=> ~(v \in words \/ w \in words)
    /\ \A v, w, words : Has(AnyOf({v, w}), words) <=> v \in words \/ w \in words
<1>1. \A W, words : Has(Lacking(W), words) <=> W \intersect words = {}
    BY DEF Has, Lacking
<1>2. \A W, words : Has(AllOf(W), words) <=> W \subseteq words
    BY DEF Has, AllOf
<1>3. \A W, words : Has(AnyOf(W), words) <=> \E w \in W : w \in words
    <2> TAKE W, words
    <2> DEFINE a(w) == [all |-> {w}, none |-> {}]
    <2>1. \A w : a(w).all \subseteq words /\ a(w).none \intersect words = {} <=> w \in words
        OBVIOUS
    <2>2. AnyOf(W) = {a(w) : w \in W}
        BY DEF AnyOf
    <2> HIDE DEF a
    <2>3. QED
        BY <2>1, <2>2 DEF Has
<1>4. QED
    BY <1>1, <1>2, <1>3

\* Words of one text, and of two.
LEMMA OneText ==
    ASSUME NEW query, NEW field, NEW r
    PROVE  \A s \in SingleTerm(SingleField(query, field)) :
               SearchTermsSQL(s, r) = "true" <=> Has(query, Words(r, field))
<1> DEFINE t == SingleField(query, field)
           s == [terms |-> {t}, combiner |-> "AND"]
<1>1. SearchTermSQL(t, r) = Truth(Has(query, Words(r, field)))
    BY DEF SearchTermSQL, SingleField, Has
<1>2. SearchTermsSQL(s, r) = And({SearchTermSQL(u, r) : u \in {t}})
    BY DEF SearchTermsSQL
<1> HIDE DEF t
<1>3. SearchTermsSQL(s, r) = And({SearchTermSQL(t, r)})
    BY <1>2
<1>4. SearchTermsSQL(s, r) = "true" <=> Has(query, Words(r, field))
    BY <1>1, <1>3 DEF And, Truth
<1>5. SingleTerm(t) = {s}
    BY DEF SingleTerm
<1> HIDE DEF s
<1>6. QED
    BY <1>4, <1>5 DEF t

LEMMA TwoTexts ==
    ASSUME NEW p, NEW d, NEW q, NEW e, NEW r
    PROVE  \A s \in ComboTerm({SingleField(p, d), SingleField(q, e)}, "AND") :
               SearchTermsSQL(s, r) = "true" <=> Has(p, Words(r, d)) /\ Has(q, Words(r, e))
<1> DEFINE t == SingleField(p, d)
           u == SingleField(q, e)
           s == [terms |-> {t, u}, combiner |-> "AND"]
<1>1. SearchTermSQL(t, r) = Truth(Has(p, Words(r, d))) /\ SearchTermSQL(u, r) = Truth(Has(q, Words(r, e)))
    BY DEF SearchTermSQL, SingleField, Has
<1>2. SearchTermsSQL(s, r) = And({SearchTermSQL(x, r) : x \in {t, u}})
    BY DEF SearchTermsSQL
<1> HIDE DEF t, u
<1>3. SearchTermsSQL(s, r) = And({SearchTermSQL(t, r), SearchTermSQL(u, r)})
    BY <1>2
<1>4. SearchTermsSQL(s, r) = "true" <=> Has(p, Words(r, d)) /\ Has(q, Words(r, e))
    BY <1>1, <1>3 DEF And, Truth
<1>5. ComboTerm({t, u}, "AND") = {s}
    BY DEF ComboTerm
<1> HIDE DEF s
<1>6. QED
    BY <1>4, <1>5 DEF t, u

\* Of Reuters' wires with a code of it, a sport's filter finds those with its words;
LEMMA ReutersFound ==
    ASSUME NEW r, r.supplier = "REUTERS", NEW codes, r.categoryCodes \intersect codes # {},
           NEW terms
    PROVE  Satisfied(SportFilter("REUTERS", terms, Some(codes), {}), r)
             <=> \A s \in terms : SearchTermsSQL(s, r) = "true"
<1> DEFINE c == [codes |-> codes, combiner |-> "SOME"]
           f == SportFilter("REUTERS", terms, {c}, {})
           T == {SearchTermsSQL(s, r) : s \in terms}
<1>1. CategoryCodeInclSQL(c, r) = "true" /\ SupplierSQL({"REUTERS"}, r) = "true"
    BY DEF CategoryCodeInclSQL, ContainsCode, Truth, SupplierSQL, Upper
<1>2. Clauses(f, r) = {SupplierSQL({"REUTERS"}, r)} \union T \union {CategoryCodeInclSQL(d, r) : d \in {c}}
    <2> HIDE DEF c
    <2>1. QED
        BY DEF Clauses, Clause, SportFilter, SearchPreset, NoFilter
<1>3. Some(codes) = {c}
    BY DEF Some
<1>4. T \subseteq Truths
    <2>1. \A s \in terms : SearchTermsSQL(s, r) \in Truths
        BY ConnectiveTypes DEF SearchTermsSQL
    <2>2. QED
        BY <2>1
<1> HIDE DEF c, f
<1>5. Clauses(f, r) = {"true"} \union T
    BY <1>1, <1>2
<1> HIDE DEF T
<1>6. Satisfied(f, r) <=> T \subseteq {"true"}
    BY <1>4, <1>5 DEF Satisfied, And, Truths
<1>7. QED
    BY <1>3, <1>6 DEF T, f

\* and no filter of another agency finds any.
LEMMA OthersMiss ==
    ASSUME NEW r, r.supplier = "REUTERS"
    PROVE  /\ \A s \in {"PA", "AFP", "AAP", "AP"} : \A t, c, k : ~Satisfied(SportFilter(s, t, c, k), r)
           /\ \A s \in {"PA", "AFP", "AAP", "AP"} : \A t, c, k, x :
                 ~Satisfied(Without(SportFilter(s, t, c, k), x), r)
           /\ \A s \in {"PA", "AFP", "AAP", "AP"} : \A t, c, k, x :
                 ~Satisfied(Formatted(SportFilter(s, t, c, k), x), r)
<1>1. ASSUME NEW f, NEW s \in {"PA", "AFP", "AAP", "AP"}, f.suppliersIncl = {s}
      PROVE  ~Satisfied(f, r)
    <2>1. SupplierSQL({s}, r) = "false"
        BY DEF SupplierSQL, Upper, Truth
    <2>2. "false" \in Clause({s}, SupplierSQL({s}, r))
        BY <2>1 DEF Clause
    <2>3. Clause({s}, SupplierSQL({s}, r)) \subseteq Clauses(f, r)
        BY <1>1 DEF Clauses
    <2>4. QED
        BY <2>2, <2>3 DEF Satisfied, And
<1>2. \A s, t, c, k, x : /\ SportFilter(s, t, c, k).suppliersIncl = {s}
                         /\ Without(SportFilter(s, t, c, k), x).suppliersIncl = {s}
                         /\ Formatted(SportFilter(s, t, c, k), x).suppliersIncl = {s}
    BY DEF SportFilter, Without, Formatted, SearchPreset, NoFilter
<1>3. QED
    BY <1>1, <1>2

\* So these are the filters by which the tabs of stories and of scores find
\* Reuters' wires.
LEMMA ReutersFilters ==
    ASSUME NEW r, r.supplier = "REUTERS"
    PROVE  LET found(presets) == \E f \in presets : Satisfied(f, r)
               by(terms, codes) == Satisfied(SportFilter("REUTERS", terms, Some(codes), {}), r)
               both(p, q) == ComboTerm({SingleField(p, "body"), SingleField(q, "slug")}, "AND")
           IN
               /\ (found(SoccerPreset) <=> by(Body(Lacking({"OPTA"})), SoccerCodes))
               /\ (found(SoccerScores) <=> by(Body(AllOf({"OPTA"})), SoccerCodes))
               /\ (found(Cricket) <=> by(Body(Lacking({"OPTA"})), CricketCodes))
               /\ (found(CricketScores) <=> by(Body(AllOf({"OPTA"})), CricketCodes))
               /\ (found(Tennis) <=> by(Body(Lacking({"OPTA"})), TennisCodes))
               /\ (found(TennisScores) <=> by(Body(AllOf({"OPTA"})), TennisCodes))
               /\ (found(Golf) <=> by(Body(Lacking({"OPTA"})), GolfCodes))
               /\ (found(GolfScores) <=> by(Body(AllOf({"OPTA"})), GolfCodes))
               /\ (found(Basketball) <=> by(Slug(Lacking({"/RESULTS", "/STANDINGS"})), BasketballCodes))
               /\ (found(BasketballScores) <=> by(Slug(AnyOf({"/RESULTS", "/STANDINGS"})), BasketballCodes))
               /\ (found(RugbyLeague) <=>
                     \/ by(Body(Lacking({"OPTA"})), RugbyLeagueCodes)
                     \/ by(both(AllOf({"OPTA"}), AllOf({"/SUMMARIES"})), RugbyLeagueCodes))
               /\ (found(RugbyScores) <=>
                     by(both(AllOf({"OPTA"}), Lacking({"/SUMMARIES"})), RugbyLeagueCodes))
<1> DEFINE found(presets) == \E f \in presets : Satisfied(f, r)
           by(terms, codes) == Satisfied(SportFilter("REUTERS", terms, Some(codes), {}), r)
           both(p, q) == ComboTerm({SingleField(p, "body"), SingleField(q, "slug")}, "AND")
<1> USE OthersMiss DEF OfCodes, ReutersSport, PaSport, AfpSport, ApSport, AfpSportBoth, ReutersSportBoth
<1>1. found(SoccerPreset) <=> by(Body(Lacking({"OPTA"})), SoccerCodes)
    BY DEF SoccerPreset
<1>2. found(SoccerScores) <=> by(Body(AllOf({"OPTA"})), SoccerCodes)
    BY DEF SoccerScores
<1>3. found(Cricket) <=> by(Body(Lacking({"OPTA"})), CricketCodes)
    BY DEF Cricket
<1>4. found(CricketScores) <=> by(Body(AllOf({"OPTA"})), CricketCodes)
    BY DEF CricketScores
<1>5. found(Tennis) <=> by(Body(Lacking({"OPTA"})), TennisCodes)
    BY DEF Tennis
<1>6. found(TennisScores) <=> by(Body(AllOf({"OPTA"})), TennisCodes)
    BY DEF TennisScores
<1>7. found(Golf) <=> by(Body(Lacking({"OPTA"})), GolfCodes)
    BY DEF Golf
<1>8. found(GolfScores) <=> by(Body(AllOf({"OPTA"})), GolfCodes)
    BY DEF GolfScores
<1>9. found(Basketball) <=> by(Slug(Lacking({"/RESULTS", "/STANDINGS"})), BasketballCodes)
    BY DEF Basketball
<1>10. found(BasketballScores) <=> by(Slug(AnyOf({"/RESULTS", "/STANDINGS"})), BasketballCodes)
    BY DEF BasketballScores
<1>11. found(RugbyLeague) <=>
          \/ by(Body(Lacking({"OPTA"})), RugbyLeagueCodes)
          \/ by(both(AllOf({"OPTA"}), AllOf({"/SUMMARIES"})), RugbyLeagueCodes)
    BY DEF RugbyLeague
<1>12. found(RugbyScores) <=>
          by(both(AllOf({"OPTA"}), Lacking({"/SUMMARIES"})), RugbyLeagueCodes)
    BY DEF RugbyScores
<1>13. QED
    BY <1>1, <1>2, <1>3, <1>4, <1>5, <1>6, <1>7,
       <1>8, <1>9, <1>10, <1>11, <1>12, Zenon

\* The scores of a sport and its stories divide Reuters' wires of that sport
\* (WireFilters.ScoresDivide), whichever words their texts have.
THEOREM WireFiltersScoresDivide == Spec => []ScoresDivide
<1>1. ASSUME NEW r, r.supplier = "REUTERS", NEW sport \in DOMAIN ScoresOf,
             r.categoryCodes \intersect CodesOf[sport] # {}
      PROVE  Finds(ByPreset(sport), r) <=> ~Finds(ByPreset(ScoresOf[sport]), r)
    <2> DEFINE found(presets) == \E f \in presets : Satisfied(f, r)
               by(terms, codes) == Satisfied(SportFilter("REUTERS", terms, Some(codes), {}), r)
               both(p, q) == ComboTerm({SingleField(p, "body"), SingleField(q, "slug")}, "AND")
               opta == "OPTA" \in Words(r, "body")
    <2>1. \A tab \in NamedSports : Finds(ByPreset(tab), r) <=> found(ShowsOf(tab))
        BY <1>1, SportTab, SportsPlain, AgencyNotExcluded DEF Agencies, And
    <2>2. /\ \A q, codes : r.categoryCodes \intersect codes # {} =>
                 /\ by(Body(q), codes) <=> Has(q, Words(r, "body"))
                 /\ by(Slug(q), codes) <=> Has(q, Words(r, "slug"))
          /\ \A p, q, codes : r.categoryCodes \intersect codes # {} =>
                 (by(both(p, q), codes) <=> Has(p, Words(r, "body")) /\ Has(q, Words(r, "slug")))
        <3>1. ASSUME NEW q, NEW field, NEW codes, r.categoryCodes \intersect codes # {}
              PROVE  by(SingleTerm(SingleField(q, field)), codes) <=> Has(q, Words(r, field))
            <4>1. by(SingleTerm(SingleField(q, field)), codes)
                    <=> \A s \in SingleTerm(SingleField(q, field)) : SearchTermsSQL(s, r) = "true"
                BY <1>1, <3>1, ReutersFound
            <4>2. SingleTerm(SingleField(q, field)) # {}
                BY DEF SingleTerm
            <4>3. QED
                BY <4>1, <4>2, OneText
        <3>2. ASSUME NEW p, NEW q, NEW codes, r.categoryCodes \intersect codes # {}
              PROVE  by(both(p, q), codes) <=> Has(p, Words(r, "body")) /\ Has(q, Words(r, "slug"))
            <4>1. by(both(p, q), codes) <=> \A s \in both(p, q) : SearchTermsSQL(s, r) = "true"
                BY <1>1, <3>2, ReutersFound
            <4>2. both(p, q) # {}
                BY DEF ComboTerm
            <4>3. QED
                BY <4>1, <4>2, TwoTexts
        <3>3. QED
            BY <3>1, <3>2 DEF Body, Slug
    <2>3. /\ Has(Lacking({"OPTA"}), Words(r, "body")) <=> ~opta
          /\ Has(AllOf({"OPTA"}), Words(r, "body")) <=> opta
        BY HasForms
    <2> HIDE DEF found, by, both, opta
    <2>4. \A codes : r.categoryCodes \intersect codes # {} =>
              /\ by(Body(Lacking({"OPTA"})), codes) <=> ~opta
              /\ by(Body(AllOf({"OPTA"})), codes) <=> opta
        BY <2>2, <2>3
    <2>5. /\ found(SoccerPreset) <=> by(Body(Lacking({"OPTA"})), SoccerCodes)
          /\ found(SoccerScores) <=> by(Body(AllOf({"OPTA"})), SoccerCodes)
          /\ found(Cricket) <=> by(Body(Lacking({"OPTA"})), CricketCodes)
          /\ found(CricketScores) <=> by(Body(AllOf({"OPTA"})), CricketCodes)
          /\ found(Tennis) <=> by(Body(Lacking({"OPTA"})), TennisCodes)
          /\ found(TennisScores) <=> by(Body(AllOf({"OPTA"})), TennisCodes)
          /\ found(Golf) <=> by(Body(Lacking({"OPTA"})), GolfCodes)
          /\ found(GolfScores) <=> by(Body(AllOf({"OPTA"})), GolfCodes)
          /\ found(Basketball) <=> by(Slug(Lacking({"/RESULTS", "/STANDINGS"})), BasketballCodes)
          /\ found(BasketballScores) <=> by(Slug(AnyOf({"/RESULTS", "/STANDINGS"})), BasketballCodes)
          /\ found(RugbyLeague) <=>
                \/ by(Body(Lacking({"OPTA"})), RugbyLeagueCodes)
                \/ by(both(AllOf({"OPTA"}), AllOf({"/SUMMARIES"})), RugbyLeagueCodes)
          /\ found(RugbyScores) <=>
                by(both(AllOf({"OPTA"}), Lacking({"/SUMMARIES"})), RugbyLeagueCodes)
        BY <1>1, ReutersFilters, Zenon DEF found, by, both
    <2>6. DOMAIN ScoresOf = {"soccer", "cricket", "tennis", "golf", "basketball", "rugby-league"}
          /\ DOMAIN CodesOf = DOMAIN ScoresOf
        BY DEF ScoresOf, CodesOf
    <2>7. CASE sport \in {"soccer", "cricket", "tennis", "golf"}
        <3>1. CASE sport = "soccer"
            <4>1. ScoresOf[sport] = "soccer-scores" /\ CodesOf[sport] = SoccerCodes
                BY <2>6, <3>1 DEF ScoresOf, CodesOf
            <4>2. QED
                BY <1>1, <2>1, <2>4, <2>5, <3>1, <4>1, SportsShown DEF NamedSports
        <3>2. CASE sport = "cricket"
            <4>1. ScoresOf[sport] = "cricket-scores" /\ CodesOf[sport] = CricketCodes
                BY <2>6, <3>2 DEF ScoresOf, CodesOf
            <4>2. QED
                BY <1>1, <2>1, <2>4, <2>5, <3>2, <4>1, SportsShown DEF NamedSports
        <3>3. CASE sport = "tennis"
            <4>1. ScoresOf[sport] = "tennis-scores" /\ CodesOf[sport] = TennisCodes
                BY <2>6, <3>3 DEF ScoresOf, CodesOf
            <4>2. QED
                BY <1>1, <2>1, <2>4, <2>5, <3>3, <4>1, SportsShown DEF NamedSports
        <3>4. CASE sport = "golf"
            <4>1. ScoresOf[sport] = "golf-scores" /\ CodesOf[sport] = GolfCodes
                BY <2>6, <3>4 DEF ScoresOf, CodesOf
            <4>2. QED
                BY <1>1, <2>1, <2>4, <2>5, <3>4, <4>1, SportsShown DEF NamedSports
        <3>5. QED
            BY <2>7, <3>1, <3>2, <3>3, <3>4
    <2>8. CASE sport = "basketball"
        <3>1. ScoresOf[sport] = "basketball-scores" /\ CodesOf[sport] = BasketballCodes
            BY <2>6, <2>8 DEF ScoresOf, CodesOf
        <3>2. Has(Lacking({"/RESULTS", "/STANDINGS"}), Words(r, "slug"))
                <=> ~Has(AnyOf({"/RESULTS", "/STANDINGS"}), Words(r, "slug"))
            <4> DEFINE W == Words(r, "slug")
            <4> HIDE DEF W
            <4>1. Has(Lacking({"/RESULTS", "/STANDINGS"}), W) <=> ~("/RESULTS" \in W \/ "/STANDINGS" \in W)
                BY HasForms, Zenon
            <4>2. Has(AnyOf({"/RESULTS", "/STANDINGS"}), W) <=> "/RESULTS" \in W \/ "/STANDINGS" \in W
                BY HasForms, Zenon
            <4>3. QED
                BY <4>1, <4>2 DEF W
        <3>3. QED
            BY <1>1, <2>1, <2>2, <2>5, <2>8, <3>1, <3>2, SportsShown DEF NamedSports
    <2>9. CASE sport = "rugby-league"
        <3>1. ScoresOf[sport] = "rugby-scores" /\ CodesOf[sport] = RugbyLeagueCodes
            BY <2>6, <2>9 DEF ScoresOf, CodesOf
        <3>2. Has(Lacking({"/SUMMARIES"}), Words(r, "slug"))
                <=> ~Has(AllOf({"/SUMMARIES"}), Words(r, "slug"))
            <4> DEFINE W == Words(r, "slug")
            <4> HIDE DEF W
            <4>1. Has(Lacking({"/SUMMARIES"}), W) <=> ~("/SUMMARIES" \in W)
                BY HasForms, Zenon
            <4>2. Has(AllOf({"/SUMMARIES"}), W) <=> "/SUMMARIES" \in W
                BY HasForms, Zenon
            <4>3. QED
                BY <4>1, <4>2 DEF W
        <3>3. QED
            BY <1>1, <2>1, <2>2, <2>3, <2>5, <2>9, <3>1, <3>2, SportsShown DEF NamedSports
    <2>10. QED
        BY <2>6, <2>7, <2>8, <2>9
<1>2. IInv => ScoresDivide
    <2> SUFFICES ASSUME IInv, NEW r \in row, NEW sport \in DOMAIN ScoresOf,
                        r.supplier = "REUTERS", ContainsCode(r.categoryCodes, CodesOf[sport])
                 PROVE  Shown(sport) <=> ~Shown(ScoresOf[sport])
        BY DEF ScoresDivide
    <2>1. row = {r}
        BY DEF IInv, TypeOK, Unique
    <2>2. QED
        BY <1>1, <2>1 DEF Shown, ContainsCode
<1>3. QED
    BY Initially, Inductive, <1>2, PTL DEF Spec
=============================================================================
