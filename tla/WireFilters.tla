----------------------------- MODULE WireFilters -----------------------------
(***************************************************************************)
(* Which searches a wire is found by: the WHERE clause that the server     *)
(* builds from a request's filters and its preset, evaluated on the wire's *)
(* row as PostgreSQL does, with null where a column has no value yet. The  *)
(* clause looks at one row at a time, so the table has one: a wire is      *)
(* stored by this release of the ingestion lambda or by one that did not   *)
(* know the newer columns, which a migration and the recomputation lambda  *)
(* fill in later.                                                          *)
(*                                                                         *)
(* The cursor and the dates of a search are SearchClient's.                *)
(***************************************************************************)
EXTENDS WirePresets

CONSTANTS
    Messages,   \* the wires the agencies may send
    Requests    \* the searches, beside the presets alone, that are made

ASSUME WireFiltersAssumption == \A m \in Messages : m.feed \in Feeds

(***************************************************************************)
(* SQL's three-valued logic.                                               *)
(***************************************************************************)
Truths == {"true", "false", "null"}
Truth(b) == IF b THEN "true" ELSE "false"
Not(t) == CASE t = "true" -> "false" [] t = "false" -> "true" [] OTHER -> "null"
And(T) == IF "false" \in T THEN "false" ELSE IF "null" \in T THEN "null" ELSE "true"
Or(T) == IF "true" \in T THEN "true" ELSE IF "null" \in T THEN "null" ELSE "false"

(***************************************************************************)
(* Search terms.                                                           *)
(***************************************************************************)
Words(r, field) ==
    CASE field = "headline" -> r.headline
      [] field = "body"     -> r.body
      [] field = "slug"     -> r.slug
      [] field = "combined" -> r.headline \union r.body \union r.slug \union r.keywords

SearchTermSQL(term, r) ==
    Truth(\E a \in term.query : a.all \subseteq Words(r, term.field)
                                /\ a.none \intersect Words(r, term.field) = {})
\* A mutant of SearchTermsSQL: the terms are joined with OR.
SearchTermsAny(search, r) == Or({SearchTermSQL(t, r) : t \in search.terms})
SearchTermsSQL(search, r) ==
    LET found == {SearchTermSQL(t, r) : t \in search.terms}
    IN IF search.combiner = "AND" THEN And(found) ELSE Or(found)

(***************************************************************************)
(* The clauses of each field of FilterParams.                              *)
(***************************************************************************)
\* A request's filters have these fields.
ASSUME RequestsAssumption ==
    \A q \in Requests : q.filters = [field \in DOMAIN NoFilter |-> q.filters[field]]

Upper(name) ==
    CASE name = "GuReuters" -> "GUREUTERS" [] name = "GuAP" -> "GUAP" [] OTHER -> name
SupplierSQL(S, r) == Truth(\E s \in S : r.supplier = Upper(s))
KeywordsSQL(S, r) == Truth(r.keywords \intersect S # {})
CategoryCodeInclSQL(condition, r) ==
    IF condition.combiner = "SOME"
    THEN Truth(ContainsCode(r.categoryCodes, condition.codes))
    ELSE Truth(condition.codes \subseteq r.categoryCodes)
CategoryCodeSomeSQL(S, r) == Truth(ContainsCode(r.categoryCodes, S))
\* A mutant of PreComputedCategoriesSQL: a wire whose categories are not known
\* has none, as under the unused NOT EXISTS variant of the exclusions.
PreComputedSomeSQL(S, r) == Truth(\E categories \in r.preComputed : categories \intersect S # {})
PreComputedCategoriesSQL(S, r) ==
    IF r.preComputed = {} THEN "null" ELSE PreComputedSomeSQL(S, r)
GuSourceFeedSQL(S, r) ==
    IF r.guSourceFeed = {} THEN "null" ELSE Truth(r.guSourceFeed \subseteq S)
DataFormattingSQL(has, r) == Truth(r.dataformat <=> has)

\* A field that was not given adds no clause.
Clause(given, truth) == {t \in {truth} : given # {}}

Clauses(f, r) ==
    Clause(f.keywordIncl, KeywordsSQL(f.keywordIncl, r))
    \union {CategoryCodeInclSQL(c, r) : c \in f.categoryCodesIncl}
    \union Clause(f.keywordExcl, Not(KeywordsSQL(f.keywordExcl, r)))
    \union {SearchTermsSQL(s, r) : s \in f.searchTerms}
    \union Clause(f.suppliersIncl, SupplierSQL(f.suppliersIncl, r))
    \union Clause(f.suppliersExcl, Not(SupplierSQL(f.suppliersExcl, r)))
    \union Clause(f.categoryCodesExcl, Not(CategoryCodeSomeSQL(f.categoryCodesExcl, r)))
    \union {DataFormattingSQL(h, r) : h \in f.hasDataFormatting}
    \union Clause(f.preComputedCategories, PreComputedCategoriesSQL(f.preComputedCategories, r))
    \union Clause(f.preComputedCategoriesExcl,
                  Not(PreComputedCategoriesSQL(f.preComputedCategoriesExcl, r)))
    \union Clause(f.guSourceFeeds, GuSourceFeedSQL(f.guSourceFeeds, r))
    \union Clause(f.guSourceFeedsExcl, Not(GuSourceFeedSQL(f.guSourceFeedsExcl, r)))

\* andAll and orAll give no clause for no clauses: a FilterParams without any
\* filter disappears from the presets' disjunction.
AndAll(T) == Clause(T, And(T))
OrAll(T) == Clause(T, Or(T))
FiltersBuilder(f, r) == AndAll(Clauses(f, r))
PresetsBuilder(presets, r) == OrAll(UNION {FiltersBuilder(f, r) : f \in presets})

(***************************************************************************)
(* A request: the values of its preset parameter, the first of them if it  *)
(* names a preset (or "none"), its filters, and whether the feature switch *)
(* ShowGuSuppliers is on. The table's suppliers are in upper case, and the *)
(* clause compares in upper case.                                          *)
(***************************************************************************)
\* A mutant of ComputeSupplierExcl: the e-mailed copy is not taken out.
ExcludeAsked(q) ==
    {s \in {"GuReuters", "GuAP"} : ~q.showGu /\ s \notin q.filters.suppliersIncl}
    \union q.filters.suppliersExcl

ComputeSupplierExcl(q) ==
    {s \in {"UNAUTHED_EMAIL_FEED"} : "dot-copy" \notin q.presets}
    \union {s \in {"GuReuters", "GuAP"} : ~q.showGu /\ s \notin q.filters.suppliersIncl}
    \union q.filters.suppliersExcl

Build(q) == [q.filters EXCEPT !.suppliersExcl = ComputeSupplierExcl(q)]

Where(q, r) ==
    And(FiltersBuilder(Build(q), r)
        \union PresetsBuilder(Presets(q.preset).searchParams, r)
        \union {Not(c) : c \in PresetsBuilder(Presets(q.preset).negated, r)})

Finds(q, r) == Where(q, r) = "true"
ByPreset(name) ==
    [presets |-> {name}, preset |-> name, filters |-> NoFilter, showGu |-> FALSE]

(***************************************************************************)
(* The row of one wire.                                                    *)
(***************************************************************************)
VARIABLES
    sent,   \* history: the wire as it was sent, once it has been
    row     \* its row, once it is stored

vars == <<sent, row>>

\* Every search there is: the presets alone, and those of Requests.
Searches == Requests \union {ByPreset(name) : name \in PresetNames}

Row(m, known) ==
    LET codes == ProcessCategoryCodes(m)
    IN [supplier     |-> LookupSupplier(m.feed),
        categoryCodes |-> codes,
        guSourceFeed |-> {f \in {RemapSourceFeeds(m)} : known},
        preComputed  |-> {c \in {ComputePresetCategories(codes)} : known},
        keywords     |-> m.keywords,
        slug |-> m.slug, headline |-> m.headline, body |-> m.body,
        dataformat   |-> m.dataformat]

EmailRow(words) ==
    [supplier |-> "UNAUTHED_EMAIL_FEED", categoryCodes |-> {}, guSourceFeed |-> {"email"},
     preComputed |-> {{}}, keywords |-> {}, slug |-> {}, headline |-> words, body |-> words,
     dataformat |-> FALSE]

Init == sent = {} /\ row = {}

\* processFingerpostJsonContent and putItemToDb; a heartbeat is not stored.
Ingest ==
    /\ sent = {} /\ row = {}
    /\ \E m \in Messages :
        /\ sent' = {m}
        /\ row' = {r \in {Row(m, TRUE)} : r.supplier # "HEARTBEAT"}

\* By a release that did not know gu_source_feed and precomputed_categories.
IngestBefore ==
    /\ sent = {} /\ row = {}
    /\ \E m \in Messages :
        /\ sent' = {m}
        /\ row' = {r \in {Row(m, FALSE)} : r.supplier # "HEARTBEAT"}

IngestEmail ==
    /\ sent = {} /\ row = {}
    /\ \E words \in SUBSET {"SOC", "General news"} : row' = {EmailRow(words)}
    /\ UNCHANGED sent

\* V27: the source feed of the rows that have none is the one that was sent.
BackfillSourceFeed ==
    /\ \E r \in row, m \in sent :
        /\ r.guSourceFeed = {} /\ m.feed # "none"
        /\ row' = {[r EXCEPT !.guSourceFeed = {m.feed}]}
    /\ UNCHANGED sent

\* updateRecords of the recomputation lambda.
Recompute ==
    /\ \E r \in row :
        row' = {[r EXCEPT !.preComputed = {ComputePresetCategories(r.categoryCodes)}]}
    /\ UNCHANGED sent

Next == Ingest \/ IngestBefore \/ IngestEmail \/ BackfillSourceFeed \/ Recompute

Spec == Init /\ [][Next]_vars

\* The sports whose stories and whose scores have tabs of their own.
ScoresOf ==
    [sport \in {"soccer", "cricket", "tennis", "golf", "basketball", "rugby-league"} |->
        CASE sport = "soccer"       -> "soccer-scores"
          [] sport = "cricket"      -> "cricket-scores"
          [] sport = "tennis"       -> "tennis-scores"
          [] sport = "golf"         -> "golf-scores"
          [] sport = "basketball"   -> "basketball-scores"
          [] sport = "rugby-league" -> "rugby-scores"]
CodesOf ==
    [sport \in DOMAIN ScoresOf |->
        CASE sport = "soccer"       -> SoccerCodes
          [] sport = "cricket"      -> CricketCodes
          [] sport = "tennis"       -> TennisCodes
          [] sport = "golf"         -> GolfCodes
          [] sport = "basketball"   -> BasketballCodes
          [] sport = "rugby-league" -> RugbyLeagueCodes]

\* An optional value.
Unique(S) == \A x, y \in S : x = y

Shown(name) == \E r \in row : Finds(ByPreset(name), r)

(***************************************************************************)
(* Properties.                                                             *)
(***************************************************************************)
\* The row's supplier is one that the lookup knows and no heartbeat's, and the
\* categories computed for it, once there are any, are those of its codes.
TypeOK ==
    /\ sent \subseteq Messages /\ Unique(sent) /\ Unique(row)
    /\ \A r \in row :
        /\ r.supplier \in {LookupSupplier(f) : f \in Feeds} \union {"UNAUTHED_EMAIL_FEED"}
        /\ r.supplier # "HEARTBEAT"
        /\ r.preComputed \subseteq {ComputePresetCategories(r.categoryCodes)}
        /\ Unique(r.guSourceFeed)

\* "Sport other" shows what no named sport shows, but for the scores of
\* basketball, which the code forgets: the negation of the presets'
\* disjunction, with null for the columns that are not filled in yet, never
\* lets through a wire that one of them finds (buildWhereClause, SportOther).
SportOtherIsApart ==
    Shown("sport-other") => \A sport \in SeparateSports : ~Shown(sport)

\* Nothing of sport is lost between the tabs: a wire under "Sport" is under a
\* named sport or under "Sport other" (a null in the negation would drop it
\* from both; so would a preset in SportOther that has no tab).
SportIsCovered ==
    Shown("all-sport") => \E tab \in NamedSports \union {"sport-other"} : Shown(tab)

\* The agencies whose presets divide their wires among the sections leave none
\* out: every wire of theirs, once its categories are computed, is in a top
\* level tab (PA's sport is what is in no other section; the others' world is
\* what is not sport, a press release or British).
EveryWireHasATab ==
    \A r \in row :
        (/\ r.preComputed # {}
         /\ \/ r.supplier \in {"PA", "MINOR_AGENCIES"}
            \/ r.supplier = "AFP" /\ "PressRelease" \notin r.headline
            \/ r.supplier = "AAP" /\ "Sports" \notin r.keywords)
        => \E tab \in TopLevelTabs : Shown(tab)

\* E-mailed copy is under the preset "dot-copy" and in no answer to a request
\* that does not name it, whatever else is asked for, and nothing else is under
\* that preset (computeSupplierExcl, DotCopy).
DotCopyIsApart ==
    \A r \in row :
        /\ Finds(ByPreset("dot-copy"), r) <=> r.supplier = "UNAUTHED_EMAIL_FEED"
        /\ \A q \in Searches :
            r.supplier = "UNAUTHED_EMAIL_FEED" /\ Finds(q, r) => "dot-copy" \in q.presets

\* The codes by which the presets of the sports find the wires of Reuters, but
\* for those that the tables of sport of the ingestion lambda do not have.
CodesOfSports ==
    (UNION {CodesOf[sport] : sport \in DOMAIN CodesOf}) \union RugbyUnionCodes \union CyclingCodes
    \union MotorSportCodes \union BoxingCodes \union HorseRacingCodes \union AthleticsCodes
    \union (OlympicsCodes \ {<<"N2", "OLY">>})

\* The agency calls a wire sport, in the codes it uses.
SentAsSport(m) ==
    CASE m.feed = "AP APAPI" -> <<"iptccat", "s">> \in m.subjects
      [] m.feed = "AFP"      -> <<"iptccat", "SPO">> \in m.subjects
      [] m.feed = "AAP"      ->
            \E c \in ForAAP(CodesOfSports) : c \in m.subjects \/ <<"", c[2]>> \in m.subjects
      [] m.feed = "REUTERS"  -> m.subjects \intersect CodesOfSports # {}
      [] m.feed \in {"PA", "PA_API"} ->
            /\ <<"iptccat", "SSO">> \in m.subjects
            /\ \A c \in m.subjects \union {<<"iptccat", m.media>>} :
                {c, <<"paCat", c[2]>>}
                    \intersect (UKPA \union ElectionsPA \union WorldPA \union BusinessPA) = {}
      [] OTHER -> FALSE

\* What an agency sends as sport is under "Sport" once its categories are
\* computed: the codes it uses, mislabelled or legacy, are rewritten to those
\* that the tables of the presets name (categoryCodes.ts, precomputeCategories.ts
\* and SearchPresets.scala agree).
SportReachesItsTab ==
    \A m \in sent, r \in row :
        SentAsSport(m) /\ r.preComputed # {} => Shown("all-sport")

\* The scores of a sport and its stories divide Reuters' wires of that sport:
\* each is under one of the two tabs and under one only, whichever of the words
\* and of the terms it has (SearchTermsSQL, the combined terms of the presets).
ScoresDivide ==
    \A r \in row, sport \in DOMAIN ScoresOf :
        r.supplier = "REUTERS" /\ ContainsCode(r.categoryCodes, CodesOf[sport])
            => (Shown(sport) <=> ~Shown(ScoresOf[sport]))

\* Filling in a column late only reveals wires: what a search found while the
\* column was null it still finds, under an exclusion and under the negated
\* presets too.
BackfillsOnlyReveal ==
    [][\A q \in Searches, r \in row \ row' :
        Finds(q, r) => \E s \in row' : Finds(q, s)]_vars
=============================================================================
