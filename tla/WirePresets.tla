----------------------------- MODULE WirePresets -----------------------------
(***************************************************************************)
(* The presets of the server (SearchPresets.scala, Categories.scala): what *)
(* filters each stands for, and the tabs of the client that name them.     *)
(*                                                                         *)
(* A search of words is a set of alternatives, words that must be in the   *)
(* field and words that must not; a phrase is a word. An optional value is *)
(* a set of at most one element.                                           *)
(***************************************************************************)
EXTENDS WireContent

AllOf(words) == {[all |-> words, none |-> {}]}
Lacking(words) == {[all |-> {}, none |-> words]}
AnyOf(words) == {[all |-> {w}, none |-> {}] : w \in words}
HasLacking(words, others) == {[all |-> words, none |-> others]}

SingleField(query, field) == [field |-> field, query |-> query]
SingleTerm(term) == {[terms |-> {term}, combiner |-> "AND"]}
ComboTerm(terms, combiner) == {[terms |-> terms, combiner |-> combiner]}

NoFilter ==
    [searchTerms |-> {}, keywordIncl |-> {}, keywordExcl |-> {},
     suppliersIncl |-> {}, suppliersExcl |-> {},
     categoryCodesIncl |-> {}, categoryCodesExcl |-> {}, hasDataFormatting |-> {},
     preComputedCategories |-> {}, preComputedCategoriesExcl |-> {},
     guSourceFeeds |-> {}, guSourceFeedsExcl |-> {}]

Some(codes) == {[codes |-> codes, combiner |-> "SOME"]}
All(codes) == {[codes |-> codes, combiner |-> "ALL"]}

SearchPreset(supplier) == [NoFilter EXCEPT !.suppliersIncl = {supplier}]

(***************************************************************************)
(* The codes of the sections.                                              *)
(***************************************************************************)
PaCat(codes) == Coded("paCat", codes)
Topics(codes) == Coded("N2", codes)
News(codes) == Coded("subj", codes)

UKPA == PaCat({"HHH", "SCN", "IFN", "QFF", "PPP", "XDA", "XTA", "OOO", "NIR"})
UKMinorAgencies == Topics({"GB"})
ElectionsPA == PaCat({"XTJ", "XLR", "XLD", "XTB", "XDB", "XDG", "XTH", "XDQ", "XTQ"})
WorldPA == PaCat({"OOO"})
BusinessPA == PaCat({"FFF", "GXX"}) \union Coded("data", {"finance"})
SportPA == PaCat({"SRS", "SSS", "RSR", "SSO", "SCR", "SRR", "SST"})
SportAP == Coded("apCat", {"s"})
SportAFP == Coded("afpCat", {"SPO"})
SoccerPA == PaCat({"SSO", "SFF", "RSP"}) \union News({"15054000"})

\* Of the lists of results, a few codes stand for all.
SoccerScoresPA == PaCat({"RSA", "RFC", "SSD"})
SoccerTablesPA == PaCat({"SDA", "RSD"})
CricketScoresPA == PaCat({"RCD", "SRX"})
RugbyScoresPA == PaCat({"RRG", "SFU", "SSD"})

SoccerCodes == Topics({"SOCC"}) \union News({"15054000"})
CricketCodes == Topics({"CRIC"}) \union News({"15017000"})
RugbyLeagueCodes == Topics({"RUGL"}) \union News({"15048000"})
RugbyUnionCodes == Topics({"RUGU"}) \union News({"15049000"})
TennisCodes == Topics({"TENN"}) \union News({"15065000"})
CyclingCodes == Topics({"CYCL"}) \union News({"15019000"})
MotorSportCodes == Topics({"FO1", "MORA", "MOCY"}) \union News({"15039000", "15041000", "15057000"})
GolfCodes == Topics({"GOLF"}) \union News({"15027000"})
BoxingCodes == Topics({"BOXI"}) \union News({"15014000"})
HorseRacingCodes == Topics({"HORS"}) \union News({"15030000"})
AthleticsCodes == Topics({"ATHL"}) \union News({"15005000"})
OlympicsCodes == Topics({"OLY"}) \union News({"15073001", "15073002"})
BasketballCodes == Topics({"BASK"}) \union News({"15008000", "15008001"})

\* Of the codes of a sport, those that AAP uses.
ForAAP(codes) == {c \in codes : c[1] = "subj"}

(***************************************************************************)
(* The sections.                                                           *)
(***************************************************************************)
ApWorld ==
    {[SearchPreset("AP") EXCEPT !.keywordIncl = {"General news"},
                                !.categoryCodesIncl = Some(Coded("apCat", {"i", "a", "w"}))]}
ReutersWorld ==
    {[SearchPreset("REUTERS") EXCEPT !.categoryCodesIncl = Some({<<"REUTERS", "WORLD">>})],
     [SearchPreset("REUTERS") EXCEPT
        !.preComputedCategories = {"other-topic-codes"},
        !.preComputedCategoriesExcl = {"sports-related-topic-codes", "business-related-topic-codes"}],
     [SearchPreset("REUTERS") EXCEPT
        !.categoryCodesIncl =
            Some(Coded("MCC", {"OVR", "QFE", "DED"}) \union Coded("MCCL", {"OVR", "OSM"}) \union Topics({"US"})),
        !.categoryCodesExcl =
            Coded("MCC", {"SPO", "OEC"}) \union Coded("MCCL", {"OEC"}) \union Topics({"GB", "COM", "ECI"})],
     [SearchPreset("REUTERS") EXCEPT
        !.searchTerms = SingleTerm(SingleField(AllOf({"News", "Summary"}), "headline")),
        !.categoryCodesIncl = Some({<<"MCC", "OEC">>}),
        !.categoryCodesExcl = Topics({"GB", "COM", "ECI"})]}
ReutersSchedule ==
    {[SearchPreset("REUTERS") EXCEPT
        !.searchTerms = SingleTerm(SingleField(AllOf({"REUTERS NEWS SCHEDULE"}), "headline")),
        !.categoryCodesIncl = Some({<<"MCC", "DED">>})]}
AapWorld ==
    {[SearchPreset("AAP") EXCEPT !.keywordExcl = {"Sports"},
                                 !.preComputedCategoriesExcl = {"sports-related-news-codes"}]}
AfpWorld ==
    {[SearchPreset("AFP") EXCEPT !.categoryCodesExcl = SportAFP \union {<<"guCat", "PressRelease">>}]}
MinorAgenciesWorld ==
    {[SearchPreset("MINOR_AGENCIES") EXCEPT !.categoryCodesExcl = UKMinorAgencies]}
PaWorld == {[SearchPreset("PA") EXCEPT !.categoryCodesIncl = Some(WorldPA)]}
AllWorld ==
    ApWorld \union ReutersWorld \union ReutersSchedule \union AapWorld \union AfpWorld
    \union MinorAgenciesWorld \union PaWorld

AllUk ==
    {[SearchPreset("PA") EXCEPT !.categoryCodesIncl = Some(UKPA \union ElectionsPA)],
     [SearchPreset("MINOR_AGENCIES") EXCEPT !.categoryCodesIncl = Some(UKMinorAgencies)]}
PaElection == {[SearchPreset("PA") EXCEPT !.categoryCodesIncl = Some(ElectionsPA)]}

AllUs ==
    {[SearchPreset("AP") EXCEPT
        !.categoryCodesIncl = Some(Coded("apCat", {"a", "k", "n", "p", "v", "w", "l", "o", "e"}))],
     [SearchPreset("AP") EXCEPT
        !.categoryCodesIncl = All({<<"apCat", "i">>, <<"experimentalCountryCode", "CA">>})],
     [SearchPreset("REUTERS") EXCEPT
        !.categoryCodesIncl = Some(Topics({"CA", "US"})),
        !.preComputedCategoriesExcl =
            {"sports-related-topic-codes", "sports-related-news-codes",
             "business-related-topic-codes", "business-related-news-codes"}],
     [SearchPreset("REUTERS") EXCEPT
        !.categoryCodesIncl = All({<<"N2", "NAMER">>, <<"a1312cat", "a">>})],
     [SearchPreset("REUTERS") EXCEPT
        !.categoryCodesIncl = All({<<"N2", "NAMER">>, <<"a1312cat", "p">>})]}

AllBusiness ==
    {[SearchPreset("PA") EXCEPT !.categoryCodesIncl = Some(BusinessPA)],
     [SearchPreset("REUTERS") EXCEPT !.preComputedCategories = {"business-related-topic-codes"},
                                     !.categoryCodesExcl = {<<"MCC", "SPO">>}],
     [SearchPreset("AP") EXCEPT !.categoryCodesIncl = Some({<<"apCat", "f">>}),
                                !.categoryCodesExcl = SportAP \union {<<"apCat", "e">>}],
     [SearchPreset("AAP") EXCEPT !.preComputedCategories = {"business-related-news-codes"}]}

\* A mutant of AllSport: PA's sport is found by its computed category too.
AllSportComputed ==
    {[SearchPreset(s) EXCEPT !.preComputedCategories = {"all-sports"}] :
        s \in {"PA", "REUTERS", "AP", "AAP", "AFP"}}

AllSport ==
    {[SearchPreset("PA") EXCEPT
        !.categoryCodesExcl = UKPA \union BusinessPA \union WorldPA \union ElectionsPA]}
    \union {[SearchPreset(s) EXCEPT !.preComputedCategories = {"all-sports"}] :
                s \in {"REUTERS", "AP", "AAP", "AFP"}}

(***************************************************************************)
(* The sports. A filter of a sport's is for one supplier, some words, some *)
(* codes and some keywords.                                                *)
(***************************************************************************)
Slug(query) == SingleTerm(SingleField(query, "slug"))
Headline(query) == SingleTerm(SingleField(query, "headline"))
Body(query) == SingleTerm(SingleField(query, "body"))

SportFilter(supplier, terms, codes, keywords) ==
    [SearchPreset(supplier) EXCEPT
        !.searchTerms = terms, !.categoryCodesIncl = codes, !.keywordIncl = keywords]
OfCodes(supplier, codes) == SportFilter(supplier, {}, Some(codes), {})
ReutersSport(query, codes) == SportFilter("REUTERS", Body(query), Some(codes), {})
PaSport(query, codes) == SportFilter("PA", Slug(query), Some(codes), {})
AfpSport(query) == SportFilter("AFP", Slug(query), Some(SportAFP), {})
ApSport(query, keywords) == SportFilter("AP", Slug(query), Some(SportAP), keywords)

\* A sport's filter that leaves some codes out, and one by the data format.
Without(filter, codes) == [filter EXCEPT !.categoryCodesExcl = codes]
Formatted(filter, has) == [filter EXCEPT !.hasDataFormatting = {has}]

\* AFP's and Reuters' sports by two searches.
AfpSportBoth(slug, headline) ==
    SportFilter("AFP", ComboTerm({SingleField(slug, "slug"), SingleField(headline, "headline")}, "AND"),
                Some(SportAFP), {})
ReutersSportBoth(body, slug, codes) ==
    SportFilter("REUTERS", ComboTerm({SingleField(body, "body"), SingleField(slug, "slug")}, "AND"),
                Some(codes), {})

AllSportStories ==
    {ReutersSportBoth(Lacking({"OPTA", "Gracenote"}), Lacking({"/FIXTURES", "/RESULTS", "/STANDINGS"}),
                      SportsRelatedTopicCodes),
     [SportFilter("PA",
        ComboTerm({SingleField(Lacking({"TABULATED RESULTS", "Summaries", "MATCH STATS"}), "slug"),
                   SingleField(Lacking({"fixtures"}), "headline")}, "AND"), {}, {}) EXCEPT
        !.categoryCodesExcl =
            UKPA \union BusinessPA \union CricketScoresPA \union SoccerScoresPA \union SoccerTablesPA
            \union RugbyScoresPA \union PaCat({"RSR", "SRD", "RRR", "SFF"}),
        !.hasDataFormatting = {FALSE}],
     SportFilter("AFP", Headline(Lacking({"result", "results", "scorers", "table"})), Some(SportAFP), {}),
     OfCodes("AAP", SportsRelatedNewsCodes),
     ApSport(Lacking({"BC-", "Results", "Glance"}) \union AllOf({"AP", "Sports", "Glance"}), {})}

SoccerPreset ==
    {ReutersSport(Lacking({"OPTA"}), SoccerCodes),
     Formatted(PaSport(Lacking({"RUGBYU", "RUGBY"}), SoccerPA), FALSE),
     AfpSportBoth(AllOf({"fbl"}), Lacking({"result", "results", "scorers", "table"})),
     OfCodes("AAP", ForAAP(SoccerCodes)),
     ApSport(HasLacking({"AP", "SOC"}, {"Glance"}), {"Soccer"})}
SoccerScores ==
    {ReutersSport(AllOf({"OPTA"}), SoccerCodes),
     PaSport(Lacking({"RUGBY", "RUGBYU", "RUGBYL"}), SoccerScoresPA),
     SportFilter("PA", Slug(AllOf({"SOCCER TABULATED RESULTS"})), {}, {}),
     AfpSportBoth(AllOf({"fbl"}), AnyOf({"result", "results", "scorers"})),
     ApSport(AnyOf({"BC-SOC"}) \union AllOf({"SOC", "Glance"}), {})}
SoccerTables ==
    {AfpSportBoth(AllOf({"fbl"}), AllOf({"table"})), OfCodes("PA", SoccerTablesPA)}

NoSoccer ==
    {[SearchPreset("REUTERS") EXCEPT !.preComputedCategories = {"no-soccer"},
                                     !.categoryCodesExcl = SoccerCodes],
     [SearchPreset("PA") EXCEPT
        !.searchTerms = Slug(Lacking({"SOCCER"})),
        !.preComputedCategories = {"no-soccer"}, !.categoryCodesExcl = SoccerPA],
     AfpSport(Lacking({"fbl"})),
     [SearchPreset("AAP") EXCEPT !.preComputedCategories = {"no-soccer"},
                                 !.categoryCodesExcl = ForAAP(SoccerCodes)],
     [SearchPreset("AP") EXCEPT
        !.searchTerms = Slug(Lacking({"BC", "SOC"})),
        !.preComputedCategories = {"no-soccer"}, !.keywordExcl = {"Soccer"}]}

AmericanFootball ==
    {OfCodes("REUTERS", Topics({"AMER", "NFL"}) \union News({"15003000", "15003001"})),
     SportFilter("PA", Slug(AllOf({"GRIDIRON"})), {}, {}),
     OfCodes("AAP", News({"15003000", "15003001"})),
     AfpSport(AllOf({"Amfoot"})),
     ApSport(HasLacking({"FBN"}, {"FBC"}), {}),
     ApSport(Lacking({"FBC"}), {"Football", "NFL football", "NFL Playoffs"})}
AustralianRules ==
    {OfCodes("REUTERS", Topics({"AUSR"}) \union News({"15084000"})),
     OfCodes("AAP", News({"15084000"}))}
Baseball ==
    {OfCodes("REUTERS", Topics({"BASE"}) \union News({"15007000"})),
     AfpSport(AllOf({"baseball"})),
     ApSport(HasLacking({"BBO"}, {"BBC"}), {}),
     ApSport(Lacking({"BBC"}), {"Baseball", "MLB baseball"})}
Basketball ==
    {SportFilter("REUTERS", Slug(Lacking({"/RESULTS", "/STANDINGS"})), Some(BasketballCodes), {}),
     Without(PaSport(AllOf({"BASKETBALL"}), SportPA), PaCat({"RSR"})),
     OfCodes("AAP", ForAAP(BasketballCodes)),
     AfpSport(AllOf({"Basket"})),
     ApSport(AnyOf({"AP-BKN", "AP-BKL"}), {})}
BasketballScores ==
    {SportFilter("REUTERS", Slug(AnyOf({"/RESULTS", "/STANDINGS"})), Some(BasketballCodes), {}),
     PaSport(AllOf({"BASKETBALL"}), PaCat({"RSR"})),
     ApSport(AnyOf({"BC-BKN", "BC-BKL"}), {})}
CollegeSports ==
    {OfCodes("REUTERS", Topics({"FBC", "BKC", "HKC"})),
     ApSport(AnyOf({"BKC", "BKW", "FBC", "HKC"}), {}),
     SportFilter("AP", {}, Some(SportAP), {"College sports"})}
Cricket ==
    {ReutersSport(Lacking({"OPTA"}), CricketCodes),
     SportFilter("PA",
        ComboTerm({SingleField(Lacking({"fixtures", "fixture"}), "headline"),
                   SingleField(Lacking({"Summaries"}), "slug")}, "AND"),
        Some(PaCat({"SCR"}) \union News({"15017000"})), {}),
     AfpSport(AllOf({"cricket"})),
     OfCodes("AAP", ForAAP(CricketCodes)),
     ApSport(HasLacking({"AP-CRI"}, {"Glance", "Figures", "Runs"}), {})}
CricketScores ==
    {ReutersSport(AllOf({"OPTA"}), CricketCodes),
     OfCodes("PA", CricketScoresPA),
     SportFilter("PA", Headline(AnyOf({"fixtures", "fixture"})), Some(PaCat({"SCR"})), {}),
     PaSport(AllOf({"Summaries"}), PaCat({"SCR"})),
     ApSport(AllOf({"AP-CRI", "Glance"}) \union AnyOf({"Figures", "Runs"}), {})}
RugbyLeague ==
    {ReutersSport(Lacking({"OPTA"}), RugbyLeagueCodes),
     ReutersSportBoth(AllOf({"OPTA"}), AllOf({"/SUMMARIES"}), RugbyLeagueCodes),
     PaSport(HasLacking({"RUGBYL"}, {"Scorer"}), SportPA),
     AfpSportBoth(AllOf({"RugbyL"}), Lacking({"result", "results"})),
     PaSport(HasLacking({"RUGBYL", "Summaries"}, {"SOCCER"}), RugbyScoresPA),
     OfCodes("AAP", ForAAP(RugbyLeagueCodes)),
     ApSport(AllOf({"RGL"}), {"Rugby"})}
RugbyUnion ==
    {ReutersSport(Lacking({"OPTA"}), RugbyUnionCodes),
     PaSport(AllOf({"RUGBY UNION"}) \union HasLacking({"RUGBYU", "Summaries"}, {"SOCCER"}), RugbyScoresPA),
     PaSport(AllOf({"RUGBY UNION"}) \union HasLacking({"RUGBYU"}, {"Scorer"}),
             SportPA \union PaCat({"SFF"})),
     AfpSportBoth(AllOf({"RugbyU"}), Lacking({"result", "results"})),
     OfCodes("AAP", ForAAP(RugbyUnionCodes)),
     ApSport(AllOf({"RGU"}), {"Rugby"})}
RugbyScores ==
    {PaSport(Lacking({"SOCCER", "Summaries"}), RugbyScoresPA),
     PaSport(AllOf({"RUGBY"}), PaCat({"RFC"})),
     PaSport(AllOf({"RUGBYU", "Scorer"}) \union AllOf({"RUGBYL", "Scorer"}), SportPA),
     AfpSportBoth(AnyOf({"RugbyL", "RugbyU"}), AnyOf({"result", "results"})),
     ReutersSportBoth(AllOf({"OPTA"}), Lacking({"/SUMMARIES"}), RugbyLeagueCodes)}
Tennis ==
    {ReutersSport(Lacking({"OPTA"}), TennisCodes),
     Without(PaSport(AllOf({"TENNIS"}), SportPA), PaCat({"RSR"})),
     AfpSportBoth(AllOf({"Tennis"}), Lacking({"result", "results"})),
     OfCodes("AAP", ForAAP(TennisCodes)),
     ApSport(AllOf({"AP", "TEN"}), {"Tennis"})}
TennisScores ==
    {ReutersSport(AllOf({"OPTA"}), TennisCodes),
     PaSport(HasLacking({"TENNIS"}, {"ATP Challenger"}), PaCat({"RSR"})),
     AfpSportBoth(AllOf({"Tennis"}), AnyOf({"result", "results"})),
     ApSport(AllOf({"BC-TEN"}), {})}
Cycling ==
    {OfCodes("REUTERS", CyclingCodes), PaSport(AllOf({"CYCLING"}), SportPA),
     AfpSport(AllOf({"cycling"})), OfCodes("AAP", ForAAP(CyclingCodes)),
     ApSport(AllOf({"CYC"}), {"Cycling"})}
MotorSport ==
    {OfCodes("REUTERS", MotorSportCodes), PaSport(AnyOf({"auto", "MOTO"}), SportPA),
     AfpSport(AnyOf({"auto", "moto"})), OfCodes("AAP", ForAAP(MotorSportCodes)),
     ApSport(AllOf({"CAR"}), {}),
     SportFilter("AP", {}, Some(SportAP), {"Automobile racing", "Formula One racing"})}
Golf ==
    {ReutersSport(Lacking({"OPTA"}), GolfCodes),
     Without(SportFilter("PA", Slug(AllOf({"GOLF"})), {}, {}), PaCat({"RSR"})),
     AfpSport(AllOf({"golf"})), OfCodes("AAP", ForAAP(GolfCodes)),
     ApSport(HasLacking({"GLF"}, {"Scores"}), {"Golf"})}
GolfScores ==
    {ReutersSport(AllOf({"OPTA"}), GolfCodes),
     PaSport(AllOf({"GOLF"}), PaCat({"RSR"})),
     ApSport(UNION {AllOf({"GLF", w}) : w \in {"Scores", "Leaders", "Winners", "Standings"}}, {})}
Boxing ==
    {OfCodes("REUTERS", BoxingCodes), PaSport(AllOf({"BOXING"}), PaCat({"SRS", "SSS"})),
     AfpSport(AllOf({"Box"})), OfCodes("AAP", ForAAP(BoxingCodes)),
     SportFilter("AP", Slug(AllOf({"BOX"})), {}, {"Boxing"})}
HorseRacing ==
    {OfCodes("REUTERS", HorseRacingCodes), OfCodes("PA", PaCat({"SRR"})),
     AfpSport(AllOf({"racing"})), OfCodes("AAP", ForAAP(HorseRacingCodes)),
     SportFilter("AP", {}, Some(SportAP), {"Horse racing"})}
IceHockey ==
    {OfCodes("REUTERS", Topics({"ICEH", "NHL"}) \union News({"15031000"})),
     PaSport(AllOf({"ICEHOCKEY"}), SportPA), AfpSport(AllOf({"IHockey"})),
     ApSport(AnyOf({"HKN", "HKW"}), {}),
     SportFilter("AP", {}, Some(SportAP), {"Hockey", "NHL hockey"})}
Athletics ==
    {OfCodes("REUTERS", AthleticsCodes), PaSport(AllOf({"ATHLETICS"}), SportPA),
     AfpSport(AllOf({"ATHLETICS"})), OfCodes("AAP", ForAAP(AthleticsCodes)),
     ApSport(AllOf({"ATH"}), {"Track and field"})}
Olympics ==
    {OfCodes("REUTERS", OlympicsCodes),
     SportFilter("PA",
        ComboTerm({SingleField(AnyOf({"Olympics", "IOC"}), field) : field \in {"slug", "headline"}}, "OR"),
        Some(SportPA), {}),
     AfpSport(AllOf({"Oly"})), OfCodes("AAP", ForAAP(OlympicsCodes)),
     SportFilter("AP", {}, Some(SportAP), {"Olympic games", "2026 Milan Cortina Olympic Games"}),
     ApSport(AllOf({"OLY-"}), {})}

AllDataFormats == {Formatted(SearchPreset("PA"), TRUE)}
DotCopy == {SearchPreset("UNAUTHED_EMAIL_FEED")}

\* The sports that "Sport other" leaves out, beside the data formats. The code
\* forgets BasketballScores: the scores of basketball stay under "Sport other".
Sports ==
    UNION {SoccerPreset, SoccerScores, SoccerTables, AmericanFootball, Athletics, AustralianRules,
           Baseball, Basketball, Boxing, CollegeSports, Cricket, CricketScores, Cycling, Golf,
           GolfScores, HorseRacing, IceHockey, MotorSport, Olympics, RugbyLeague, RugbyUnion,
           RugbyScores, Tennis, TennisScores}

\* Mutants of SportOther: the data formats are forgotten; and "No soccer" is a
\* sport.
SportOtherForgets == Sports
SportOtherNoSoccer == Sports \union AllDataFormats \union NoSoccer

SportOther == Sports \union AllDataFormats

\* What each preset shows; no filter for a name that is none.
ShowsOf(name) ==
    CASE name = "reuters-world"        -> ReutersWorld
      [] name = "reuters-schedule"     -> ReutersSchedule
      [] name = "ap-world"             -> ApWorld
      [] name = "aap-world"            -> AapWorld
      [] name = "all-world"            -> AllWorld
      [] name = "afp-world"            -> AfpWorld
      [] name = "minor-agencies-world" -> MinorAgenciesWorld
      [] name = "all-uk"               -> AllUk
      [] name = "uk-election"          -> PaElection
      [] name = "all-us"               -> AllUs
      [] name = "world-plus-uk"        -> AllWorld \union AllUk
      [] name = "all-business"         -> AllBusiness
      [] name = "all-sport"            -> AllSport
      [] name = "all-sport-stories"    -> AllSportStories
      [] name = "soccer"               -> SoccerPreset
      [] name = "soccer-scores"        -> SoccerScores
      [] name = "soccer-tables"        -> SoccerTables
      [] name = "no-soccer"            -> NoSoccer
      [] name = "american-football"    -> AmericanFootball
      [] name = "australian-rules"     -> AustralianRules
      [] name = "baseball"             -> Baseball
      [] name = "basketball"           -> Basketball
      [] name = "basketball-scores"    -> BasketballScores
      [] name = "college-sports"       -> CollegeSports
      [] name = "cricket"              -> Cricket
      [] name = "cricket-scores"       -> CricketScores
      [] name = "rugby-league"         -> RugbyLeague
      [] name = "rugby-union"          -> RugbyUnion
      [] name = "rugby-scores"         -> RugbyScores
      [] name = "tennis"               -> Tennis
      [] name = "tennis-scores"        -> TennisScores
      [] name = "cycling"              -> Cycling
      [] name = "motor-sport"          -> MotorSport
      [] name = "golf"                 -> Golf
      [] name = "golf-scores"          -> GolfScores
      [] name = "boxing"               -> Boxing
      [] name = "horse-racing"         -> HorseRacing
      [] name = "ice-hockey"           -> IceHockey
      [] name = "athletics"            -> Athletics
      [] name = "olympics"             -> Olympics
      [] name = "all-data-formats"     -> AllDataFormats
      [] name = "dot-copy"             -> DotCopy
      [] name = "sport-other"          -> AllSport
      [] OTHER -> {}

Presets(name) ==
    [searchParams |-> ShowsOf(name), negated |-> IF name = "sport-other" THEN SportOther ELSE {}]

\* The client's tabs: its presets, and the sports that have one of their own.
TopLevelTabs == {"all-world", "all-uk", "all-us", "world-plus-uk", "all-business", "all-sport"}
NamedSports ==
    {"soccer", "soccer-scores", "soccer-tables", "american-football", "australian-rules",
     "baseball", "basketball", "basketball-scores", "college-sports", "cricket",
     "cricket-scores", "rugby-league", "rugby-union", "rugby-scores", "tennis", "tennis-scores",
     "cycling", "motor-sport", "golf", "golf-scores", "boxing", "horse-racing", "ice-hockey",
     "athletics", "olympics", "all-data-formats"}
\* The named sports that "Sport other" is to leave out, all but the forgotten.
SeparateSports == NamedSports \ {"basketball-scores"}
OtherPresets == {"all-sport-stories", "no-soccer", "sport-other", "dot-copy"}
PresetNames == TopLevelTabs \union NamedSports \union OtherPresets
=============================================================================
