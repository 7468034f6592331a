---------------------------- MODULE MCWireFilters ----------------------------
(* An instance of WireFilters for TLC: of each agency, the wires with any   *)
(* choice among the codes and words that its presets tell apart.            *)
EXTENDS WireFilters

Plain ==
    [feed |-> "none", subjects |-> {}, services |-> {}, destinations |-> {}, media |-> "",
     keywords |-> {}, slug |-> {}, headline |-> {}, body |-> {}, places |-> {},
     british |-> FALSE, dataformat |-> FALSE]

FromAP ==
    {[Plain EXCEPT !.feed = "AP APAPI", !.subjects = Coded("iptccat", codes),
                   !.keywords = keywords, !.slug = slug] :
        codes \in SUBSET {"s", "i"}, keywords \in {{}, {"Soccer"}, {"NFL football"}, {"General news"}},
        slug \in {{}, {"AP", "SOC"}, {"AP", "SOC", "Glance"}, {"BC-SOC"}, {"FBN"}, {"FBN", "FBC"},
                  {"BC-BKN"}, {"AP-CRI", "Runs"}, {"AP-CRI", "Glance"}, {"GLF", "Scores"}}}
    \union
    {[Plain EXCEPT !.feed = "AP APAPI", !.subjects = Coded("iptccat", codes), !.places = places] :
        codes \in SUBSET {"s", "i", "f"}, places \in SUBSET {"CA"}}

FromPA ==
    {[Plain EXCEPT !.feed = "PA", !.subjects = Coded("iptccat", codes), !.media = media,
                   !.slug = slug] :
        codes \in (SUBSET {"SSO", "HHH", "RSA"}) \union {{"SRS"}, {"RSR"}, {"SRS", "RSR"}, {"SSD"}, {"SCR"}},
        media \in {"", "OOO"},
        slug \in {{}, {"GRIDIRON"}, {"RUGBY"}, {"BASKETBALL"}, {"RUGBYL", "Summaries"}}}
    \union
    {[Plain EXCEPT !.feed = feed, !.subjects = Coded("iptccat", codes), !.dataformat = formatted,
                   !.services = services] :
        feed \in {"PA", "PA_API"}, codes \in SUBSET {"SSO", "HHH"}, formatted \in BOOLEAN,
        services \in SUBSET {"EXT"}}

FromAFP ==
    {[Plain EXCEPT !.feed = "AFP", !.subjects = Coded("iptccat", codes), !.slug = slug,
                   !.headline = headline] :
        codes \in SUBSET {"SPO", "POL"}, slug \in {{}, {"fbl"}, {"Amfoot"}, {"RugbyL"}},
        headline \in (SUBSET {"result", "PressRelease"}) \union {{"table"}}}

FromAAP ==
    {[Plain EXCEPT !.feed = "AAP", !.subjects = legacy \union topics, !.keywords = keywords] :
        legacy \in SUBSET Coded("", {"15054000", "04000000"}),
        topics \in SUBSET Coded("subj", {"15054000", "15084000"}), keywords \in SUBSET {"Sports"}}

FromReuters ==
    {[Plain EXCEPT !.feed = "REUTERS", !.subjects = subjects, !.destinations = destinations,
                   !.headline = headline, !.body = body] :
        subjects \in SUBSET (Coded("N2", {"SOCC", "WAR", "ENT", "US"}) \union {<<"MCC", "OEC">>}),
        destinations \in SUBSET {"RWS"}, headline \in {{}, {"News", "Summary"}},
        body \in SUBSET {"OPTA"}}
    \union
    {[Plain EXCEPT !.feed = "REUTERS", !.subjects = {code}, !.body = body, !.slug = slug] :
        code \in Topics({"CRIC", "TENN", "GOLF", "BASK", "RUGL", "RUGU", "HORS", "MOCY"})
                \union News({"15008001", "15073001"}),
        body \in SUBSET {"OPTA"}, slug \in {{}, {"/SUMMARIES"}, {"/RESULTS"}}}

Sent ==
    FromAP \union FromPA \union FromAFP \union FromAAP \union FromReuters
    \union
    {[Plain EXCEPT !.feed = "COMET", !.british = british, !.places = places] :
        british \in BOOLEAN, places \in SUBSET {"GB", "US"}}
    \union
    {[Plain EXCEPT !.feed = feed] : feed \in {"AP-Newswires", "Reuters-Newswires", "FIP", "other", "none"}}

\* A preset alone, an unknown one, and ones that are named beside a second.
Named ==
    {[presets |-> {preset} \ {"none"}, preset |-> preset] :
        preset \in {"none", "all-world", "sport-other"}}
    \union
    {[presets |-> {preset, "dot-copy"}, preset |-> preset] : preset \in {"none", "all-world"}}

\* A search for an agency, for everything but an agency, for a source feed and
\* for everything but one, for words, and by the switch.
Asked ==
    {[presets |-> named.presets, preset |-> named.preset, filters |-> filters, showGu |-> shown] :
        named \in Named, shown \in BOOLEAN,
        filters \in
            {NoFilter,
             [NoFilter EXCEPT !.suppliersIncl = {"UNAUTHED_EMAIL_FEED", "GuAP"}],
             [NoFilter EXCEPT !.suppliersExcl = {"PA"}],
             [NoFilter EXCEPT !.guSourceFeeds = {"PA", "email"}],
             [NoFilter EXCEPT !.guSourceFeedsExcl = {"PA EXT"}],
             [NoFilter EXCEPT !.searchTerms =
                ComboTerm({SingleField(AllOf({"SOC"}), "combined"),
                           SingleField(AllOf({"SOC"}), "slug")}, "OR")]}}
=============================================================================
