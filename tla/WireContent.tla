----------------------------- MODULE WireContent -----------------------------
(***************************************************************************)
(* What the ingestion lambda makes of one wire: its supplier, the source   *)
(* feed it is filed under, its category codes and the categories computed  *)
(* from them. A category code prefix:code is a pair, and the tables of     *)
(* codes are represented by the few of their codes the models use.         *)
(*                                                                         *)
(* A message is a wire as it arrives:                                      *)
(*   feed         the family of its source-feed                            *)
(*   subjects     its subject codes, unpacked from prefix:code1+code2      *)
(*   services     the subject codes of the form service:X                  *)
(*   destinations Reuters' destination codes                               *)
(*   media        PA's mediaCatCodes, or ""                                *)
(*   keywords     its keywords, trimmed and without the empty ones         *)
(*   slug, headline, body   the words of these texts                       *)
(*   places       the countries the text names                             *)
(*   british      whether the text names a British place                   *)
(*   dataformat   whether it has data formatting                           *)
(***************************************************************************)
EXTENDS Naturals, FiniteSets

Coded(prefix, codes) == {prefix} \X codes

(***************************************************************************)
(* Suppliers and source feeds.                                             *)
(***************************************************************************)
\* The families of feeds the lookup and the remapping tell apart.
Feeds == {"REUTERS", "Reuters-Newswires", "AP APAPI", "AP-Newswires", "AAP",
          "AFP", "PA", "PA_API", "COMET", "FIP", "other", "none"}

LookupSupplier(feed) ==
    CASE feed = "REUTERS"           -> "REUTERS"
      [] feed = "Reuters-Newswires" -> "GUREUTERS"
      [] feed = "AP APAPI"          -> "AP"
      [] feed = "AP-Newswires"      -> "GUAP"
      [] feed = "AAP"               -> "AAP"
      [] feed = "AFP"               -> "AFP"
      [] feed \in {"PA", "PA_API"}  -> "PA"
      [] feed = "COMET"             -> "MINOR_AGENCIES"
      [] feed = "FIP"               -> "HEARTBEAT"
      [] OTHER                      -> "Unknown"

RemapSourceFeeds(m) ==
    CASE m.feed = "none"                         -> "Unknown"
      [] m.feed = "PA_API" /\ m.dataformat       -> "PA_API DATA FORMATTING"
      [] m.feed = "PA" /\ m.dataformat           -> "PA DATA FORMATTING"
      [] m.feed = "PA" /\ ~m.dataformat
           /\ "EXT" \in m.services               -> "PA EXT"
      [] OTHER                                   -> m.feed

(***************************************************************************)
(* Category codes.                                                         *)
(***************************************************************************)
\* A mutant of ReplacePrefix: the codes keep the prefix they arrive with.
KeepPrefix(codes, from, to) == codes

\* replacePrefixesFromLookup, for a table of one prefix.
ReplacePrefix(codes, from, to) ==
    {IF c[1] = from THEN <<to, c[2]>> ELSE c : c \in codes}

WorldTopicCodes == Coded("N2", {"WAR", "DEF"})

\* The destinations that are kept, and the code a wire gets when one of them
\* and a topic say it is world news.
ReutersDestinations(m) ==
    Coded("REUTERS", m.destinations \intersect {"RWS", "RNA", "RWSA", "REULB", "RBN"})
ReutersTopicCodes(m) ==
    {c \in {<<"REUTERS", "WORLD">>} :
        /\ ReutersDestinations(m) \intersect Coded("REUTERS", {"RWS", "RWSA"}) # {}
        /\ m.subjects \intersect WorldTopicCodes # {}}

Countries == {"US", "CA", "GB"}
Geographical(countries) == Coded("experimentalCountryCode", countries)
RemappedCountries(m) == Geographical({c \in Countries : \E s \in m.subjects : s[2] = c})

\* The codes of a wire by its supplier. Which codes a priority of 1 and an
\* obituary's phrases add is left out: no preset names them.
ProcessCategoryCodes(m) ==
    LET supplier == LookupSupplier(m.feed)
        services == Coded("service", m.services)
        regions  == Geographical(m.places)
    IN CASE supplier = "REUTERS" ->
              m.subjects \union services \union ReutersDestinations(m)
              \union ReutersTopicCodes(m) \union regions \union RemappedCountries(m)
         [] supplier = "AP" -> ReplacePrefix(m.subjects, "iptccat", "apCat") \union regions
         [] supplier = "AAP" -> ReplacePrefix(m.subjects, "", "subj") \union services \union regions
         [] supplier = "AFP" ->
              ReplacePrefix(m.subjects, "iptccat", "afpCat") \union regions
              \union Coded("guCat", {"PressRelease"} \intersect m.headline)
         [] supplier = "PA" ->
              ReplacePrefix(m.subjects, "iptccat", "paCat") \union Coded("paCat", {m.media} \ {""})
         [] supplier = "MINOR_AGENCIES" ->
              m.subjects \union services \union regions
              \union (IF m.british THEN Coded("N2", {"GB"}) \union Geographical({"GB"}) ELSE {})
         [] OTHER -> m.subjects \union regions

(***************************************************************************)
(* The categories that are computed once, when a wire is stored.           *)
(***************************************************************************)
\* Of the tables of sport, the codes that the sports' presets name.
SportsRelatedTopicCodes ==
    Coded("N2", {"SPO", "ATHL", "AUSR", "BASE", "BASK", "BOXI", "CRIC", "CYCL", "FO1", "GOLF", "HORS",
                 "ICEH", "MOCY", "MORA", "NFL", "NHL", "RUGL", "RUGU", "SOCC", "TENN"})
SportsRelatedNewsCodes ==
    Coded("subj", {"15003000", "15003001", "15005000", "15007000", "15008000", "15008001", "15014000",
                   "15017000", "15019000", "15027000", "15030000", "15031000", "15039000",
                   "15041000", "15048000", "15049000", "15054000", "15057000", "15065000",
                   "15073001", "15073002", "15084000"})
BusinessRelatedTopicCodes == Coded("N2", {"COM"})
BusinessRelatedNewsCodes == Coded("subj", {"04000000"})
OtherTopicCodes == Coded("N2", {"ENT"})
Soccer == Coded("N2", {"SOCC"}) \union Coded("paCat", {"SSO", "SFF"}) \union Coded("subj", {"15054000"})
AllSports ==
    {<<"afpCat", "SPO">>, <<"apCat", "s">>, <<"", "sport">>}
    \union Coded("paCat", {"SRS", "SSS", "SSO", "SCR", "SRR", "SST"})
    \union SportsRelatedTopicCodes \union SportsRelatedNewsCodes

ContainsCode(codes, toCheck) == codes \intersect toCheck # {}

PresetCategories ==
    {"all-sports", "no-soccer", "sports-related-topic-codes", "sports-related-news-codes",
     "business-related-news-codes", "business-related-topic-codes", "other-topic-codes"}

PresetCodesMap(codes) ==
    [category \in PresetCategories |->
        CASE category = "all-sports" -> ContainsCode(codes, AllSports)
          [] category = "no-soccer" -> ContainsCode(codes, AllSports) /\ ~ContainsCode(codes, Soccer)
          [] category = "sports-related-topic-codes" -> ContainsCode(codes, SportsRelatedTopicCodes)
          [] category = "sports-related-news-codes" -> ContainsCode(codes, SportsRelatedNewsCodes)
          [] category = "business-related-news-codes" -> ContainsCode(codes, BusinessRelatedNewsCodes)
          [] category = "business-related-topic-codes" -> ContainsCode(codes, BusinessRelatedTopicCodes)
          [] category = "other-topic-codes" -> ContainsCode(codes, OtherTopicCodes)]

ComputePresetCategories(codes) == {c \in PresetCategories : PresetCodesMap(codes)[c]}
=============================================================================
