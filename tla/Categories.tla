------------------------------- MODULE Categories -------------------------------
(***************************************************************************)
(* The categories of the side bar and the tiers of the map, both in        *)
(* web/src/components: the tables of panels/categories.tsx and             *)
(* map/importance.ts, with which the ones of the server                    *)
(* (internal/places/kinds.go), of the pins (places/kindUi.tsx,             *)
(* map/poiIcons.ts) and of the style (style-chust.json) have to agree, the *)
(* buttons of CategoryGrid, CategoryChips and CityHeader, and the filters  *)
(* usePlacesLayer.ts puts on the eight layers.  A zoom is given in tenths. *)
(***************************************************************************)
EXTENDS Naturals

CONSTANT None

VARIABLES
    active,    \* the key of the category that is chosen, or None
    expanded,  \* "Barcha joylar" has been opened
    mobile,    \* the window is a narrow one: chips and no grid
    ready,     \* the layers are on the map
    places,    \* by tier: [category, from] of the layer of OnDexMap's objects
    poi        \* by tier: [classes, from] of the layer of OSM's places

vars == <<active, expanded, mobile, ready, places, poi>>

--------------------------------------------------------------------------
(* The tables of the server and of the style.                              *)

\* The kinds of objects, and those that are lines.
Kinds ==
    {"organization", "address", "entrance", "road", "barrier", "stop",
     "parking", "crossing", "fence", "gate", "other"}
PlacedKinds == Kinds \ {"road", "crossing", "fence"}

\* What an organization may say it is, with "_" for a space.
ServerCategories ==
    {"Oziq-ovqat_do'koni", "Restoran", "Kafe", "Choyxona", "Dorixona",
     "Shifoxona_/_Klinika", "Bank_/_Bankomat", "Maktab", "Bolalar_bog'chasi",
     "Kollej_/_Universitet", "Masjid", "Yoqilg'i_shoxobchasi", "Avtoservis",
     "Go'zallik_saloni", "Kiyim_do'koni", "Bozor", "Mehmonxona",
     "Idora_/_Ofis", "Davlat_muassasasi", "Ta'mirlash_va_xizmatlar", "Boshqa"}

\* The classes of the layers poi-tier1 to poi-tier4 as the style has them.
StyleClasses ==
    << {"hospital", "fuel", "college", "place_of_worship", "railway", "police",
        "town_hall", "stadium", "aerialway", "harbor", "castle"},
       {"bank", "lodging", "school", "library", "bus", "post", "park", "garden",
        "attraction", "information", "office", "golf", "campsite", "grocery",
        "cemetery", "art_gallery", "zoo"},
       {"restaurant", "fast_food", "cafe", "bar", "beer", "alcohol_shop",
        "ice_cream", "laundry", "pharmacy", "doctors", "dentist", "atm", "car",
        "pitch", "sport", "sports_centre", "swimming", "swimming_pool",
        "parking", "music"},
       {"bakery", "shop", "clothing_store", "entrance", "toilets", "other"} >>

\* Of these, the ones whose pin stands on its tip.
StyleAnchors ==
    << {"hospital", "college"}, {"grocery", "lodging", "school", "library"},
       {"restaurant", "cafe", "pharmacy", "doctors", "dentist"}, {} >>

--------------------------------------------------------------------------
(* The tables of the pages.                                                *)

Cat(key, classes, orgCategories, kinds, pngIcon) ==
    [key |-> key, classes |-> classes, orgCategories |-> orgCategories,
     kinds |-> kinds, pngIcon |-> pngIcon]

CATEGORIES ==
    { Cat("ovqat", {"restaurant", "fast_food"}, {"Restoran", "Choyxona"}, {},
          "restaurant"),
      Cat("hotel", {"lodging"}, {"Mehmonxona"}, {}, "hotel"),
      Cat("oziq", {"grocery", "supermarket", "convenience", "bakery"},
          {"Oziq-ovqat_do'koni"}, {}, "grocery"),
      Cat("dori", {"pharmacy"}, {"Dorixona"}, {}, "pharmacy"),
      Cat("savdo", {"shop", "clothing_store"}, {"Kiyim_do'koni"}, {}, None),
      Cat("azs", {"fuel"}, {"Yoqilg'i_shoxobchasi"}, {}, None),
      Cat("kafe", {"cafe", "bar", "pub"}, {"Kafe"}, {}, "cafe"),
      Cat("bank", {"bank", "atm"}, {"Bank_/_Bankomat"}, {}, None),
      Cat("bozor", {"marketplace"}, {"Bozor"}, {}, None),
      Cat("shifoxona", {"hospital", "doctors", "dentist"},
          {"Shifoxona_/_Klinika"}, {}, "hospital") }

MORE_CATEGORIES ==
    { Cat("maktab", {"school", "library"}, {"Maktab", "Bolalar_bog'chasi"}, {},
          "school"),
      Cat("kollej", {"college"}, {"Kollej_/_Universitet"}, {}, "college"),
      Cat("masjid", {"place_of_worship"}, {"Masjid"}, {}, None),
      Cat("bekat", {"bus", "railway"}, {}, {"stop"}, None),
      Cat("turargoh", {"parking"}, {}, {"parking"}, None),
      Cat("avtoservis", {"car"}, {"Avtoservis"}, {}, None),
      Cat("salon", {}, {"Go'zallik_saloni"}, {}, None),
      Cat("davlat", {"police", "town_hall", "post"},
          {"Davlat_muassasasi", "Idora_/_Ofis"}, {}, None),
      Cat("xizmat", {}, {"Ta'mirlash_va_xizmatlar"}, {}, None),
      Cat("sport", {"pitch", "stadium", "sport", "swimming"}, {}, {}, None),
      Cat("park", {"park", "garden"}, {}, {}, None),
      Cat("diqqat", {"attraction", "information"}, {}, {}, None) }

ALL_CATEGORIES == CATEGORIES \cup MORE_CATEGORIES

Keys(list) == {c.key : c \in list}

\* None is the name of no category and of no picture.
NamesAssumption ==
    None \notin Keys(ALL_CATEGORIES) \cup UNION {StyleAnchors[t] : t \in 1..4}

findCategory(key) == CHOOSE c \in ALL_CATEGORIES : c.key = key

\* The pins of OnDexMap's organizations, by category, and of OSM's, by class.
ORG_CATEGORY_ICON(category) ==
    CASE category = "Restoran" -> "restaurant"
      [] category = "Kafe" -> "cafe"
      [] category = "Oziq-ovqat_do'koni" -> "grocery"
      [] category = "Shifoxona_/_Klinika" -> "hospital"
      [] category = "Dorixona" -> "pharmacy"
      [] category = "Mehmonxona" -> "hotel"
      [] category = "Maktab" -> "school"
      [] category = "Kollej_/_Universitet" -> "college"
      [] OTHER -> None

PNG_ICON(class) ==
    IF class \in {"restaurant", "cafe", "grocery", "hospital", "pharmacy",
                  "doctors", "dentist", "school", "college", "library"}
    THEN class
    ELSE IF class = "lodging" THEN "hotel" ELSE None

\* The kinds and the classes that have a badge of their own; another one gets
\* that of "other".
KIND_UI ==
    {"organization", "address", "entrance", "road", "barrier", "stop",
     "parking", "crossing", "fence", "gate", "other"}
POI_DEFS ==
    {"restaurant", "fast_food", "cafe", "bar", "beer", "alcohol_shop",
     "ice_cream", "bakery", "grocery", "shop", "clothing_store", "laundry",
     "pharmacy", "hospital", "doctors", "dentist", "bank", "atm", "office",
     "fuel", "car", "bus", "parking", "railway", "aerialway", "harbor",
     "entrance", "school", "college", "library", "lodging", "campsite",
     "place_of_worship", "castle", "cemetery", "art_gallery", "music",
     "police", "town_hall", "post", "park", "garden", "golf", "zoo", "pitch",
     "stadium", "sport", "sports_centre", "swimming", "swimming_pool",
     "toilets", "attraction", "information", "other"}

TIERS == 1..4
TIER_MINZOOM == <<120, 140, 150, 165>>
TIER_SORT_BASE == <<1000, 2000, 3000, 4000>>

\* By tier, the categories it lists.
ORG_CATEGORY_TIER ==
    << {"Shifoxona_/_Klinika", "Kollej_/_Universitet", "Masjid",
        "Yoqilg'i_shoxobchasi", "Davlat_muassasasi"},
       {"Bank_/_Bankomat", "Maktab", "Bozor", "Mehmonxona"},
       {"Oziq-ovqat_do'koni", "Restoran", "Kafe", "Choyxona", "Dorixona",
        "Bolalar_bog'chasi", "Avtoservis", "Idora_/_Ofis"},
       {"Go'zallik_saloni", "Kiyim_do'koni", "Ta'mirlash_va_xizmatlar"} >>

KIND_TIER == <<{}, {"stop"}, {"parking"}, {"address", "barrier", "gate", "other"}>>

\* A category that is not listed is of tier 3, a kind that is not of tier 4.
TierIn(table, x, default) ==
    IF \E t \in TIERS : x \in table[t]
    THEN CHOOSE t \in TIERS : x \in table[t]
    ELSE default
placeTier(o) ==
    IF o.kind = "organization"
    THEN TierIn(ORG_CATEGORY_TIER, o.category, 3)
    ELSE TierIn(KIND_TIER, o.kind, 4)

--------------------------------------------------------------------------
(* The layers.                                                             *)

\* tierPointFilter and withCategory: what the layer of a tier lets through.
tierPointFilter(t, o) == o.kind # "entrance" /\ placeTier(o) = t
Within(c, o) ==
    \/ o.kind \in c.kinds
    \/ o.kind = "organization" /\ o.category \in c.orgCategories
withCategory(t, key, o) ==
    /\ tierPointFilter(t, o)
    /\ key # None => Within(findCategory(key), o)

\* The layers before the filter of a category was ever put on them: those of
\* OnDexMap are added with their own filter, those of OSM have the style's.
Fresh ==
    /\ places = [t \in TIERS |-> [category |-> None, from |-> TIER_MINZOOM[t]]]
    /\ poi = [t \in TIERS |->
                 [classes |-> StyleClasses[t], from |-> TIER_MINZOOM[t]]]

\* The effect.  Without a category it takes the filter off the layers of OSM,
\* the one of the style too: None lets every class through.
Filter(key) ==
    /\ places' = [t \in TIERS |->
          [category |-> key,
           from |-> IF key = None THEN TIER_MINZOOM[t] ELSE 0]]
    /\ poi' = [t \in TIERS |->
          IF key = None
          THEN [classes |-> None, from |-> TIER_MINZOOM[t]]
          ELSE [classes |-> findCategory(key).classes, from |-> 0]]

Init ==
    /\ active = None
    /\ expanded = FALSE
    /\ mobile \in BOOLEAN
    /\ ready = FALSE
    /\ Fresh

\* The layers are added and filtered by what has been chosen until then.
Ready ==
    /\ ~ready
    /\ ready' = TRUE
    /\ Filter(active)
    /\ UNCHANGED <<active, expanded, mobile>>

\* The buttons: the chips are all there, the grid has the first ten unless it
\* has been opened.
Buttons == IF mobile \/ expanded THEN ALL_CATEGORIES ELSE CATEGORIES

\* The button of the category that is chosen takes it back.
setActive(key) ==
    /\ key \in Keys(Buttons)
    /\ active' = IF key = active THEN None ELSE key
    /\ IF ready THEN Filter(active') ELSE UNCHANGED <<places, poi>>
    /\ UNCHANGED <<expanded, mobile, ready>>

\* "Barcha joylar" / "Kamroq".  The header of the city has it beside the chips
\* too, where it changes nothing (CategoryChips.tsx:10 says it is not there).
setExpanded ==
    /\ expanded' = ~expanded
    /\ UNCHANGED <<active, mobile, ready, places, poi>>

\* The window gets wide or narrow.
Resize ==
    /\ mobile' = ~mobile
    /\ UNCHANGED <<active, expanded, ready, places, poi>>

Next ==
    \/ Ready
    \/ \E key \in Keys(ALL_CATEGORIES) : setActive(key)
    \/ setExpanded
    \/ Resize

Spec == Init /\ [][Next]_vars

--------------------------------------------------------------------------
TypeOK ==
    /\ active \in Keys(ALL_CATEGORIES) \cup {None}
    /\ expanded \in BOOLEAN /\ mobile \in BOOLEAN /\ ready \in BOOLEAN
    /\ \A t \in TIERS :
          /\ places[t].category \in Keys(ALL_CATEGORIES) \cup {None}
          /\ {places[t].from, poi[t].from} \subseteq 0..240

\* The objects the server may send that are points.
Objects ==
    [kind : PlacedKinds \ {"organization"}, category : {"none"}]
        \cup [kind : {"organization"}, category : ServerCategories]

\* The tables agree: a name of one is known to the other, no organization,
\* class or kind is of two categories, and only what says it is "Boshqa" is
\* of none.  The pin of a button is one the map has for it, and stands on its
\* tip; every kind and every class of the style has a badge.
TablesAgree ==
    /\ \A c \in ALL_CATEGORIES :
          /\ c.orgCategories \subseteq ServerCategories
          /\ c.kinds \subseteq PlacedKinds \ {"organization", "entrance"}
          /\ c.pngIcon # None =>
                /\ \E o \in c.orgCategories : ORG_CATEGORY_ICON(o) = c.pngIcon
                /\ \E class \in c.classes : PNG_ICON(class) = c.pngIcon
          /\ \A d \in ALL_CATEGORIES \ {c} :
                /\ c.key # d.key
                /\ c.orgCategories \cap d.orgCategories = {}
                /\ c.classes \cap d.classes = {}
                /\ c.kinds \cap d.kinds = {}
    /\ \A o \in ServerCategories \ {"Boshqa"} :
          /\ \E c \in ALL_CATEGORIES : o \in c.orgCategories
          /\ \E t \in TIERS : o \in ORG_CATEGORY_TIER[t]
    /\ KIND_UI = Kinds
    /\ POI_DEFS = UNION {StyleClasses[t] : t \in TIERS}
    /\ \A t \in TIERS :
          StyleAnchors[t] = {c \in StyleClasses[t] : PNG_ICON(c) # None}
    /\ \A t, u \in TIERS :
          t < u => /\ TIER_MINZOOM[t] < TIER_MINZOOM[u]
                   /\ TIER_SORT_BASE[t] < TIER_SORT_BASE[u]
                   /\ StyleClasses[t] \cap StyleClasses[u] = {}
                   /\ ORG_CATEGORY_TIER[t] \cap ORG_CATEGORY_TIER[u] = {}

\* Whatever was chosen before and after the map was ready: an object that is a
\* point is in one layer, the one of its tier, and only if it is of the
\* category that is chosen; then it shows from every zoom.
EachInItsTier ==
    ready =>
    \A o \in Objects :
        LET in == {t \in TIERS : withCategory(t, places[t].category, o)}
            belongs == \/ active = None
                       \/ Within(findCategory(active), o)
        IN  IF o.kind # "entrance" /\ belongs
            THEN /\ in = {placeTier(o)}
                 /\ places[placeTier(o)].from =
                       IF active = None THEN TIER_MINZOOM[placeTier(o)] ELSE 0
            ELSE in = {}

\* OSM's places are narrowed to the same category.
OsmNarrowed ==
    ready /\ active # None =>
    \A t \in TIERS :
        /\ poi[t].from = 0
        /\ poi[t].classes \cap POI_DEFS =
              findCategory(active).classes \cap POI_DEFS

(***************************************************************************)
(* The categories of the buttons, of the server, of the tiers and of the   *)
(* pins are the same ones, and the map shows just the objects of the one   *)
(* that is chosen, each once and from the scale of its tier                *)
(* (categories.tsx:7-14, importance.ts:14-26).                             *)
(***************************************************************************)
CategoriesRight == TablesAgree /\ EachInItsTier /\ OsmNarrowed

(***************************************************************************)
(* Three things the pages promise and do not keep.  A layer of OSM has the *)
(* places of its own tier (importance.ts:14-18); the classes of a category *)
(* are ones that occur (poiIcons.ts:36-42); the button that takes the      *)
(* choice back can be seen (CategoryGrid.tsx:11-12).                       *)
(***************************************************************************)
OsmInItsTier ==
    ready /\ active = None => \A t \in TIERS : poi[t].classes = StyleClasses[t]
ClassesOccur == \A c \in ALL_CATEGORIES : c.classes \subseteq POI_DEFS
ChosenHasButton == active # None => active \in Keys(Buttons)
================================================================================
