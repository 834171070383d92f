-------------------------------- MODULE Weather --------------------------------
(***************************************************************************)
(* The temperature beside the name of the city: useWeather of              *)
(* web/src/components/panels/CityHeader.tsx with the requests of           *)
(* web/src/lib/api.ts.  The address of the source comes first, from the    *)
(* server; the weather is then asked for at the centre of the city the map *)
(* is near.  A request for one city is aborted when the map reaches        *)
(* another, and its answer is dropped.                                     *)
(***************************************************************************)
CONSTANTS
    Cities,
    None

CitiesAssumption == None \notin Cities

VARIABLES
    city,      \* the city nearest to the middle of the map
    inCity,    \* the map is near enough to it
    url,       \* what the server has as source: none, one place or any place
    request,   \* what is under way: nothing, the settings or the weather
    weather,   \* the city the temperature is of, or None
    failed     \* (observation) the last request brought nothing

vars == <<city, inCity, url, request, weather, failed>>

Init ==
    /\ city \in Cities
    /\ inCity \in BOOLEAN
    /\ url \in {"none", "fixed", "adaptable"}
    /\ request = IF inCity THEN "config" ELSE "none"
    /\ weather = None
    /\ failed = FALSE

\* The effect: away from the cities nothing is asked for.
Ask(near) ==
    /\ request' = IF near THEN "config" ELSE "none"
    /\ failed' = FALSE

Nothing ==
    /\ request' = "none"
    /\ failed' = TRUE
    /\ UNCHANGED weather

\* The map comes to another city, leaves the cities or comes back.
PlaceChanges(c, near) ==
    /\ <<c, near>> # <<city, inCity>>
    /\ city' = c
    /\ inCity' = near
    /\ Ask(near)
    /\ UNCHANGED <<url, weather>>

\* weatherUrlFor: an address without a place in it cannot be adapted.
weatherUrlFor == url = "adaptable"

\* The settings: without a source, or with one for one place only, nothing
\* more is asked for.
ConfigArrives ==
    /\ request = "config"
    /\ IF weatherUrlFor
       THEN request' = "weather" /\ UNCHANGED <<weather, failed>>
       ELSE Nothing
    /\ UNCHANGED <<city, inCity, url>>

\* The temperature of the place that was asked for.
WeatherArrives ==
    /\ request = "weather"
    /\ request' = "none"
    /\ weather' = city
    /\ UNCHANGED <<city, inCity, url, failed>>

\* Either request fails, or its answer is not a temperature.
RequestFails ==
    /\ request # "none"
    /\ Nothing
    /\ UNCHANGED <<city, inCity, url>>

Next ==
    \/ \E c \in Cities, near \in BOOLEAN : PlaceChanges(c, near)
    \/ ConfigArrives \/ WeatherArrives \/ RequestFails

Spec == Init /\ [][Next]_vars

\* What the page shows: nothing away from the cities.
Shown == IF inCity THEN weather ELSE None

--------------------------------------------------------------------------

\* Every variable has its type.
TypeOK ==
    /\ city \in Cities
    /\ inCity \in BOOLEAN
    /\ url \in {"none", "fixed", "adaptable"}
    /\ request \in {"none", "config", "weather"}
    /\ weather \in Cities \cup {None}
    /\ failed \in BOOLEAN

\* Once the requests for a city have been answered the page shows the
\* temperature of that city, and without a source it never shows one.
WeatherSettles ==
    /\ inCity /\ request = "none" /\ ~failed => Shown = city
    /\ url # "adaptable" => Shown = None

\* CityHeader.tsx:6-8 says that no temperature is shown when the request
\* fails, and none that is wrong or old: what is shown is of this city.
WeatherOfCity == Shown \in {None, city}
=============================================================================
