------------------------------ MODULE MapProvider ------------------------------
(***************************************************************************)
(* The view of the map page: MapProvider.tsx with useUrlSync.ts, mapUrl.ts,*)
(* cities.ts and prefs.ts in web/src.  The map itself (MapLibre) is what   *)
(* its events say: it loads the style, moves, tilts and draws on its own   *)
(* time, and between any two of its events the server answers or the user  *)
(* presses a button.  The colours and the mahallas are in MapTheme.        *)
(***************************************************************************)
EXTENDS Integers

CONSTANTS
    Spots,        \* places the centre of the map can be at
    Cities,
    NearestCity,  \* the city nearest to a spot
    Near,         \* the spots within CITY_RADIUS_KM of their city
    None

Tilts == {"flat", "tilted"}

SpotsAssumption ==
    /\ NearestCity \in [Spots -> Cities]
    /\ Near \subseteq Spots
    /\ None \notin Cities \cup Tilts

VARIABLES
    style,       \* loading or loaded
    config,      \* the answer of the server: asked, given or none
    tiles,       \* tiles are being loaded: isStyleLoaded() is false
    pitch,       \* flat or tilted, by PITCH_3D
    goal,        \* the tilt the map moves to, or None
    wasFlat,     \* the tilt the last event of pitch was handled for
    is3D,        \* what the button says
    saved3D,     \* in localStorage
    visible,     \* the layers of ground, flat and solid buildings
    satLayer,    \* the map has the layer of the satellite
    satellite,   \* the state of React
    wantSatellite,
    savedSatellite,  \* in localStorage
    restored,    \* satelliteRestored
    idled,       \* the map has been idle
    center,      \* the spot the map is centred at
    moving,
    timer,       \* the moveend of the map is to be written
    url,         \* the city, the mode and the centre of the address
    place,       \* the city of the panel
    tab,         \* the title of the page
    pressed,     \* (observation) the satellite was switched by hand
    missed       \* (observation) a tilt was not handled, tiles being loaded

loads == <<style, config, tiles, restored, idled>>
tilts == <<pitch, goal, wasFlat, is3D, saved3D, missed>>
sats == <<satLayer, wantSatellite, savedSatellite, pressed>>
moves == <<center, moving, timer>>
shown == <<url, place, tab>>
vars == <<loads, tilts, visible, sats, satellite, moves, shown>>

BuildingLayers == {"flat", "solid"}
Layers == {"ground"} \cup BuildingLayers

--------------------------------------------------------------------------
(* The address.                                                            *)

Placed(spot) == [city |-> NearestCity[spot], inCity |-> spot \in Near]

Tab(spot, sputnik) ==
    IF spot \in Near
    THEN [city |-> NearestCity[spot], sputnik |-> sputnik]
    ELSE [city |-> None, sputnik |-> FALSE]

Url(spot, sputnik) ==
    [city |-> NearestCity[spot], sputnik |-> sputnik, at |-> spot]

\* The page, the panel and the address follow the map.
sync ==
    /\ url' = Url(center', wantSatellite')
    /\ place' = Placed(center')
    /\ tab' = Tab(center', wantSatellite')

--------------------------------------------------------------------------
(* A page is opened: at the spot of its address, with the mode it names or *)
(* else the one that was saved.                                            *)

Init ==
    /\ style = "loading"
    /\ config = "asked"
    /\ tiles = TRUE
    /\ saved3D \in BOOLEAN
    /\ is3D = saved3D
    /\ pitch = IF saved3D THEN "tilted" ELSE "flat"
    /\ goal = None
    /\ wasFlat = None
    /\ visible = Layers
    /\ satLayer = FALSE
    /\ satellite = FALSE
    /\ savedSatellite \in BOOLEAN
    /\ wantSatellite \in {savedSatellite, TRUE, FALSE}
    /\ restored = FALSE
    /\ idled = FALSE
    /\ center \in Spots
    /\ moving = FALSE
    /\ timer = FALSE
    /\ url = Url(center, wantSatellite)
    /\ place = Placed(center)
    /\ tab = Tab(center, wantSatellite)
    /\ pressed = FALSE
    /\ missed = FALSE

--------------------------------------------------------------------------
(* What is drawn: the ground and the buildings.                            *)

\* (mutant) the solid buildings are not hidden under the satellite.
applyBuildingsSolid(in3D, sat) ==
    (IF in3D THEN {"solid"} ELSE {}) \cup (IF sat THEN {} ELSE {"flat"})
\* The buildings that show.
applyBuildings(in3D, sat) ==
    IF sat THEN {} ELSE {"flat"} \cup (IF in3D THEN {"solid"} ELSE {})

\* Of the layers v, with the tilt and the layer the map has by then.
syncBuildings(v, tilt, sat) ==
    (v \ BuildingLayers) \cup applyBuildings(tilt = "tilted", sat)

\* The satellite is put on the map or taken off it, with the layers v visible.
applySatellite(on, v) ==
    /\ satLayer' = on
    /\ visible' = IF on = satLayer THEN v
                  ELSE syncBuildings(IF on THEN v \ {"ground"}
                                           ELSE v \cup {"ground"}, pitch, on)

\* The effect that restores the satellite: once, when there is a style to put
\* it on and a source to take it from.
restore(v, st, cf) ==
    IF st = "loaded" /\ cf = "given" /\ ~restored
    THEN /\ restored' = TRUE
         /\ applySatellite(satLayer \/ wantSatellite, v)
    ELSE /\ visible' = v
         /\ UNCHANGED <<restored, satLayer>>

--------------------------------------------------------------------------
(* The answers to the page.                                                *)

\* style.load: the buildings are those of the tilt, then the effects run.
StyleLoads ==
    /\ style = "loading"
    /\ style' = "loaded"
    /\ restore(syncBuildings(visible, pitch, satLayer), "loaded", config)
    /\ UNCHANGED <<config, tiles, idled, pitch, goal, wasFlat, is3D, saved3D, missed,
                   wantSatellite, savedSatellite, pressed, satellite,
                   moves, shown>>

\* The source of the satellite, if it has a URL; else there is no button.
ConfigArrives(c) ==
    /\ config = "asked"
    /\ c \in {"given", "none"}
    /\ config' = c
    /\ restore(visible, style, c)
    /\ UNCHANGED <<style, tiles, idled, pitch, goal, wasFlat, is3D, saved3D, missed,
                   wantSatellite, savedSatellite, pressed, satellite,
                   moves, shown>>

\* External: the map wants tiles it has not got, or has got them all.
TilesChange ==
    /\ style = "loaded"
    /\ tiles' = ~tiles
    /\ UNCHANGED <<style, config, restored, idled, tilts, visible, sats, satellite,
                   moves, shown>>

\* styledata, a frame after the layers changed: the button follows the map,
\* and the effect of the state writes the address again.
StyleData ==
    /\ satellite # satLayer
    /\ satellite' = satLayer
    /\ UNCHANGED <<loads, tilts, visible, sats, moves>>
    /\ sync

\* The first idle, when everything is loaded and drawn.
Idle ==
    /\ ~idled
    /\ style = "loaded" /\ ~tiles /\ ~moving
    /\ idled' = TRUE
    /\ UNCHANGED <<style, config, tiles, restored, tilts, visible, sats, satellite, moves>>
    /\ sync

--------------------------------------------------------------------------
(* The satellite.                                                          *)

\* The button, which is there once the source is known.  Before the style is
\* loaded the map refuses the layer, and nothing changes.
toggleSatellite ==
    /\ config = "given" /\ style = "loaded"
    /\ applySatellite(~satLayer, visible)
    /\ savedSatellite' = ~satLayer
    /\ wantSatellite' = ~satLayer
    /\ pressed' = TRUE
    /\ UNCHANGED <<loads, tilts, satellite, moves>>
    /\ sync

--------------------------------------------------------------------------
(* The tilt.                                                               *)

\* pitchend: of a movement that ends, or is stopped by another.
pitchend ==
    IF goal = None THEN UNCHANGED <<is3D, saved3D>>
    ELSE /\ is3D' = (pitch = "tilted")
         /\ saved3D' = (pitch = "tilted")

\* The button of 2D and 3D: it goes by the tilt the map has at this moment.
\* A movement that it stops ends first, so that its pitchend does not count.
toggle3D ==
    LET goFlat == pitch = "tilted" IN
    /\ goal' = IF goFlat THEN "flat" ELSE "tilted"
    /\ is3D' = ~goFlat
    /\ saved3D' = ~goFlat
    /\ moving' = TRUE
    /\ timer' = (timer \/ moving)
    /\ UNCHANGED <<loads, pitch, wasFlat, missed, visible, sats, satellite,
                   center, shown>>

\* The user tilts the map by hand.
TiltByHand(tilt) ==
    /\ pitchend
    /\ goal' = tilt
    /\ moving' = TRUE
    /\ timer' = (timer \/ moving)
    /\ UNCHANGED <<loads, pitch, wasFlat, missed, visible, sats, satellite,
                   center, shown>>

\* pitch, every frame: the buildings follow when 2D and 3D change, unless
\* tiles are being loaded.
PitchFrame(tilt) ==
    /\ goal # None
    /\ tilt \in {pitch, goal}
    /\ pitch' = tilt
    /\ IF tilt = wasFlat \/ style = "loading" \/ tiles
       THEN UNCHANGED <<wasFlat, visible>>
       ELSE /\ wasFlat' = tilt
            /\ visible' = syncBuildings(visible, tilt, satLayer)
    /\ missed' = (missed \/ (tilt # pitch /\ (style = "loading" \/ tiles)))
    /\ UNCHANGED <<loads, goal, is3D, saved3D, sats, satellite, moves, shown>>

TiltEnds ==
    /\ goal # None
    /\ pitch = goal
    /\ pitchend
    /\ goal' = None
    /\ moving' = FALSE
    /\ timer' = TRUE
    /\ UNCHANGED <<loads, pitch, wasFlat, missed, visible, sats, satellite,
                   center, shown>>

--------------------------------------------------------------------------
(* The address follows the map when it has stopped.                        *)

\* Dragging, or a flight to a result or an object; it stops a change of the
\* tilt where it is.
Move(spot) ==
    /\ spot # center
    /\ center' = spot
    /\ pitchend
    /\ goal' = None
    /\ moving' = TRUE
    /\ timer' = (timer \/ moving)
    /\ UNCHANGED <<loads, pitch, wasFlat, missed, visible, sats, satellite,
                   shown>>

\* moveend: the timer of DEBOUNCE_MS starts again.
MoveEnds ==
    /\ moving /\ goal = None
    /\ moving' = FALSE
    /\ timer' = TRUE
    /\ UNCHANGED <<loads, tilts, visible, sats, satellite, center, shown>>

TimerFires ==
    /\ timer
    /\ timer' = FALSE
    /\ UNCHANGED <<loads, tilts, visible, sats, satellite, center, moving>>
    /\ sync

Loading ==
    \/ StyleLoads
    \/ \E c \in {"given", "none"} : ConfigArrives(c)
    \/ TilesChange
    \/ StyleData
    \/ Idle
Moving ==
    \/ \E spot \in Spots : Move(spot)
    \/ MoveEnds
    \/ TimerFires
Tilting ==
    \/ toggle3D
    \/ \E tilt \in Tilts : TiltByHand(tilt) \/ PitchFrame(tilt)
    \/ TiltEnds

Next == Loading \/ toggleSatellite \/ Tilting \/ Moving

Spec == Init /\ [][Next]_vars

--------------------------------------------------------------------------

\* Every variable has its type.
TypeOK ==
    /\ style \in {"loading", "loaded"}
    /\ config \in {"asked", "given", "none"}
    /\ pitch \in Tilts
    /\ {goal, wasFlat} \subseteq Tilts \cup {None}
    /\ visible \subseteq Layers
    /\ {tiles, is3D, saved3D, satLayer, satellite, wantSatellite,
        savedSatellite, restored, idled, moving, timer, pressed, missed}
           \subseteq BOOLEAN
    /\ center \in Spots
    /\ url \in [city: Cities, sputnik: BOOLEAN, at: Spots]
    /\ place \in [city: Cities, inCity: BOOLEAN]
    /\ tab \in [city: Cities \cup {None}, sputnik: BOOLEAN]

\* The mode of the map, of its address and of the next visit agree, in
\* whatever order the style, the configuration and the user come: once the
\* page could restore it, the layer is there exactly when it is wanted, a
\* choice made by hand is the one that is saved, and a page that has no
\* source has no satellite.
SatelliteRight ==
    /\ restored => satLayer = wantSatellite
    /\ satLayer => restored
    /\ style = "loaded" /\ config = "given" => restored
    /\ pressed => savedSatellite = wantSatellite
    /\ url.sputnik = wantSatellite

\* Nothing of the ground and no building covers the satellite; without it the
\* ground and the flat buildings are back, and the solid ones show in 3D only,
\* as long as no change of the tilt fell into the loading of tiles.
BuildingsRight ==
    style = "loaded" =>
        /\ satLayer <=> visible \cap {"ground", "flat"} = {}
        /\ satLayer => visible = {}
        /\ ~satLayer /\ ~missed =>
              ("solid" \in visible <=> pitch = "tilted")

\* When the map stands still the button says what it shows, and the next
\* visit opens with the same.
TiltRight ==
    goal = None => is3D = (pitch = "tilted") /\ saved3D = is3D

\* When the map has stopped and the timer has run the address, the city of the
\* panel and the title of the page are those of its centre.
AddressFollows ==
    ~moving /\ ~timer =>
        /\ url = Url(center, wantSatellite)
        /\ place = Placed(center)
        /\ tab = Tab(center, wantSatellite)

\* MapProvider.tsx:137 says that in 2D the layer of solid buildings is off
\* altogether.
FlatIsFlat ==
    style = "loaded" /\ goal = None /\ pitch = "flat" => "solid" \notin visible
=============================================================================
