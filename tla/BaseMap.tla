-------------------------------- MODULE BaseMap --------------------------------
(***************************************************************************)
(* The map of the staff's pages, internal/mapui/assets/ondexmap.js: the    *)
(* switch of the base map, after which the style takes every layer with    *)
(* it, the layer of the buildings, and the button between 2D and 3D.  The  *)
(* map itself is Mapbox GL: a style that is asked for replaces the one     *)
(* before, and tells of it once with style.load.                           *)
(***************************************************************************)
EXTENDS Naturals

CONSTANTS
    Modes,       \* STYLES: the base maps
    Composite,   \* those whose style has the source of the buildings
    None,
    Pitches,     \* the pitches the map is seen with
    pitch3d      \* the one of the 3D view

\* What is assumed of the constants.
ConstantsAssumption ==
    /\ Composite \subseteq Modes /\ None \notin Modes \cup Pitches
    /\ Pitches \subseteq 0..85 /\ {0, pitch3d} \subseteq Pitches
    /\ pitch3d >= 10

VARIABLES
    mode,       \* the base map that was chosen
    lit,        \* the button of the switch that is on
    loading,    \* the style is on its way
    buildings,  \* the base map whose colours om-3d has, None without the layer
    own,        \* the layers that onReady adds
    pitch,      \* the pitch of the map
    easing,     \* where the map is moving to, None when it stands
    label,      \* what the button says a click would do
    tilted      \* (observation) the pitch was changed by hand

styled == <<mode, lit, loading, buildings, own>>
dim == <<pitch, easing, label, tilted>>
vars == <<styled, dim>>

Flat == pitch < 10

\* The page gives the base map and the pitch it begins with.
Init ==
    /\ mode \in Modes
    /\ lit = mode
    /\ loading = TRUE
    /\ buildings = None
    /\ own = FALSE
    /\ pitch \in Pitches
    /\ easing = None
    /\ label = IF Flat THEN "3D" ELSE "2D"
    /\ tilted = FALSE

\* setBasemap: nothing for the base map there is.
setBasemap(m) ==
    /\ m # mode
    /\ mode' = m
    /\ lit' = m
    /\ buildings' = None
    /\ own' = FALSE
    /\ loading' = TRUE
    /\ UNCHANGED dim

\* _add3D.
add3D == buildings' = IF mode \in Composite /\ buildings = None THEN mode ELSE buildings

\* style.load: the buildings, then the layers of the page.
StyleLoad ==
    /\ loading
    /\ loading' = FALSE
    /\ add3D
    /\ own' = TRUE
    /\ UNCHANGED <<mode, lit, dim>>

\* The button: where to go is read from the pitch of the moment.
toggleDim ==
    /\ easing' = IF Flat THEN pitch3d ELSE 0
    /\ label' = IF Flat THEN "2D" ELSE "3D"
    /\ tilted' = FALSE
    /\ UNCHANGED <<styled, pitch>>

\* The map moves on, and stops where it was to go.
Ease ==
    /\ easing # None
    /\ \E p \in Pitches :
          /\ \/ pitch <= p /\ p <= easing
             \/ easing <= p /\ p <= pitch
          /\ pitch' = p
          /\ easing' = IF p = easing THEN None ELSE easing
    /\ UNCHANGED <<styled, label, tilted>>

\* Two fingers, or the compass: the button is not told.
Tilt ==
    /\ \E p \in Pitches : p # pitch /\ pitch' = p
    /\ easing' = None
    /\ tilted' = TRUE
    /\ UNCHANGED <<styled, label>>

Next ==
    \/ \E m \in Modes : setBasemap(m)
    \/ StyleLoad \/ toggleDim \/ Ease \/ Tilt

Spec == Init /\ [][Next]_vars

--------------------------------------------------------------------------

\* Every variable has its type.
TypeOK ==
    /\ {mode, lit} \subseteq Modes
    /\ {loading, own, tilted} \subseteq BOOLEAN
    /\ buildings \in Modes \cup {None}
    /\ pitch \in Pitches /\ easing \in Pitches \cup {None}
    /\ label \in {"2D", "3D"}

\* However fast the base maps are switched, a map whose style is there has the
\* layers of the page and, where the style has them, the buildings in the
\* colours of that base map (ondexmap.js:69), and its button is the one that is
\* lit; a map that stands shows on the other button what a click does, unless it
\* was tilted by hand since.
BaseMapRight ==
    /\ lit = mode
    /\ ~loading => own /\ buildings = IF mode \in Composite THEN mode ELSE None
    /\ easing = None /\ ~tilted => (label = "2D" <=> ~Flat)
=============================================================================
