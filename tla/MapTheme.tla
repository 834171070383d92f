------------------------------- MODULE MapTheme -------------------------------
(***************************************************************************)
(* The layers of the map whose colours change, and the mahallas:           *)
(* theme.ts and, in MapProvider.tsx, style.load, addMahallaLayers and      *)
(* selectArea (web/src/components/map).  The layers of the mahallas come   *)
(* when the server has answered, later than those of the style.            *)
(***************************************************************************)
EXTENDS Naturals

CONSTANTS
    Areas,      \* mahallas the server gives
    Others,     \* ids of areas it does not give
    MOBILE_DARK_THEME,  \* the switch of lib/config.ts
    None

VARIABLES
    style,      \* loading or loaded
    areas,      \* the request for the mahallas: none, asked, ready or failed
    dark,       \* what the page wants: a narrow window on a dark device
    paint,      \* the colour of a layer
    originals,  \* the colour of a layer before its first change
    filter,     \* the mahalla the map shows the outline of
    selected,   \* the mahalla the page names
    error       \* styleError is shown

vars == <<style, areas, dark, paint, originals, filter, selected, error>>

\* A road, the symbols of the base map, and the label of a mahalla.
Layers == {"road", "poi", "mahalla"}
\* The colours of the style, of the categories of symbols, and of DARK.
Colours == {"style", "category", "dark"}

AreasAssumption ==
    /\ None \notin Areas \cup Others \cup Colours
    /\ MOBILE_DARK_THEME \in BOOLEAN

\* The layers the map has.
Present(st, ar) ==
    (IF st = "loaded" THEN {"road", "poi"} ELSE {}) \cup
    (IF ar = "ready" THEN {"mahalla"} ELSE {})

Init ==
    /\ style = "loading"
    /\ areas = "none"
    /\ dark \in {FALSE, MOBILE_DARK_THEME}
    /\ paint = [l \in Layers |-> "style"]
    /\ originals = [l \in Layers |-> None]
    /\ filter = None
    /\ selected = None
    /\ error = FALSE

--------------------------------------------------------------------------

\* The originals, with those of the layers that are there for the first time.
Saved(p, there) ==
    [l \in Layers |-> IF l \in there /\ originals[l] = None
                      THEN p[l] ELSE originals[l]]

\* applyMapTheme, on a map with the colours p.
applyMapTheme(p, there, toDark) ==
    /\ originals' = Saved(p, there)
    /\ paint' = [l \in Layers |-> IF l \notin there THEN p[l]
                                  ELSE IF toDark THEN "dark"
                                  ELSE originals'[l]]

\* style.load: the symbols get the colours of their categories before the
\* theme is applied, and the mahallas are asked for.
StyleLoads ==
    /\ style = "loading"
    /\ style' = "loaded"
    /\ areas' = "asked"
    /\ applyMapTheme([paint EXCEPT !["poi"] = "category"],
                     Present("loaded", areas), dark)
    /\ UNCHANGED <<dark, filter, selected, error>>

\* addMahallaLayers: the index, the layers, and the theme once more.
AreasArrive ==
    /\ areas = "asked"
    /\ areas' = "ready"
    /\ filter' = None
    /\ applyMapTheme(paint, Present(style, "ready"), dark)
    /\ UNCHANGED <<style, dark, selected, error>>

AreasFail ==
    /\ areas = "asked"
    /\ areas' = "failed"
    /\ error' = TRUE
    /\ UNCHANGED <<style, dark, paint, originals, filter, selected>>

\* The map reports an error of the style or of a source.
MapFails ==
    /\ error' = TRUE
    /\ UNCHANGED <<style, areas, dark, paint, originals, filter, selected>>

\* The device or the width of the window changes.
ChangeTheme ==
    /\ MOBILE_DARK_THEME
    /\ dark' = ~dark
    /\ IF style = "loaded"
       THEN applyMapTheme(paint, Present(style, areas), dark')
       ELSE UNCHANGED <<paint, originals>>
    /\ UNCHANGED <<style, areas, filter, selected, error>>

\* A label of the map, a result of the search, or nothing: the page names an
\* area only if it is in the index.
selectArea(id) ==
    /\ filter' = IF areas = "ready" THEN id ELSE filter
    /\ selected' = IF areas = "ready" /\ id \in Areas THEN id ELSE None
    /\ UNCHANGED <<style, areas, dark, paint, originals, error>>

Next ==
    \/ StyleLoads
    \/ AreasArrive
    \/ AreasFail
    \/ MapFails
    \/ ChangeTheme
    \/ \E id \in Areas \cup Others \cup {None} : selectArea(id)

Spec == Init /\ [][Next]_vars

--------------------------------------------------------------------------

\* Every variable has its type.
TypeOK ==
    /\ style \in {"loading", "loaded"}
    /\ areas \in {"none", "asked", "ready", "failed"}
    /\ {dark, error} \subseteq BOOLEAN
    /\ paint \in [Layers -> Colours]
    /\ originals \in [Layers -> Colours \cup {None}]
    /\ filter \in Areas \cup Others \cup {None}
    /\ selected \in Areas \cup {None}

\* Whenever the theme changes, and whenever the mahallas come: every layer
\* the map has shows the theme of the page, and without the dark one the
\* colour it had before, the symbols those of their categories.  The page
\* names no area whose outline the map does not show.
ThemeRight ==
    /\ \A l \in Present(style, areas) :
          paint[l] = IF dark THEN "dark"
                     ELSE IF l = "poi" THEN "category" ELSE "style"
    /\ selected \in {None, filter}
=============================================================================
