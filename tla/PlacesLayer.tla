------------------------------ MODULE PlacesLayer ------------------------------
(***************************************************************************)
(* The objects of OnDexMap on the map: usePlacesLayer.ts, the categories   *)
(* that narrow them (categories.tsx, CategoryGrid.tsx, CategoryChips.tsx)  *)
(* and the panel of one of them (PlaceDetails.tsx), all in                 *)
(* web/src/components.  The objects of a view are asked for 300 ms after   *)
(* the map has stopped; a request is aborted by the next one.              *)
(***************************************************************************)
EXTENDS Naturals

CONSTANTS
    Views,       \* what the map can show: a box and a scale
    Far,         \* the views from too far away for objects (DATA_MIN_ZOOM)
    Categories,
    Places,
    Lines,       \* the objects that are lines
    ViewOfLine,  \* the view that shows the whole of a line
    Photos,      \* how many photos an object has
    None

ViewsAssumption ==
    /\ Far \subseteq Views
    /\ Lines \subseteq Places
    /\ ViewOfLine \in [Lines -> Views]
    /\ Photos \in [Places -> Nat]
    /\ None \notin Views \cup Categories \cup Places \cup [id: Places, ok: BOOLEAN]

VARIABLES
    ready,      \* the layers are on the map
    view,       \* what the map shows
    moving,
    timer,      \* the moveend is to be answered
    asked,      \* the view whose objects are on their way
    data,       \* the view whose objects the map has, or None
    category,   \* the category that is chosen
    filter,     \* the category the layers are narrowed to
    place,      \* the object of the panel
    detail,     \* the object whose details are on their way
    loaded,     \* the details that came last
    zoom,       \* the photo that is enlarged
    lost        \* (observation) the last request for objects failed

layer == <<ready, timer, asked, data, filter, lost>>
panel == <<place, detail, loaded, zoom>>
vars == <<layer, view, moving, category, panel>>

Init ==
    /\ ready = FALSE
    /\ view \in Views
    /\ moving = FALSE
    /\ timer = FALSE
    /\ asked = None
    /\ data = None
    /\ category = None
    /\ filter = None
    /\ place = None
    /\ detail = None
    /\ loaded = None
    /\ zoom = None
    /\ lost = FALSE

\* Only the details of the object of the panel are shown.
Shown == place # None /\ loaded # None /\ loaded.id = place /\ loaded.ok

\* An enlarged photo covers the page.  The state of it outlives a failure of
\* the details, and then nothing covers the page.
Covered == Shown /\ zoom # None

--------------------------------------------------------------------------
(* The objects of the view.                                                *)

\* load: from far away there is nothing to ask, unless a category is chosen.
load(v, cat) ==
    IF v \in Far /\ cat = None
    THEN data' = None /\ lost' = FALSE /\ asked' = None
    ELSE asked' = v /\ lost' = FALSE /\ UNCHANGED data

\* The layers are added, narrowed and filled once the map is ready.
Ready ==
    /\ ~ready
    /\ ready' = TRUE
    /\ filter' = category
    /\ load(view, category)
    /\ UNCHANGED <<view, moving, timer, category, panel>>

\* The button of a category; that of the one that is chosen takes it back.
\* The effects put the filter on the layers and ask at once, for the timer
\* of an earlier movement goes with the old effect.
setActive(key) ==
    /\ ~Covered
    /\ category' = IF key = category THEN None ELSE key
    /\ IF ready
       THEN /\ filter' = category'
            /\ timer' = FALSE
            /\ load(view, category')
       ELSE UNCHANGED <<filter, timer, asked, data, lost>>
    /\ UNCHANGED <<ready, view, moving, panel>>

Move(v) ==
    /\ v # view
    /\ ~Covered
    /\ view' = v
    /\ moving' = TRUE
    /\ UNCHANGED <<layer, category, panel>>

\* moveend: schedule starts the timer again.
MoveEnds ==
    /\ moving
    /\ moving' = FALSE
    /\ timer' = ready
    /\ UNCHANGED <<ready, asked, data, filter, lost, view, category, panel>>

TimerFires ==
    /\ timer
    /\ timer' = FALSE
    /\ load(view, category)
    /\ UNCHANGED <<ready, filter, view, moving, category, panel>>

ObjectsArrive ==
    /\ asked # None
    /\ data' = asked
    /\ asked' = None
    /\ UNCHANGED <<ready, timer, filter, lost, view, moving, category, panel>>

\* The objects of before stay.
ObjectsFail ==
    /\ asked # None
    /\ asked' = None
    /\ lost' = TRUE
    /\ UNCHANGED <<ready, timer, data, filter, view, moving, category, panel>>

--------------------------------------------------------------------------
(* The panel of an object.                                                 *)

\* (mutant) the details that came stay those of the panel.
selectPlaceOnce(p) ==
    /\ ready /\ ~Covered /\ p # place
    /\ place' = p
    /\ detail' = IF loaded = None THEN p ELSE detail
    /\ UNCHANGED <<layer, view, moving, category, loaded, zoom>>
\* A click on an object: the effect of PlaceDetails aborts the request for
\* another.
selectPlace(p) ==
    /\ ready /\ ~Covered /\ p # place
    /\ place' = p
    /\ detail' = p
    /\ UNCHANGED <<layer, view, moving, category, loaded, zoom>>

\* The panel is closed, by its button or because something else shows there.
ClosePanel ==
    /\ place # None
    /\ place' = None
    /\ detail' = None
    /\ loaded' = None
    /\ zoom' = None
    /\ UNCHANGED <<layer, view, moving, category>>

\* The details; the map shows the whole of a line.
DetailArrives ==
    /\ detail # None
    /\ detail' = None
    /\ loaded' = [id |-> detail, ok |-> TRUE]
    /\ IF detail = place /\ detail \in Lines
       THEN view' = ViewOfLine[detail] /\ moving' = TRUE
       ELSE UNCHANGED <<view, moving>>
    /\ UNCHANGED <<layer, category, place, zoom>>

DetailFails ==
    /\ detail # None
    /\ detail' = None
    /\ loaded' = [id |-> detail, ok |-> FALSE]
    /\ UNCHANGED <<layer, view, moving, category, place, zoom>>

setZoom(i) ==
    /\ Shown /\ ~Covered
    /\ i < Photos[place]
    /\ zoom' = i
    /\ UNCHANGED <<layer, view, moving, category, place, detail, loaded>>

\* The button, a click beside the photo, or Escape.
Unzoom ==
    /\ zoom # None
    /\ zoom' = None
    /\ UNCHANGED <<layer, view, moving, category, place, detail, loaded>>

Objects ==
    \/ Ready
    \/ \E key \in Categories : setActive(key)
    \/ \E v \in Views : Move(v)
    \/ MoveEnds \/ TimerFires \/ ObjectsArrive \/ ObjectsFail
Details ==
    \/ \E p \in Places : selectPlace(p)
    \/ ClosePanel
    \/ DetailArrives \/ DetailFails
    \/ place # None /\ \E i \in 0..Photos[place] : setZoom(i)
    \/ Unzoom

Next == Objects \/ Details

Spec == Init /\ [][Next]_vars

--------------------------------------------------------------------------

\* Every variable has its type.
TypeOK ==
    /\ {ready, moving, timer, lost} \subseteq BOOLEAN
    /\ view \in Views
    /\ {asked, data} \subseteq Views \cup {None}
    /\ {category, filter} \subseteq Categories \cup {None}
    /\ {place, detail} \subseteq Places \cup {None}
    /\ loaded \in [id: Places, ok: BOOLEAN] \cup {None}
    /\ zoom \in Nat \cup {None}

\* When everything asked for has come, the map has the objects of what it
\* shows, narrowed to the category that is chosen, however movements, choices
\* and late answers followed one another; from far away it has none.
ObjectsRight ==
    /\ ready => filter = category
    /\ ready /\ ~moving /\ ~timer /\ asked = None /\ ~lost =>
          data = IF view \in Far /\ category = None THEN None ELSE view

\* The panel never waits for ever and never shows one object's details as
\* those of another: it has those of its object or they are on their way.
DetailsRight ==
    /\ place = None => detail = None /\ zoom = None
    /\ place # None =>
          detail = place \/ (loaded # None /\ loaded.id = place)

\* PlaceDetails.tsx:140 makes one button for each photo of the object: an
\* enlarged photo is one it has.
ZoomedPhotoExists == Covered => zoom < Photos[place]
=============================================================================
