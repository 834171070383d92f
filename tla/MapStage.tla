------------------------------- MODULE MapStage -------------------------------
(***************************************************************************)
(* The tools of the map page: web/src/components/map/useMapTools.ts, the   *)
(* state of StageInner in MapStage.tsx and of MapShell.tsx, and the        *)
(* buttons of RoutePanel.tsx and ToolBar.tsx that change it.               *)
(*                                                                         *)
(* An action is one event of the browser: the handler it calls, the        *)
(* render and the effects that follow.  The answers of the server are      *)
(* events of their own, in any order; an aborted request has none.  How    *)
(* far the panels are open is in MobileChrome, the form of a new object    *)
(* in AddObject.                                                           *)
(***************************************************************************)
EXTENDS Integers, Sequences, FiniteSets

CONSTANTS
    Points,       \* places of the map a user clicks
    Nothing,      \* no point, no route, nothing chosen
    Named,        \* points on a symbol or a house number of the base map
    AreaLabels,   \* points on the label of a mahalla, when it is zoomed in
    OnPlaces,     \* points on an object of OnDexMap
    Outside,      \* points outside the service area
    MaxPoints,    \* bound: points of a measured line
    MaxLabels     \* bound: requests in flight for the label of one point

PointsAssumption ==
    /\ Nothing \notin Points
    /\ Named \cup AreaLabels \cup OnPlaces \cup Outside \subseteq Points
BoundsAssumption == {MaxPoints, MaxLabels} \subseteq Nat

VARIABLES
    mode,        \* the tool: idle, measure or route
    rp,          \* the ends of the route, their labels, the end set next
    points,      \* the measured line
    flight,      \* requests of pending.current that were not aborted
    labelling,   \* labelling[p]: requests for the label of p in flight
    routeRes,    \* the last route: its key and whether it is on roads
    line,        \* the line drawn on the map
    address,     \* the address shown, as the point it is of
    busy,        \* addressBusy
    selected,    \* the area selected, as the point of its label
    placeId,     \* the object shown, as its point
    add,         \* where a new object is being added
    mobile,      \* the window is narrow
    asked,       \* (observation) the last point whose address was asked
    twin         \* (observation) both ends were the same spot

info == <<address, busy, selected, placeId, asked>>
tool == <<mode, rp, points, twin>>
drawn == <<line, routeRes>>
vars == <<tool, flight, labelling, drawn, info, add, mobile>>

Modes == {"idle", "measure", "route"}
MaybePoint == Points \cup {Nothing}
Slots == {"a", "b", Nothing}

RouteState ==
    [a: MaybePoint, b: MaybePoint, labelA: MaybePoint, labelB: MaybePoint,
     slot: Slots]
EmptyRoute ==
    [a |-> Nothing, b |-> Nothing, labelA |-> Nothing, labelB |-> Nothing, slot |-> "a"]

Requests ==
    [for: {"address"}, p: Points] \cup [for: {"route"}, a: Points, b: Points]
Results == [a: Points, b: Points, onRoad: BOOLEAN]
\* Nothing is not a route: it stands for what is not there.
NothingAssumption == Nothing \notin Results

ASSUME PointsAssumption /\ BoundsAssumption /\ NothingAssumption

NoLine == [kind |-> "none"]
Lines ==
    {NoLine} \cup [kind: {"route", "preview"}, a: Points, b: Points]
             \cup [kind: {"measure"}, of: Seq(Points)]

Init ==
    /\ mode = "idle"
    /\ rp = EmptyRoute
    /\ points = <<>>
    /\ flight = {}
    /\ labelling = [p \in Points |-> 0]
    /\ routeRes = Nothing
    /\ line = NoLine
    /\ address = Nothing
    /\ busy = FALSE
    /\ selected = Nothing
    /\ placeId = Nothing
    /\ add = Nothing
    /\ mobile \in BOOLEAN
    /\ asked = Nothing
    /\ twin = FALSE

--------------------------------------------------------------------------
(* What is shown.                                                          *)

BothEnds == rp.a # Nothing /\ rp.b # Nothing
HasAny == rp.a # Nothing \/ rp.b # Nothing
Adding == add # Nothing /\ ~mobile

\* The side panel, and the sheet of a narrow window, which adds nothing.
Sheet ==
    IF placeId # Nothing THEN "place" ELSE IF mode = "route" THEN "route" ELSE "home"
Panel == IF Adding THEN "add" ELSE Sheet

\* The result shown: the last one, if its key is that of the ends.
RouteShown ==
    IF /\ routeRes # Nothing
       /\ BothEnds
       /\ routeRes.a = rp.a
       /\ routeRes.b = rp.b
    THEN routeRes ELSE Nothing

\* What the panel has under the fields: the length of a route (Result), or
\* what is still to be done (Hint), which once both ends are set is to wait.
Result == BothEnds /\ RouteShown # Nothing
Waits == BothEnds /\ RouteShown = Nothing

\* What the effect of the drawing puts on the map.
Drawing ==
    CASE mode = "route" /\ BothEnds ->
            [kind |-> "preview", a |-> rp.a, b |-> rp.b]
      [] mode # "route" /\ Len(points) >= 2 ->
            [kind |-> "measure", of |-> points]
      [] OTHER -> NoLine

--------------------------------------------------------------------------
(* The effects of a render.                                                *)

\* (mutant) abort() is not called.
AbortNothing(f) == f
\* pending.current is the only request that can be in flight.
Abort(f) == {}

\* (mutant) the route that is shown is not asked again.
RouteEffectCached(f, m, r) ==
    IF /\ m = "route"
       /\ r.a # Nothing
       /\ r.b # Nothing
       /\ ~(routeRes # Nothing /\ routeRes.a = r.a /\ routeRes.b = r.b)
    THEN Abort(f) \cup {[for |-> "route", a |-> r.a, b |-> r.b]}
    ELSE f
\* The requests in flight once the effect of the route has run, in mode m
\* with the ends r.
RouteEffect(f, m, r) ==
    IF m = "route" /\ r.a # Nothing /\ r.b # Nothing
    THEN Abort(f) \cup {[for |-> "route", a |-> r.a, b |-> r.b]}
    ELSE f

\* The effects that depend on the mode, the ends and the points.
Redraw ==
    /\ line' = Drawing'
    /\ twin' = (BothEnds' /\ (twin \/ rp'.a = rp'.b))
    /\ UNCHANGED routeRes

--------------------------------------------------------------------------
(* The ends of the route.                                                  *)

NameAt(p) == IF p \in Named THEN p ELSE Nothing

\* (mutant) the answer labels A, whatever A is by now.
SetLabelOfA(r, p) == [r EXCEPT !.labelA = p]
SetLabel(r, p) ==
    IF r.a = p THEN [r EXCEPT !.labelA = p]
    ELSE IF r.b = p THEN [r EXCEPT !.labelB = p]
    ELSE r

End(r, end, p) ==
    IF end = "a"
    THEN [r EXCEPT !.a = p, !.labelA = NameAt(p),
                   !.slot = IF r.b # Nothing THEN Nothing ELSE "b"]
    ELSE [r EXCEPT !.b = p, !.labelB = NameAt(p),
                   !.slot = IF r.a # Nothing THEN Nothing ELSE "a"]

\* labelPoint: a point outside the service area has its label at once.
Placed(r, end, p) ==
    IF p \in Outside \ Named THEN SetLabel(End(r, end, p), p)
                             ELSE End(r, end, p)

AskLabel(p) ==
    IF p \in Named \cup Outside
    THEN UNCHANGED labelling
    ELSE /\ labelling[p] < MaxLabels
         /\ labelling' = [labelling EXCEPT ![p] = @ + 1]

\* onClick in the mode of the route: with no end chosen it starts a new one.
ClickRoute(p) ==
    LET base == IF rp.slot = Nothing THEN EmptyRoute ELSE rp
        end == IF rp.slot = Nothing THEN "a" ELSE rp.slot
    IN /\ mode = "route"
       /\ ~Adding
       /\ rp' = Placed(base, end, p)
       /\ AskLabel(p)
       /\ flight' = RouteEffect(flight, mode, rp')
       /\ UNCHANGED <<mode, points, info, add, mobile>>
       /\ Redraw

\* The field of an end was clicked: the next click of the map sets it.
PickSlot(end) ==
    /\ Panel = "route"
    /\ rp' = [rp EXCEPT !.slot = end]
    /\ UNCHANGED <<mode, points, twin, flight, labelling, drawn, info, add, mobile>>

Other(slot) == CASE slot = "a" -> "b" [] slot = "b" -> "a" [] OTHER -> Nothing

SwapRoute ==
    /\ Panel = "route"
    /\ HasAny
    /\ rp' = [a |-> rp.b, b |-> rp.a, labelA |-> rp.labelB,
              labelB |-> rp.labelA, slot |-> Other(rp.slot)]
    /\ flight' = RouteEffect(flight, mode, rp')
    /\ UNCHANGED <<mode, points, labelling, info, add, mobile>>
    /\ Redraw

\* (mutant) the answer was late: nobody waits for it any more.
AnswerLabelTwice(p) ==
    /\ labelling' = [labelling EXCEPT ![p] = @ - 1]
    /\ rp' = SetLabel(rp, p)
    /\ UNCHANGED <<mode, points, twin, flight, drawn, info, add, mobile>>
\* The address of an end, or its coordinates when the request failed.
AnswerLabel(p) ==
    /\ labelling[p] > 0
    /\ labelling' = [labelling EXCEPT ![p] = @ - 1]
    /\ rp' = SetLabel(rp, p)
    /\ UNCHANGED <<mode, points, twin, flight, drawn, info, add, mobile>>

AnswerRoute(r) ==
    /\ r \in flight
    /\ r.for = "route"
    /\ flight' = flight \ {r}
    /\ line' = [kind |-> "route", a |-> r.a, b |-> r.b]
    /\ routeRes' = [a |-> r.a, b |-> r.b, onRoad |-> TRUE]
    /\ UNCHANGED <<tool, labelling, info, add, mobile>>

\* No route: the panel has the straight line, and says so.
RouteFails(r) ==
    /\ r \in flight
    /\ r.for = "route"
    /\ flight' = flight \ {r}
    /\ routeRes' = [a |-> r.a, b |-> r.b, onRoad |-> FALSE]
    /\ UNCHANGED <<tool, labelling, line, info, add, mobile>>

--------------------------------------------------------------------------
(* The modes, and the line that is measured.                               *)

Cleared ==
    /\ points' = <<>>
    /\ rp' = EmptyRoute

\* The button of the route panel or of the ruler.
Clear ==
    /\ \/ Panel = "route" /\ HasAny
       \/ mode = "measure" /\ points # <<>>
    /\ Cleared
    /\ flight' = Abort(flight)
    /\ UNCHANGED <<mode, labelling, info, add, mobile>>
    /\ Redraw

\* The ruler and the button of the route switch their mode on and off.
ChangeMode(m) ==
    /\ m # mode
    /\ mode' = m
    /\ Cleared
    /\ flight' = Abort(flight)
    /\ UNCHANGED <<labelling, info, add, mobile>>
    /\ Redraw

ClickMeasure(p) ==
    /\ mode = "measure"
    /\ ~Adding
    /\ Len(points) < MaxPoints
    /\ points' = Append(points, p)
    /\ UNCHANGED <<mode, rp, flight, labelling, info, add, mobile>>
    /\ Redraw

--------------------------------------------------------------------------
(* The address of a point, and the object that is shown.                   *)

\* (mutant) the object stays on the panel.
HandleAddressKeeps(p, waits) ==
    /\ address' = p
    /\ busy' = waits
    /\ UNCHANGED placeId
\* The address is shown instead of an object.
HandleAddress(p, waits) ==
    /\ address' = p
    /\ busy' = waits
    /\ placeId' = Nothing

\* inspectAt a named point.
InspectNamed(p, f) ==
    /\ p \in Named
    /\ selected' = Nothing
    /\ flight' = Abort(f)
    /\ HandleAddress(p, FALSE)
    /\ asked' = p

\* The label of a mahalla: a request in flight is not aborted.
InspectArea(p, f) ==
    /\ p \in AreaLabels \ Named
    /\ selected' = p
    /\ flight' = f
    /\ HandleAddress(Nothing, FALSE)
    /\ UNCHANGED asked

InspectOutside(p, f) ==
    /\ p \in Outside \ Named
    /\ selected' = Nothing
    /\ flight' = Abort(f)
    /\ HandleAddress(p, FALSE)
    /\ asked' = p

InspectAsks(p, f) ==
    /\ p \notin Named \cup Outside
    /\ selected' = Nothing
    /\ flight' = Abort(f) \cup {[for |-> "address", p |-> p]}
    /\ HandleAddress(Nothing, TRUE)
    /\ asked' = p

\* inspectAt p, with the requests f in flight.
Inspect(p, f) ==
    \/ InspectNamed(p, f)
    \/ InspectArea(p, f)
    \/ InspectOutside(p, f)
    \/ InspectAsks(p, f)

\* A click on an object is SelectPlace.
ClickIdle(p) ==
    /\ mode = "idle"
    /\ ~Adding
    /\ p \notin OnPlaces
    /\ Inspect(p, flight)
    /\ UNCHANGED <<tool, labelling, drawn, add, mobile>>

\* The address, or the coordinates when the request failed.
AnswerAddress(r) ==
    /\ r \in flight
    /\ r.for = "address"
    /\ flight' = flight \ {r}
    /\ HandleAddress(r.p, FALSE)
    /\ UNCHANGED <<tool, labelling, drawn, selected, asked, add, mobile>>

\* The request of an address that is in flight is not aborted.
SelectPlace(p) ==
    /\ mode = "idle"
    /\ ~Adding
    /\ p \in OnPlaces
    /\ selected' = Nothing
    /\ address' = Nothing
    /\ busy' = FALSE
    /\ placeId' = p
    /\ UNCHANGED <<tool, flight, labelling, drawn, asked, add, mobile>>

ClosePlace ==
    /\ Panel = "place"
    /\ placeId' = Nothing
    /\ UNCHANGED <<tool, flight, labelling, drawn, address, busy, selected, asked, add, mobile>>

--------------------------------------------------------------------------
(* The menu of the right button, which a narrow window has not.            *)

\* «From here» and «To here» keep the other end in the mode of the route.
MenuRoute(end, p) ==
    /\ ~mobile
    /\ mode' = "route"
    /\ points' = IF mode = "route" THEN points ELSE <<>>
    /\ rp' = Placed(IF mode = "route" THEN rp ELSE EmptyRoute, end, p)
    /\ AskLabel(p)
    /\ flight' = RouteEffect(IF mode = "route" THEN flight ELSE Abort(flight),
                             mode', rp')
    /\ UNCHANGED <<info, add, mobile>>
    /\ Redraw

MenuWhatsHere(p) ==
    /\ ~mobile
    /\ IF mode = "idle"
       THEN /\ Inspect(p, flight)
            /\ UNCHANGED <<tool, drawn>>
       ELSE /\ Inspect(p, Abort(flight))
            /\ mode' = "idle"
            /\ Cleared
            /\ Redraw
    /\ UNCHANGED <<labelling, add, mobile>>

MenuMeasure(p) ==
    /\ ~mobile
    /\ Len(points) < MaxPoints
    /\ mode' = "measure"
    /\ points' = Append(IF mode = "measure" THEN points ELSE <<>>, p)
    /\ rp' = EmptyRoute
    /\ flight' = IF mode = "measure" THEN flight ELSE Abort(flight)
    /\ UNCHANGED <<labelling, info, add, mobile>>
    /\ Redraw

MenuAddObject(p) ==
    /\ ~mobile
    /\ IF mode = "idle"
       THEN UNCHANGED <<tool, drawn, flight>>
       ELSE /\ mode' = "idle"
            /\ Cleared
            /\ flight' = Abort(flight)
            /\ Redraw
    /\ placeId' = Nothing
    /\ add' = p
    /\ UNCHANGED <<labelling, address, busy, selected, asked, mobile>>

--------------------------------------------------------------------------
(* A new object, and the window.                                           *)

\* A click while an object is added moves its mark; along a line AddObject
\* has what it does.
Pick(p) ==
    /\ Adding
    /\ add' = p
    /\ UNCHANGED <<tool, flight, labelling, drawn, info, mobile>>

\* The mark can be dragged as well.
DragMark(p) == Pick(p)

CloseAdd ==
    /\ Panel = "add"
    /\ add' = Nothing
    /\ UNCHANGED <<tool, flight, labelling, drawn, info, mobile>>

Resize ==
    /\ mobile' = ~mobile
    /\ UNCHANGED <<tool, flight, labelling, drawn, info, add>>

Click(p) == ClickRoute(p) \/ ClickMeasure(p) \/ ClickIdle(p) \/ Pick(p)
Answer ==
    \/ \E p \in Points : AnswerLabel(p)
    \/ \E r \in flight : AnswerRoute(r) \/ RouteFails(r) \/ AnswerAddress(r)
Panels ==
    \/ \E end \in {"a", "b"} : PickSlot(end)
    \/ SwapRoute
    \/ Clear
    \/ \E m \in Modes : ChangeMode(m)
    \/ ClosePlace
    \/ \E p \in Points : DragMark(p)
    \/ CloseAdd
Menu(p) ==
    \/ \E end \in {"a", "b"} : MenuRoute(end, p)
    \/ MenuWhatsHere(p)
    \/ MenuMeasure(p)
    \/ MenuAddObject(p)

Next ==
    \/ \E p \in Points : Click(p) \/ SelectPlace(p) \/ Menu(p)
    \/ Answer
    \/ Panels
    \/ Resize

Spec == Init /\ [][Next]_vars

--------------------------------------------------------------------------

\* Every variable has its type.
TypeOK ==
    /\ mode \in Modes
    /\ rp \in RouteState
    /\ points \in Seq(Points)
    /\ flight \subseteq Requests
    /\ labelling \in [Points -> Nat]
    /\ routeRes \in Results \cup {Nothing}
    /\ line \in Lines
    /\ {address, selected, placeId, add, asked} \subseteq MaybePoint
    /\ {busy, mobile, twin} \subseteq BOOLEAN

\* The label of an end is that of the point it is at, whatever order the
\* answers come in and however the ends were swapped and replaced meanwhile;
\* an end without a label still waits for an answer.  (With both ends at the
\* same spot both answers go to A.)
LabelsRight ==
    /\ rp.labelA \in {Nothing, rp.a}
    /\ rp.labelB \in {Nothing, rp.b}
    /\ ~twin =>
        \A end \in {<<rp.a, rp.labelA>>, <<rp.b, rp.labelB>>} :
            end[1] # Nothing /\ end[2] = Nothing => labelling[end[1]] > 0

\* A tool that was left leaves nothing on the map, and no answer to it comes
\* back later: without a tool no line is drawn, no point is kept and no route
\* is in flight, and the ruler never has a route.
NothingLeftBehind ==
    /\ mode = "idle" => line = NoLine /\ points = <<>>
    /\ mode # "route" =>
        /\ ~HasAny
        /\ line.kind \in {"none", "measure"}
        /\ \A r \in flight : r.for # "route"
    /\ mode = "route" => points = <<>> /\ line.kind # "measure"

\* A route the panel gives along roads is the line drawn on the map, or it is
\* being asked again; and the panel says "Marshrut hisoblanmoqda..." (a route
\* is being computed) only while the route of these ends is in flight: the
\* wait always has an end.
RouteDrawn ==
    LET asking == [for |-> "route", a |-> rp.a, b |-> rp.b] \in flight
    IN  /\ Result /\ RouteShown.onRoad =>
              asking \/ line = [kind |-> "route", a |-> rp.a, b |-> rp.b]
        /\ Waits => asking

\* An address never shows with an object, and is of the last point whose
\* address was asked: the answer to an earlier click never replaces that to
\* a later one.
AddressRight ==
    /\ placeId # Nothing => address = Nothing /\ ~busy
    /\ busy => address = Nothing
    /\ address # Nothing => address = asked

\* useMapTools.ts:228 says that an old result is not shown once the ends have
\* changed.  The line of a route is of the ends that are set.
SolidLineIsRoute ==
    line.kind = "route" => line.a = rp.a /\ line.b = rp.b
=============================================================================
