----------------------------- MODULE MobileChrome -----------------------------
(***************************************************************************)
(* The page on a narrow window: the sheet at the bottom that is dragged or *)
(* jumps between three heights, and the buttons around it.                 *)
(* web/src/components/mobile/MobileChrome.tsx, with what MapStage.tsx      *)
(* makes of its calls.  Lengths are in pixels.  The window may be turned,  *)
(* a second finger may come down, and everything else of the page goes on  *)
(* while the handle is held.                                               *)
(***************************************************************************)
EXTENDS Integers

CONSTANTS
    Heights,  \* heights of the window
    Fingers,  \* where a finger can be
    None

HeightsAssumption ==
    /\ Heights \subseteq Nat
    /\ Fingers \subseteq Int
    /\ None \notin Int \cup [y: Fingers, h: Int, moved: BOOLEAN]

VARIABLES
    vh,     \* the height of the window
    sheet,  \* the state of the sheet
    dragH,  \* its height while it is dragged
    drag,   \* the finger that holds the handle
    mode    \* the mode of the map: idle, route or measure

vars == <<vh, sheet, dragH, drag, mode>>

PEEK_PX == 156
FULL_GAP_PX == 64
SheetState == {"peek", "half", "full"}
\* Math.round(vh * 0.5) and the other heights.
heights(v) == [s \in SheetState |->
    CASE s = "peek" -> PEEK_PX
      [] s = "half" -> (v + 1) \div 2
      [] s = "full" -> v - FULL_GAP_PX]
h == IF dragH # None THEN dragH ELSE heights(vh)[sheet]

Abs(x) == IF x < 0 THEN -x ELSE x
Rank == [s \in SheetState |->
            CASE s = "peek" -> 1 [] s = "half" -> 2 [] s = "full" -> 3]
\* The first of the states nearest to a height.
nearest(px) ==
    LET far(s) == Abs(px - heights(vh)[s]) IN
    CHOOSE s \in SheetState :
        \A t \in SheetState : \/ far(s) < far(t)
                              \/ far(s) = far(t) /\ Rank[s] <= Rank[t]

Init ==
    /\ vh \in Heights
    /\ sheet = "peek"
    /\ dragH = None
    /\ drag = None
    /\ mode = "idle"

--------------------------------------------------------------------------
(* The handle.                                                             *)

\* A finger comes down, be it a second one.
onDown(y) ==
    /\ drag' = [y |-> y, h |-> h, moved |-> FALSE]
    /\ UNCHANGED <<vh, sheet, dragH, mode>>

\* Between the lowest height and the highest, after more than 5 pixels.
Clamped(px) ==
    LET top == heights(vh)["full"]
        low == IF px < top THEN px ELSE top
    IN  IF low > PEEK_PX THEN low ELSE PEEK_PX

onMove(y) ==
    /\ drag # None
    /\ drag' = [drag EXCEPT !.moved = @ \/ Abs(drag.y - y) > 5]
    /\ dragH' = IF drag'.moved THEN Clamped(drag.h + drag.y - y) ELSE dragH
    /\ UNCHANGED <<vh, sheet, mode>>

Toggled == IF sheet = "peek" THEN "full" ELSE "peek"

\* The finger goes up, or the browser takes it away: the nearest state, or
\* the other one after a tap.
onUp ==
    /\ drag # None
    /\ sheet' = IF drag.moved THEN nearest(IF dragH # None THEN dragH ELSE drag.h)
                ELSE Toggled
    /\ drag' = None
    /\ dragH' = None
    /\ UNCHANGED <<vh, mode>>

\* Enter or the space bar on the handle.
HandleKey ==
    /\ sheet' = Toggled
    /\ UNCHANGED <<vh, dragH, drag, mode>>

onResize(v) ==
    /\ vh' = v
    /\ UNCHANGED <<sheet, dragH, drag, mode>>

--------------------------------------------------------------------------
(* The buttons and the calls of the page.                                  *)

MenuButton ==
    /\ sheet' = IF sheet = "full" THEN "peek" ELSE "full"
    /\ UNCHANGED <<vh, dragH, drag, mode>>

\* changeMode of MapStage: the map must be seen to choose the ends of a route.
changeMode(m) ==
    /\ mode' = m
    /\ sheet' = IF m = "route" THEN "half" ELSE "peek"
    /\ UNCHANGED <<vh, dragH, drag>>

\* The button of the route: above the sheet unless it is full, and in the
\* header of the panel of the route.
onRoute ==
    /\ sheet # "full" \/ mode = "route"
    /\ changeMode(IF mode = "route" THEN "idle" ELSE "route")

\* The ruler beside the search field, which the panel of the route replaces.
RulerButton ==
    /\ mode # "route"
    /\ changeMode(IF mode = "measure" THEN "idle" ELSE "measure")

\* The search field gets the focus; a result is chosen.
FocusSearch ==
    /\ mode # "route"
    /\ sheet' = "full"
    /\ UNCHANGED <<vh, dragH, drag, mode>>
PickResult ==
    /\ mode # "route"
    /\ sheet' = "peek"
    /\ UNCHANGED <<vh, dragH, drag, mode>>

\* An object of the map is chosen.
SelectPlace ==
    /\ mode = "idle"
    /\ sheet' = "half"
    /\ UNCHANGED <<vh, dragH, drag, mode>>

Next ==
    \/ \E y \in Fingers : onDown(y) \/ onMove(y)
    \/ onUp \/ HandleKey
    \/ \E v \in Heights : onResize(v)
    \/ MenuButton \/ onRoute \/ RulerButton
    \/ FocusSearch \/ PickResult \/ SelectPlace

Spec == Init /\ [][Next]_vars

\* The buttons of the scale show above the lowest sheet only.
ZoomShown == sheet = "peek"

--------------------------------------------------------------------------

\* Every variable has its type.
TypeOK ==
    /\ vh \in Heights
    /\ sheet \in SheetState
    /\ dragH \in Int \cup {None}
    /\ drag \in [y: Fingers, h: Int, moved: BOOLEAN] \cup {None}
    /\ mode \in {"idle", "route", "measure"}

\* However fingers, turns of the window and calls of the page follow one
\* another: once no finger holds the handle the sheet has the height of its
\* state, no height of a drag before remains, and the handle is on the screen.
SheetSettles ==
    /\ drag = None => dragH = None
    /\ drag = None /\ vh - FULL_GAP_PX >= PEEK_PX => h <= vh - FULL_GAP_PX
=============================================================================
