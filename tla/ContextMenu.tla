------------------------------ MODULE ContextMenu ------------------------------
(***************************************************************************)
(* The menu of the right button: web/src/components/map/                   *)
(* MapContextMenu.tsx.  Lengths are in units of 8 pixels, in which the     *)
(* sizes of the code are whole numbers.  Copying the coordinates takes a   *)
(* while, and its note a timer, while the menu may be closed and opened    *)
(* for another point.                                                      *)
(***************************************************************************)
EXTENDS Integers

CONSTANTS
    Sizes,      \* the sizes of the canvas: <<width, height>>
    Clicks(_),  \* points of a canvas of that size that are clicked
    MaxCopies,  \* bound: copies and stray timers under way
    None

SizesAssumption ==
    /\ Sizes \subseteq Nat \X Nat
    /\ \A s \in Sizes : Clicks(s) \subseteq (0..s[1]) \X (0..s[2])
    /\ MaxCopies \in Nat
    /\ None \notin [at: Nat \X Nat, h: Nat, point: Nat \X Nat]

VARIABLES
    size,     \* the canvas
    hasAdd,   \* the server takes objects: the menu has an entry for them
    down,     \* a right button that is held: nothing, still or moved
    menu,     \* the menu on the screen, or None
    moving,   \* the map moves by itself
    copies,   \* copies to the clipboard that are under way
    note,     \* the answer to a copy is in its entry
    timer,    \* the timer that closes the menu and can be stopped
    strays,   \* timers nothing can stop any more
    focus     \* the entry that has the focus, 0 for the menu itself

vars == <<size, hasAdd, down, menu, moving, copies, note, timer, strays,
          focus>>

MENU_W == 36
EDGE == 1
menuHeight == IF hasAdd THEN 39 ELSE 33
Items == (IF hasAdd THEN 6 ELSE 5)

\* place: to the right and below, or beyond the point where that is too near
\* to the edge.
place(p) ==
    LET Side(x, len, room) ==
            LET q == IF x + len + EDGE > room THEN x - len ELSE x
            IN  IF q < EDGE THEN EDGE ELSE q
    IN  [at |-> <<Side(p[1], MENU_W, size[1]),
                  Side(p[2], menuHeight, size[2])>>,
         h |-> menuHeight, point |-> p]

Init ==
    /\ size \in Sizes
    /\ hasAdd \in BOOLEAN
    /\ down = "none"
    /\ menu = None
    /\ moving = FALSE
    /\ copies = 0
    /\ note = FALSE
    /\ timer = FALSE
    /\ strays = 0
    /\ focus = 0

--------------------------------------------------------------------------

\* close: the timer the component knows is stopped.
close ==
    /\ menu' = None
    /\ note' = FALSE
    /\ timer' = FALSE
    /\ focus' = 0

\* The right button goes down, outside the menu: an open one is closed.
RightDown ==
    /\ down = "none"
    /\ down' = "still"
    /\ close
    /\ UNCHANGED <<size, hasAdd, moving, copies, strays>>

\* A drag with the right button turns the map.
RightDrag ==
    /\ down = "still"
    /\ down' = "moved"
    /\ moving' = TRUE
    /\ UNCHANGED <<size, hasAdd, menu, copies, note, timer, strays,
                   focus>>

\* contextmenu, which the browser sends after a drag too.
onContext(p) ==
    /\ down # "none"
    /\ down' = "none"
    /\ IF down = "moved"
       THEN UNCHANGED <<menu, note, timer, focus>>
       ELSE /\ menu' = place(p)
            /\ note' = FALSE
            /\ timer' = FALSE
            /\ focus' = 0
    /\ UNCHANGED <<size, hasAdd, moving, copies, strays>>

\* A click elsewhere, Escape, another window, or the start of a movement.
Dismiss ==
    /\ menu # None
    /\ close
    /\ \/ UNCHANGED moving
       \/ ~moving /\ moving' = TRUE
    /\ UNCHANGED <<size, hasAdd, down, copies, strays>>

MoveEnds ==
    /\ moving /\ down # "moved"
    /\ moving' = FALSE
    /\ UNCHANGED <<size, hasAdd, down, menu, copies, note, timer, strays,
                   focus>>

Resize(s) ==
    /\ s # size
    /\ size' = s
    /\ close
    /\ UNCHANGED <<hasAdd, down, moving, copies, strays>>

\* The server tells that it takes objects: an open menu grows where it is.
MetaArrives ==
    /\ ~hasAdd
    /\ hasAdd' = TRUE
    /\ UNCHANGED <<size, down, menu, moving, copies, note, timer, strays,
                   focus>>

\* run: an entry is called with the point of the menu, and the menu closes.
run(i) ==
    /\ menu # None /\ i < Items
    /\ close
    /\ UNCHANGED <<size, hasAdd, down, moving, copies, strays>>

\* The last entry.
copy ==
    /\ menu # None
    /\ copies + strays < MaxCopies
    /\ copies' = copies + 1
    /\ UNCHANGED <<size, hasAdd, down, menu, moving, note, timer, strays,
                   focus>>

\* The copy has succeeded or was refused.  The timer of another copy is
\* forgotten, not stopped.
CopyEnds ==
    /\ copies > 0
    /\ copies' = copies - 1
    /\ note' = TRUE
    /\ timer' = TRUE
    /\ strays' = strays + (IF timer THEN 1 ELSE 0)
    /\ UNCHANGED <<size, hasAdd, down, menu, moving, focus>>

\* 1100 ms after the copy.
TimerFires ==
    /\ \/ timer /\ UNCHANGED strays
       \/ strays > 0 /\ strays' = strays - 1
    /\ close
    /\ UNCHANGED <<size, hasAdd, down, moving, copies>>

\* (mutant) down does not come back to the first entry.
onKeyDownPast ==
    /\ menu # None
    /\ focus' \in {focus + 1, IF focus <= 1 THEN Items ELSE focus - 1, 1, Items}
    /\ UNCHANGED <<size, hasAdd, down, menu, moving, copies, note, timer,
                   strays>>
\* Down, up, Home and End among the entries.
onKeyDown ==
    /\ menu # None
    /\ focus' \in {(focus % Items) + 1,
                   IF focus <= 1 THEN Items ELSE focus - 1, 1, Items}
    /\ UNCHANGED <<size, hasAdd, down, menu, moving, copies, note, timer,
                   strays>>

Next ==
    \/ RightDown \/ RightDrag
    \/ \E p \in Clicks(size) : onContext(p)
    \/ Dismiss \/ MoveEnds
    \/ \E s \in Sizes : Resize(s)
    \/ MetaArrives
    \/ \E i \in 1..5 : run(i)
    \/ copy \/ CopyEnds \/ TimerFires
    \/ onKeyDown

Spec == Init /\ [][Next]_vars

--------------------------------------------------------------------------

\* Every variable has its type.
TypeOK ==
    /\ size \in Sizes
    /\ {hasAdd, moving, note, timer} \subseteq BOOLEAN
    /\ down \in {"none", "still", "moved"}
    /\ menu \in [at: Nat \X Nat, h: {33, 39}, point: Nat \X Nat] \cup {None}
    /\ copies \in 0..MaxCopies
    /\ strays \in Nat
    /\ focus \in 0..6

\* The menu, with the height h, leaves the point free.
Beside(h) ==
    LET at == menu.at  p == menu.point IN
    \/ at[1] >= p[1] \/ at[1] + MENU_W <= p[1]
    \/ at[2] >= p[2] \/ at[2] + h <= p[2]

\* Wherever the click is: along a side with room for the menu before and
\* behind a point the menu does not leave the canvas, and if there is such a
\* side it leaves the point free, at the height it was opened with and
\* whatever the window has become since.
MenuInside ==
    LET wide == size[1] >= 2 * (MENU_W + EDGE) - 1
        high == size[2] >= 2 * (menu.h + EDGE) - 1
    IN  menu # None =>
            /\ wide => menu.at[1] + MENU_W <= size[1]
            /\ high => menu.at[2] + menu.h <= size[2]
            /\ wide \/ high => Beside(menu.h)
=============================================================================
