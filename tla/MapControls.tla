------------------------------ MODULE MapControls ------------------------------
(***************************************************************************)
(* The compass, the scale and the place of the user: MapControls.tsx and   *)
(* useGeolocate.ts (web/src/components/map).  The control of the library   *)
(* asks the browser, follows the user and reports in events; the message   *)
(* of a failure goes away by itself.                                       *)
(***************************************************************************)
EXTENDS Integers

CONSTANTS
    Bearings,  \* directions of the map, in tenths of a degree
    Secure,    \* the page is one on which browsers tell the place
    None

BearingsAssumption ==
    /\ Bearings \subseteq Int
    /\ 0 \in Bearings
    /\ Secure \in BOOLEAN

VARIABLES
    bearing,      \* the direction of the map
    turning,      \* the map turns to the north by itself
    showCompass,
    control,      \* the control of the library (external)
    tracking,     \* the button is lit
    toast,        \* the message
    timer,        \* the message the timer will take away
    mounted

vars == <<bearing, turning, showCompass, control, tracking, toast, timer,
          mounted>>

\* It waits for a place, follows the user, or shows the place while the map is
\* elsewhere; in the last two it may have lost the place for a while.
States == {"off", "waiting", "active", "activeError", "background",
           "backgroundError"}
Lost == [c \in States |->
    CASE c = "off" -> "off"
      [] c \in {"background", "backgroundError"} -> "backgroundError"
      [] OTHER -> "activeError"]
Found == [c \in States |->
    CASE c = "off" -> "off"
      [] c \in {"background", "backgroundError"} -> "background"
      [] OTHER -> "active"]

Messages == {"refused", "failed", "insecure"}
COMPASS_MIN == 10
Abs(x) == IF x < 0 THEN -x ELSE x

Init ==
    /\ bearing = 0
    /\ turning = FALSE
    /\ showCompass = FALSE
    /\ control = "off"
    /\ tracking = FALSE
    /\ toast = None
    /\ timer = None
    /\ mounted = TRUE

\* The map turns; the compass shows from one degree on.
Rotate(b) ==
    /\ b # bearing
    /\ turning => b = 0
    /\ bearing' = b
    /\ turning' = FALSE
    /\ showCompass' = IF mounted THEN Abs(b) >= COMPASS_MIN ELSE showCompass
    /\ UNCHANGED <<control, tracking, toast, timer, mounted>>

\* The button of the compass.
CompassButton ==
    /\ mounted /\ showCompass
    /\ turning' = TRUE
    /\ UNCHANGED <<bearing, showCompass, control, tracking, toast, timer,
                   mounted>>

\* The timer starts anew with a message that is another.
setToast(m) ==
    /\ toast' = m
    /\ timer' = m

\* locate: the control does nothing on a page that is not secure.
locate ==
    /\ mounted
    /\ IF ~Secure
       THEN setToast("insecure") /\ UNCHANGED <<control, tracking>>
       ELSE /\ \/ /\ control = "off"
                  /\ control' = "waiting" /\ tracking' = TRUE
               \/ /\ control = "background"
                  /\ control' = "active" /\ tracking' = TRUE
               \/ /\ control \notin {"off", "background"}
                  /\ control' = "off" /\ tracking' = FALSE
            /\ UNCHANGED <<toast, timer>>
    /\ UNCHANGED <<bearing, turning, showCompass, mounted>>

\* The place of the user arrives, for which there is no event.
Located ==
    /\ control # Found[control]
    /\ control' = Found[control]
    /\ UNCHANGED <<bearing, turning, showCompass, tracking, toast, timer,
                   mounted>>

\* The user moves the map away from the place.
MoveAway ==
    /\ control = "active"
    /\ control' = "background"
    /\ tracking' = FALSE
    /\ UNCHANGED <<bearing, turning, showCompass, toast, timer, mounted>>

\* error: not allowed, or no place can be found for now.
LocateFails(m) ==
    /\ control # "off"
    /\ control' = IF m = "refused" THEN "off" ELSE Lost[control]
    /\ tracking' = FALSE
    /\ setToast(m)
    /\ UNCHANGED <<bearing, turning, showCompass, mounted>>

TimerFires ==
    /\ timer # None
    /\ timer' = None
    /\ toast' = None
    /\ UNCHANGED <<bearing, turning, showCompass, control, tracking, mounted>>

\* The window becomes narrow or wide: the control is removed, with the dot on
\* the map, and the other page adds one of its own.
Remount ==
    /\ control' = "off" /\ tracking' = FALSE
    /\ toast' = None /\ timer' = None
    /\ mounted' = ~mounted
    /\ showCompass' = (Abs(bearing) >= COMPASS_MIN)
    /\ UNCHANGED <<bearing, turning>>

Next ==
    \/ \E b \in Bearings : Rotate(b)
    \/ CompassButton
    \/ locate \/ Located \/ MoveAway
    \/ \E m \in {"refused", "failed"} : LocateFails(m)
    \/ TimerFires
    \/ Remount

Spec == Init /\ [][Next]_vars

--------------------------------------------------------------------------

\* Every variable has its type.
TypeOK ==
    /\ bearing \in Bearings
    /\ {turning, showCompass, tracking, mounted} \subseteq BOOLEAN
    /\ control \in States
    /\ {toast, timer} \subseteq Messages \cup {None}

\* However turns, answers of the browser and changes of the window follow one
\* another: there is a compass whenever the map is turned, the button is lit
\* only while the map looks for the user or follows, and every message has a timer of
\* its own that takes it away.
ControlsRight ==
    /\ mounted => (showCompass <=> Abs(bearing) >= COMPASS_MIN)
    /\ tracking => control \in {"waiting", "active"}
    /\ timer = toast
=============================================================================
