-------------------------------- MODULE MapIcons --------------------------------
(***************************************************************************)
(* The symbols of the map: the handlers of styleimagemissing in            *)
(* MapProvider.tsx and usePlacesLayer.ts with poiIcons.ts, kindUi.tsx and  *)
(* markerBadge.ts (web/src/components).  The map asks for an image it has  *)
(* not got, again and again until it has it; pictures are loaded one by    *)
(* one and shared by the objects and the symbols of the base map.          *)
(***************************************************************************)
EXTENDS Naturals

CONSTANTS
    Ids,         \* names of images the style uses
    Pictures,    \* files of pins
    PictureOf,   \* the picture of an image, or None
    MaxWaiting,  \* bound: times an image is asked for before it is there
    None

PicturesAssumption ==
    /\ PictureOf \in [Ids -> Pictures \cup {None}]
    /\ None \notin Pictures
    /\ MaxWaiting \in Nat

VARIABLES
    image,      \* what the map has for a name: nothing, a pin or a badge
    pinCache,   \* the state of the promise of a picture
    waiting,    \* callbacks that wait for the picture of an image
    added,      \* (observation) how often an image was added
    fetched     \* (observation) how often a picture was fetched

vars == <<image, pinCache, waiting, added, fetched>>

Init ==
    /\ image = [i \in Ids |-> "none"]
    /\ pinCache = [s \in Pictures |-> "none"]
    /\ waiting = [i \in Ids |-> 0]
    /\ added = [i \in Ids |-> 0]
    /\ fetched = [s \in Pictures |-> 0]

addImage(i, what) ==
    /\ image' = [image EXCEPT ![i] = what]
    /\ added' = [added EXCEPT ![i] = @ + 1]

\* The picture is fetched the first time it is asked for.
loadPngPin(s) ==
    /\ pinCache' = [pinCache EXCEPT ![s] = IF @ = "none" THEN "loading" ELSE @]
    /\ fetched' = [fetched EXCEPT ![s] = IF pinCache[s] = "none" THEN @ + 1 ELSE @]

\* An image without a picture is drawn at once.
DrawBadge(i) ==
    /\ PictureOf[i] = None
    /\ addImage(i, "badge")
    /\ UNCHANGED <<pinCache, waiting, fetched>>

AwaitPin(i) ==
    /\ PictureOf[i] # None
    /\ waiting[i] < MaxWaiting
    /\ loadPngPin(PictureOf[i])
    /\ waiting' = [waiting EXCEPT ![i] = @ + 1]
    /\ UNCHANGED <<image, added>>

\* styleimagemissing.
onMissing(i) ==
    /\ image[i] = "none"
    /\ DrawBadge(i) \/ AwaitPin(i)

PictureLoads(s) ==
    /\ pinCache[s] = "loading"
    /\ \E result \in {"loaded", "failed"} :
          pinCache' = [pinCache EXCEPT ![s] = result]
    /\ UNCHANGED <<image, waiting, added, fetched>>

\* A callback: the image is a pin, or a badge when there is no picture, unless
\* an earlier callback has added it.
PinSettles(i) ==
    /\ waiting[i] > 0
    /\ pinCache[PictureOf[i]] \in {"loaded", "failed"}
    /\ waiting' = [waiting EXCEPT ![i] = @ - 1]
    /\ IF image[i] # "none"
       THEN UNCHANGED <<image, added>>
       ELSE addImage(i, IF pinCache[PictureOf[i]] = "loaded"
                        THEN "pin" ELSE "badge")
    /\ UNCHANGED <<pinCache, fetched>>

Next ==
    \/ \E i \in Ids : onMissing(i) \/ PinSettles(i)
    \/ \E s \in Pictures : PictureLoads(s)

Spec == Init /\ [][Next]_vars

--------------------------------------------------------------------------

\* Every variable has its type.
TypeOK ==
    /\ image \in [Ids -> {"none", "pin", "badge"}]
    /\ pinCache \in [Pictures -> {"none", "loading", "loaded", "failed"}]
    /\ waiting \in [Ids -> 0..MaxWaiting]
    /\ added \in [Ids -> Nat]
    /\ fetched \in [Pictures -> Nat]

\* However often the map asks meanwhile: no image is added twice (the map
\* refuses that with an error), no picture is fetched twice, and two images of
\* one picture never differ.
IconsRight ==
    /\ \A i \in Ids : added[i] <= 1
    /\ \A s \in Pictures : fetched[s] <= 1
    /\ \A i, j \in Ids :
          /\ PictureOf[i] # None /\ PictureOf[i] = PictureOf[j]
          /\ "none" \notin {image[i], image[j]}
          => image[i] = image[j]
=============================================================================
