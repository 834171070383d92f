------------------------------ MODULE AddObject -------------------------------
(***************************************************************************)
(* The form of a new object: web/src/components/places/AddObjectPanel.tsx, *)
(* the line drawn for it (useAddLine.ts, useAddMarker.ts, extendLine of    *)
(* lib/geo.ts) and the state of StageInner that belongs to it.             *)
(*                                                                         *)
(* An action is one event of the browser with the render that follows.     *)
(* The photos of one choice of files are prepared one after the other,     *)
(* those of two choices together.  Places are points of one street, and    *)
(* the fields of the form are right or not.  What a click on the map does  *)
(* outside the form is in MapStage.                                        *)
(***************************************************************************)
EXTENDS Integers, Sequences, FiniteSets, SequencesExt

CONSTANTS
    PointKinds, LineKinds,   \* the kinds of the server, by shape
    Rule,                    \* Rule[k]: min_m, max_m and max_points of k
    MaxPhotos,               \* max_photos of the server
    None,
    MaxPlace,                \* bound: the end of the street
    ClickAt,                 \* bound: places that are clicked
    DragTo,                  \* bound: places a vertex is dragged to
    MaxIds,                  \* bound: photos prepared
    MaxJobs,                 \* bound: choices of files being prepared
    MaxOpened                \* bound: times the panel is opened

KindsAssumption ==
    /\ PointKinds \cap LineKinds = {}
    /\ {None, "list", "done"} \cap (PointKinds \cup LineKinds) = {}
RuleAssumption ==
    \A k \in LineKinds : /\ {Rule[k].min_m, Rule[k].max_m} \subseteq Nat
                         /\ Rule[k].max_points \in Nat \ {0, 1}
BoundsAssumption ==
    /\ {MaxPhotos, MaxPlace, MaxIds, MaxJobs, MaxOpened} \subseteq Nat
    /\ ClickAt \cup DragTo \subseteq 0 .. MaxPlace

VARIABLES
    add,        \* an object is being added (where its mark is: MapStage)
    mobile,     \* a narrow window has no panel
    addLine,    \* the line being drawn
    step,       \* list, done or the kind whose form is shown
    values,     \* the fields of the form: blank or right
    photos,     \* the photos on the form, by id
    nextId,
    jobs,       \* addFiles in progress: of which panel, files left, the next
    urls,       \* photos with an object URL
    flight,     \* the submission whose answer is awaited, None otherwise
    opened,     \* (observation) panels mounted
    leaked,     \* (observation) photos prepared after their panel was closed
    dragged,    \* (observation) a point of the line was moved
    thanked     \* (observation) the submission that was thanked for was stored

mark == <<add, mobile>>
form == <<values, photos, nextId, jobs, urls>>
seen == <<opened, leaked, dragged, thanked>>
vars == <<mark, addLine, step, form, flight, seen>>

Kinds == PointKinds \cup LineKinds
Places == 0 .. MaxPlace
Ids == 1 .. MaxIds
Steps == {"list", "done"} \cup Kinds
Jobs == [panel: 1 .. MaxOpened, no: 1 .. MaxJobs, left: 1 .. MaxIds]
\* What is sent: whether its place obeys the rule, and the server has it.
Submissions == [kind: Kinds, legal: BOOLEAN, stored: BOOLEAN]

Init ==
    /\ add = FALSE
    /\ mobile = FALSE
    /\ addLine = <<>>
    /\ step = "list"
    /\ values = "blank"
    /\ photos = {}
    /\ nextId = 1
    /\ jobs = {}
    /\ urls = {}
    /\ flight = None
    /\ opened = 0
    /\ leaked = {}
    /\ dragged = FALSE
    /\ thanked = TRUE

--------------------------------------------------------------------------
(* Lines.                                                                  *)

metersBetween(a, b) == IF a < b THEN b - a ELSE a - b

\* The metres of the way from a to b, by their near end; those of a line, with
\* the point each leads to.  Counting them is the sum of the stretches.
Way(a, b) == IF a < b THEN a .. b - 1 ELSE b .. a - 1
Metres(l) == {m \in (2 .. Len(l)) \X Places : m[2] \in Way(l[m[1] - 1], l[m[1]])}
pathLengthMeters(l) == Cardinality(Metres(l))

\* The point of the way from last to p that is d away from last.
Toward(last, p, d) == IF p > last THEN last + d ELSE last - d

\* (mutant) the room is that of the last stretch only.
extendLineByStretch(prev, p, rule) ==
    IF Len(prev) >= rule.max_points THEN prev
    ELSE IF prev = <<>> \/ metersBetween(Last(prev), p) <= rule.max_m
    THEN Append(prev, p)
    ELSE Append(prev, Toward(Last(prev), p, rule.max_m - 1))
\* A click beyond the longest line stops the line one step of 5 cm before it.
extendLine(prev, p, rule) ==
    LET room == rule.max_m - pathLengthMeters(prev)
        dist == metersBetween(Last(prev), p)
    IN IF Len(prev) >= rule.max_points THEN prev
       ELSE IF prev = <<>> THEN <<p>>
       ELSE IF dist <= room THEN Append(prev, p)
       ELSE IF room - 1 <= 1 \/ dist = 0 THEN prev
       ELSE Append(prev, Toward(Last(prev), p, room - 1))

lineProblem(l, k) ==
    \/ Len(l) < 2
    \/ Len(l) > Rule[k].max_points
    \/ pathLengthMeters(l) < Rule[k].min_m
    \/ pathLengthMeters(l) > Rule[k].max_m

\* (observation) A line the server accepts.
Legal(l, rule) ==
    /\ Len(l) \in 2 .. rule.max_points
    /\ pathLengthMeters(l) \in rule.min_m .. rule.max_m

--------------------------------------------------------------------------
(* The panel.                                                              *)

Mounted == add /\ ~mobile
OnForm == Mounted /\ step \in Kinds
\* addShape follows the kind of the form.
DrawingLine == OnForm /\ step \in LineKinds

\* The files of the panel being prepared: one of every choice.
Preparing == {j \in jobs : j.panel = opened}

findProblem == values # "right" \/ (step \in LineKinds /\ lineProblem(addLine, step))
canSend == OnForm /\ ~findProblem /\ flight = None /\ Preparing = {}

\* The fields, and the photos with their URLs.
reset ==
    /\ values' = "blank"
    /\ photos' = {}
    /\ urls' = urls \ photos

\* The effect of a panel that is closed: the submission is aborted, and the
\* URLs of the photos are revoked.
Unmount ==
    /\ step' = "list"
    /\ reset
    /\ flight' = None

Mount == opened < MaxOpened /\ opened' = opened + 1

\* «Add an object» of the menu, which an open panel does not notice.
MenuAddObject ==
    /\ ~mobile
    /\ add' = TRUE
    /\ addLine' = <<>>
    /\ dragged' = FALSE
    /\ IF Mounted THEN UNCHANGED opened ELSE Mount
    /\ UNCHANGED <<mobile, step, form, flight, leaked, thanked>>

onClose ==
    /\ Mounted
    /\ add' = FALSE
    /\ addLine' = <<>>
    /\ dragged' = FALSE
    /\ Unmount
    /\ UNCHANGED <<mobile, nextId, jobs, opened, leaked, thanked>>

\* The window became narrow, or wide again: the panel is another one, the
\* mark and the line are the same.
Resize ==
    /\ mobile' = ~mobile
    /\ IF Mounted
       THEN Unmount /\ UNCHANGED opened
       ELSE /\ UNCHANGED <<step, values, photos, urls, flight>>
            /\ IF add THEN Mount ELSE UNCHANGED opened
    /\ UNCHANGED <<add, addLine, nextId, jobs, leaked, dragged, thanked>>

pickKind(k) ==
    /\ Mounted
    /\ step = "list"
    /\ reset
    /\ addLine' = <<>>
    /\ dragged' = FALSE
    /\ step' = k
    /\ UNCHANGED <<mark, nextId, jobs, flight, opened, leaked, thanked>>

\* Back, and one more after a submission.
ShowList ==
    /\ Mounted
    /\ step # "list"
    /\ step' = "list"
    /\ UNCHANGED <<mark, addLine, form, flight, seen>>

SetValues(v) ==
    /\ OnForm
    /\ v # values
    /\ values' = v
    /\ UNCHANGED <<mark, addLine, step, photos, nextId, jobs, urls, flight, seen>>

--------------------------------------------------------------------------
(* The line.                                                               *)

SetLine(l) ==
    /\ DrawingLine
    /\ addLine' = l
    /\ UNCHANGED <<mark, step, form, flight, opened, leaked, thanked>>

ClickLine(p) ==
    /\ SetLine(extendLine(addLine, p, Rule[step]))
    /\ UNCHANGED dragged

\* A vertex moves wherever it is dragged.
DragVertex(i, p) == SetLine(ReplaceAt(addLine, i, p)) /\ dragged' = TRUE
DeleteVertex(i) == SetLine(RemoveAt(addLine, i)) /\ UNCHANGED dragged
Undo == addLine # <<>> /\ SetLine(Front(addLine)) /\ UNCHANGED dragged
ClearLine == addLine # <<>> /\ SetLine(<<>>) /\ dragged' = FALSE

--------------------------------------------------------------------------
(* The photos.                                                             *)

FreeNos == 1 .. MaxJobs \ {j.no : j \in jobs}
FreeNo == CHOOSE no \in FreeNos : TRUE

\* addFiles: the room counts the photos that are on the form by then, not
\* those being prepared.
addFiles(n) ==
    LET room == MaxPhotos - Cardinality(photos)
        taken == IF n < room THEN n ELSE room
    IN /\ OnForm
       /\ Cardinality(photos) + Cardinality(Preparing) < MaxPhotos
       /\ taken > 0
       /\ FreeNos # {}
       /\ jobs' = jobs \cup {[panel |-> opened, no |-> FreeNo, left |-> taken]}
       /\ UNCHANGED <<mark, addLine, step, values, photos, nextId, urls, flight, seen>>

NextFile(j) ==
    (jobs \ {j}) \cup
        IF j.left > 1 THEN {[j EXCEPT !.left = @ - 1]} ELSE {}

\* A photo was prepared: it joins the form, unless its panel was closed.
PhotoReady(j) ==
    /\ nextId <= MaxIds
    /\ nextId' = nextId + 1
    /\ urls' = urls \cup {nextId}
    /\ IF j.panel = opened /\ Mounted
       THEN photos' = photos \cup {nextId} /\ UNCHANGED leaked
       ELSE leaked' = leaked \cup {nextId} /\ UNCHANGED photos
    /\ jobs' = NextFile(j)
    /\ UNCHANGED <<mark, addLine, step, values, flight, opened, dragged, thanked>>

\* The file is no image, or cannot be read.
PhotoFails(j) ==
    /\ jobs' = NextFile(j)
    /\ UNCHANGED <<mark, addLine, step, values, photos, nextId, urls, flight, seen>>

removePhoto(id) ==
    /\ OnForm
    /\ photos' = photos \ {id}
    /\ urls' = urls \ {id}
    /\ UNCHANGED <<mark, addLine, step, values, nextId, jobs, flight, seen>>

--------------------------------------------------------------------------
(* The submission.                                                         *)

send ==
    /\ canSend
    /\ flight' = [kind |-> step, stored |-> FALSE,
                  legal |-> step \in LineKinds => Legal(addLine, Rule[step])]
    /\ UNCHANGED <<mark, addLine, step, form, seen>>

\* The server stored the submission; the answer is on its way.
ServerStores ==
    /\ flight # None
    /\ ~flight.stored
    /\ flight' = [flight EXCEPT !.stored = TRUE]
    /\ UNCHANGED <<mark, addLine, step, form, seen>>

Thanks ==
    /\ reset
    /\ addLine' = <<>>
    /\ dragged' = FALSE
    /\ step' = "done"
    /\ thanked' = flight.stored
    /\ flight' = None
    /\ UNCHANGED <<mark, nextId, jobs, opened, leaked>>

\* An answer of success: whatever the panel shows by now, it says thanks.
Answered ==
    /\ flight # None
    /\ flight.stored
    /\ Thanks

\* The server refused the submission, or the connection was lost, which
\* leaves the form as it is.
Refused ==
    /\ flight # None
    /\ flight' = None
    /\ UNCHANGED <<mark, addLine, step, form, seen>>

Edit ==
    \/ MenuAddObject
    \/ \E p \in ClickAt : ClickLine(p)
    \/ \E k \in Kinds : pickKind(k)
    \/ onClose
    \/ Resize
    \/ ShowList
    \/ \E v \in {"blank", "right"} : SetValues(v)
    \/ \E i \in DOMAIN addLine : DeleteVertex(i) \/ \E p \in DragTo : DragVertex(i, p)
    \/ Undo
    \/ ClearLine
Photos ==
    \/ \E n \in 1 .. MaxIds : addFiles(n)
    \/ \E j \in jobs : PhotoReady(j) \/ PhotoFails(j)
    \/ \E id \in photos : removePhoto(id)
Submit == send \/ ServerStores \/ Answered \/ Refused

Next == Edit \/ Photos \/ Submit

Spec == Init /\ [][Next]_vars

--------------------------------------------------------------------------

\* Every variable has its type; an answer is awaited by an open panel only.
TypeOK ==
    /\ addLine \in Seq(Places)
    /\ step \in Steps
    /\ values \in {"blank", "right"}
    /\ photos \cup urls \cup leaked \subseteq Ids
    /\ nextId \in 1 .. MaxIds + 1
    /\ jobs \subseteq Jobs
    /\ flight \in Submissions \cup {None}
    /\ opened \in 0 .. MaxOpened
    /\ {add, mobile, dragged, thanked} \subseteq BOOLEAN

\* Every photo of the form has its object URL, and no URL outlives its photo,
\* in whatever order photos are prepared, removed, sent and their panel
\* closed; only a photo that was prepared after that keeps one.
UrlsRight == urls = photos \cup leaked

\* However a line was clicked, cut and begun again, it never grows beyond
\* what its kind allows, unless one of its points was dragged.
LineInRule ==
    DrawingLine /\ ~dragged =>
        /\ Len(addLine) <= Rule[step].max_points
        /\ pathLengthMeters(addLine) <= Rule[step].max_m

\* What is sent obeys the rule of its kind, even when a point was dragged, and
\* its panel waits for it; thanks are said for what the server has stored.
SentRight ==
    /\ flight # None => Mounted /\ flight.legal
    /\ step = "done" => thanked

\* AddObjectPanel.tsx:304 says that at most max_photos can be added.
PhotosBounded == Cardinality(photos) <= MaxPhotos
=============================================================================
