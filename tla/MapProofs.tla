------------------------------- MODULE MapProofs ------------------------------
(***************************************************************************)
(* Proofs about the map pages.                                             *)
(***************************************************************************)
EXTENDS MapStage, MapPage, FiniteSetTheorems, SequenceTheorems,
        WellFoundedInduction, TLAPS


-----------------------------------------------------------------------------
(***************************************************************************)
(* What the properties rest on: both ends are the same spot only when twin *)
(* says so, a route in flight is of the ends when both are set, and an     *)
(* address in flight is of the last point that was asked.                  *)
(***************************************************************************)
LabelsIn(r) == r.labelA \in {Nothing, r.a} /\ r.labelB \in {Nothing, r.b}

Awaited ==
    ~twin => /\ rp.a # Nothing /\ rp.labelA = Nothing => labelling[rp.a] > 0
             /\ rp.b # Nothing /\ rp.labelB = Nothing => labelling[rp.b] > 0

TwinRight ==
    /\ twin => BothEnds
    /\ BothEnds /\ rp.a = rp.b => twin

EndsInv == LabelsIn(rp) /\ Awaited /\ TwinRight

RoutesAsked ==
    \A r \in flight :
        r.for = "route" /\ BothEnds => r.a = rp.a /\ r.b = rp.b

AddressesAsked == \A r \in flight : r.for = "address" => r.p = asked

StageInv ==
    /\ TypeOK /\ EndsInv
    /\ NothingLeftBehind /\ RouteDrawn /\ RoutesAsked
    /\ AddressRight /\ AddressesAsked

-----------------------------------------------------------------------------
\* A request is for an address or for a route.
LEMMA RequestKinds ==
    ASSUME NEW r \in Requests
    PROVE  \/ r.for = "address" /\ r.p \in Points
           \/ r.for = "route" /\ r.a \in Points /\ r.b \in Points
BY DEF Requests

\* labelPoint: the end is at p, the other one is as it was.
LEMMA PlacedRight ==
    ASSUME PointsAssumption, NEW r \in RouteState, LabelsIn(r),
           NEW end \in {"a", "b"}, NEW p \in Points
    PROVE  LET q == Placed(r, end, p) IN
           /\ q \in RouteState /\ LabelsIn(q)
           /\ end = "a" =>
                 /\ q.a = p /\ q.b = r.b /\ q.labelB = r.labelB
                 /\ p \in Named \cup Outside => q.labelA = p
           /\ end = "b" =>
                 /\ q.b = p /\ q.a = r.a
                 /\ r.a # p => /\ q.labelA = r.labelA
                               /\ p \in Named \cup Outside => q.labelB = p
<1> DEFINE e == End(r, end, p)
<1>1. NameAt(p) \in {Nothing, p} /\ (p \in Named <=> NameAt(p) = p) /\ p # Nothing
  BY DEF NameAt, PointsAssumption
<1>2. /\ e \in RouteState /\ LabelsIn(e)
      /\ end = "a" => /\ e.a = p /\ e.b = r.b /\ e.labelB = r.labelB
                      /\ e.labelA = NameAt(p)
      /\ end = "b" => /\ e.b = p /\ e.a = r.a /\ e.labelA = r.labelA
                      /\ e.labelB = NameAt(p)
  BY <1>1 DEF End, RouteState, MaybePoint, Slots, LabelsIn
<1>3. CASE p \in Outside \ Named
  <2>1. Placed(r, end, p) = SetLabel(e, p)
    BY <1>3 DEF Placed
  <2>2. QED
    BY <1>1, <1>2, <1>3, <2>1 DEF SetLabel, RouteState, MaybePoint, LabelsIn
<1>4. CASE p \notin Outside \ Named
  <2>1. Placed(r, end, p) = e
    BY <1>4 DEF Placed
  <2>2. QED
    BY <1>1, <1>2, <1>4, <2>1
<1>5. QED
  BY <1>3, <1>4

\* The answer of a label changes the label of one end at most.
LEMMA SetLabelRight ==
    ASSUME NEW r \in RouteState, LabelsIn(r), NEW p \in Points
    PROVE  LET q == SetLabel(r, p) IN
           /\ q \in RouteState /\ LabelsIn(q) /\ q.a = r.a /\ q.b = r.b
           /\ q.labelA = IF r.a = p THEN p ELSE r.labelA
           /\ q.labelB = IF r.a # p /\ r.b = p THEN p ELSE r.labelB
BY DEF SetLabel, RouteState, MaybePoint, LabelsIn

LEMMA EmptyRight ==
    EmptyRoute \in RouteState /\ LabelsIn(EmptyRoute)
BY DEF EmptyRoute, RouteState, MaybePoint, Slots, LabelsIn

\* A label that was asked for is awaited, and so are the others.
LEMMA AskLabelRight ==
    ASSUME PointsAssumption, labelling \in [Points -> Nat], NEW p \in Points,
           AskLabel(p)
    PROVE  /\ labelling' \in [Points -> Nat]
           /\ \A q \in Points : labelling[q] > 0 => labelling'[q] > 0
           /\ p \notin Named \cup Outside => labelling'[p] > 0
BY DEF AskLabel

\* What the effect of the route leaves in flight.
LEMMA EffectRight ==
    ASSUME NEW f, f \subseteq Requests, NEW r \in RouteState
    PROVE  LET g == RouteEffect(f, "route", r) IN
           /\ g \subseteq Requests
           /\ \A x \in g : x.for = "address" => x \in f
           /\ r.a # Nothing /\ r.b # Nothing =>
                 /\ [for |-> "route", a |-> r.a, b |-> r.b] \in g
                 /\ \A x \in g : x.for = "route" /\ x.a = r.a /\ x.b = r.b
<1>1. CASE r.a # Nothing /\ r.b # Nothing
  <2>1. r.a \in Points /\ r.b \in Points
    BY <1>1 DEF RouteState, MaybePoint
  <2>2. RouteEffect(f, "route", r) = {[for |-> "route", a |-> r.a, b |-> r.b]}
    BY <1>1 DEF RouteEffect, Abort
  <2>3. QED
    BY <1>1, <2>1, <2>2 DEF Requests
<1>2. CASE ~(r.a # Nothing /\ r.b # Nothing)
  BY <1>2 DEF RouteEffect
<1>3. QED
  BY <1>1, <1>2
-----------------------------------------------------------------------------
(***************************************************************************)
(* The effect of the drawing, which runs with the mode, the ends and the   *)
(* points as they are after the event.                                     *)
(***************************************************************************)
LEMMA DrawnRight ==
    ASSUME TypeOK, mode' \in Modes, rp' \in RouteState,
           points' \in Seq(Points), Redraw
    PROVE  /\ line' \in Lines /\ twin' \in BOOLEAN
           /\ routeRes' \in Results \cup {Nothing}
           /\ mode' = "route" => line'.kind \in {"none", "preview"}
           /\ mode' # "route" => line'.kind \in {"none", "measure"}
           /\ mode' # "route" /\ points' = <<>> => line' = NoLine
<1>1. /\ line' = Drawing' /\ twin' = (BothEnds' /\ (twin \/ rp'.a = rp'.b))
      /\ routeRes' = routeRes
  BY DEF Redraw
<1>2. twin' \in BOOLEAN /\ routeRes' \in Results \cup {Nothing}
  BY <1>1 DEF TypeOK
<1>3. CASE mode' = "route" /\ BothEnds'
  <2>1. line' = [kind |-> "preview", a |-> rp'.a, b |-> rp'.b]
    BY <1>1, <1>3 DEF Drawing
  <2>2. rp'.a \in Points /\ rp'.b \in Points
    BY <1>3 DEF BothEnds, RouteState, MaybePoint
  <2>3. QED
    BY <1>2, <1>3, <2>1, <2>2 DEF Lines
<1>4. CASE mode' # "route" /\ Len(points') >= 2
  <2>1. line' = [kind |-> "measure", of |-> points']
    BY <1>1, <1>4 DEF Drawing
  <2>2. QED
    BY <1>2, <1>4, <2>1 DEF Lines
<1>5. CASE ~(mode' = "route" /\ BothEnds') /\ ~(mode' # "route" /\ Len(points') >= 2)
  <2>1. line' = NoLine
    BY <1>1, <1>5 DEF Drawing
  <2>2. QED
    BY <1>2, <1>5, <2>1 DEF Lines, NoLine
<1>6. QED
  BY <1>3, <1>4, <1>5

\* A step that changes neither the address nor the object.
LEMMA AddressesRest ==
    ASSUME AddressRight, AddressesAsked, UNCHANGED info,
           \A r \in flight' : r.for = "address" => r \in flight
    PROVE  AddressRight' /\ AddressesAsked'
BY DEF AddressRight, AddressesAsked, info

(***************************************************************************)
(* An end is placed: whatever was in flight for the ends before is gone    *)
(* once both are set, and the end that is new has its label or awaits it.  *)
(***************************************************************************)
LEMMA PlacedStep ==
    ASSUME PointsAssumption, StageInv,
           NEW base, base = rp \/ base = EmptyRoute, NEW end \in {"a", "b"},
           NEW p \in Points, NEW f, f \in {flight, {}},
           mode' = "route", points' = <<>>, rp' = Placed(base, end, p),
           AskLabel(p), flight' = RouteEffect(f, "route", rp'),
           UNCHANGED info, add' \in MaybePoint, mobile' \in BOOLEAN, Redraw
    PROVE  StageInv'
<1>1. TypeOK /\ base \in RouteState /\ LabelsIn(base) /\ f \subseteq Requests
  BY EmptyRight DEF StageInv, EndsInv, TypeOK
<1>2. /\ rp' \in RouteState /\ LabelsIn(rp')
      /\ end = "a" =>
            /\ rp'.a = p /\ rp'.b = base.b /\ rp'.labelB = base.labelB
            /\ p \in Named \cup Outside => rp'.labelA = p
      /\ end = "b" =>
            /\ rp'.b = p /\ rp'.a = base.a
            /\ base.a # p => /\ rp'.labelA = base.labelA
                             /\ p \in Named \cup Outside => rp'.labelB = p
  BY <1>1, PlacedRight
<1>3. /\ labelling' \in [Points -> Nat]
      /\ \A q \in Points : labelling[q] > 0 => labelling'[q] > 0
      /\ p \notin Named \cup Outside => labelling'[p] > 0
  BY <1>1, AskLabelRight DEF TypeOK
<1>4. /\ flight' \subseteq Requests
      /\ \A x \in flight' : x.for = "address" => x \in f
      /\ rp'.a # Nothing /\ rp'.b # Nothing =>
            /\ [for |-> "route", a |-> rp'.a, b |-> rp'.b] \in flight'
            /\ \A x \in flight' : x.for = "route" /\ x.a = rp'.a /\ x.b = rp'.b
  BY <1>1, <1>2, EffectRight
<1>5. /\ line' \in Lines /\ twin' \in BOOLEAN
      /\ routeRes' \in Results \cup {Nothing}
      /\ line'.kind \in {"none", "preview"}
  <2>1. mode' \in Modes /\ points' \in Seq(Points)
    BY DEF Modes
  <2>2. QED
    BY <1>1, <1>2, <2>1, DrawnRight
<1>6. TypeOK'
  BY <1>1, <1>2, <1>3, <1>4, <1>5 DEF TypeOK, Modes, info
<1>7. EndsInv'
  <2>1. twin' = (BothEnds' /\ (twin \/ rp'.a = rp'.b))
    BY DEF Redraw
  <2>2. TwinRight'
    BY <2>1 DEF TwinRight
  <2>3. Awaited'
    <3>1. /\ base.a # Nothing /\ base.labelA = Nothing /\ ~twin => labelling[base.a] > 0
          /\ base.b # Nothing /\ base.labelB = Nothing /\ ~twin => labelling[base.b] > 0
          /\ base.a \in MaybePoint /\ base.b \in MaybePoint
      BY <1>1 DEF StageInv, EndsInv, Awaited, EmptyRoute, RouteState
    <3>2. SUFFICES ASSUME ~twin'
                   PROVE  /\ rp'.a # Nothing /\ rp'.labelA = Nothing => labelling'[rp'.a] > 0
                          /\ rp'.b # Nothing /\ rp'.labelB = Nothing => labelling'[rp'.b] > 0
      BY DEF Awaited
    <3>3. BothEnds' => ~twin /\ rp'.a # rp'.b
      BY <2>1, <3>2
    <3>4. p # Nothing
      BY DEF PointsAssumption
    <3>5. twin => base = EmptyRoute \/ (base.a # Nothing /\ base.b # Nothing)
      BY DEF StageInv, EndsInv, TwinRight, BothEnds
    <3>6. EmptyRoute.a = Nothing /\ EmptyRoute.b = Nothing
      BY DEF EmptyRoute
    <3>7. CASE end = "a"
      BY <1>2, <1>3, <3>1, <3>3, <3>4, <3>5, <3>6, <3>7 DEF BothEnds, MaybePoint
    <3>8. CASE end = "b"
      BY <1>2, <1>3, <3>1, <3>3, <3>4, <3>5, <3>6, <3>8 DEF BothEnds, MaybePoint
    <3>9. QED
      BY <3>7, <3>8
  <2>4. QED
    BY <1>2, <2>2, <2>3 DEF EndsInv
<1>8. NothingLeftBehind'
  BY <1>5 DEF NothingLeftBehind
<1>9. RouteDrawn' /\ RoutesAsked'
  BY <1>4 DEF RouteDrawn, RoutesAsked, Result, Waits, BothEnds
<1>10. AddressRight' /\ AddressesAsked'
  <2>1. \A r \in flight' : r.for = "address" => r \in flight
    BY <1>4
  <2>2. QED
    BY <2>1, AddressesRest DEF StageInv
<1>11. QED
  BY <1>6, <1>7, <1>8, <1>9, <1>10 DEF StageInv

(***************************************************************************)
(* The ends are given up, or there were none: no route is in flight.       *)
(***************************************************************************)
LEMMA NoEndsStep ==
    ASSUME TypeOK, mode' \in Modes, rp' \in RouteState,
           rp'.a = Nothing, rp'.b = Nothing, LabelsIn(rp'),
           points' \in Seq(Points), mode' # "measure" => points' = <<>>,
           \A r \in flight' : r.for # "route", Redraw
    PROVE  EndsInv' /\ NothingLeftBehind' /\ RouteDrawn' /\ RoutesAsked'
<1>1. twin' = (BothEnds' /\ (twin \/ rp'.a = rp'.b)) /\ ~BothEnds' /\ ~HasAny'
  BY DEF Redraw, BothEnds, HasAny
<1>2. EndsInv'
  BY <1>1 DEF EndsInv, LabelsIn, Awaited, TwinRight
<1>3. /\ mode' = "route" => line'.kind \in {"none", "preview"}
      /\ mode' # "route" => line'.kind \in {"none", "measure"}
      /\ mode' # "route" /\ points' = <<>> => line' = NoLine
  BY DrawnRight
<1>4. NothingLeftBehind'
  BY <1>1, <1>3 DEF NothingLeftBehind, Modes
<1>5. RouteDrawn' /\ RoutesAsked'
  BY <1>1 DEF RouteDrawn, RoutesAsked, Result, Waits
<1>6. QED
  BY <1>2, <1>4, <1>5

\* The tool is not touched: nor are the routes in flight.
LEMMA ToolRests ==
    ASSUME StageInv, UNCHANGED <<tool, drawn, labelling>>,
           \A r : r.for = "route" => (r \in flight' <=> r \in flight)
    PROVE  EndsInv' /\ NothingLeftBehind' /\ RouteDrawn' /\ RoutesAsked'
<1>1. UNCHANGED <<mode, rp, points, twin, line, routeRes, labelling>>
  BY DEF tool, drawn
<1>2. EndsInv'
  BY <1>1 DEF StageInv, EndsInv, LabelsIn, Awaited, TwinRight, BothEnds
<1>3. NothingLeftBehind'
  BY <1>1 DEF StageInv, NothingLeftBehind, HasAny
<1>4. RoutesAsked'
  BY <1>1 DEF StageInv, RoutesAsked, BothEnds
<1>5. RouteDrawn'
  <2>1. [for |-> "route", a |-> rp.a, b |-> rp.b] \in flight'
        <=> [for |-> "route", a |-> rp.a, b |-> rp.b] \in flight
    OBVIOUS
  <2>2. /\ Result' <=> Result
        /\ Waits' <=> Waits
        /\ RouteShown' = RouteShown
    BY <1>1 DEF Result, Waits, RouteShown, BothEnds
  <2>3. QED
    BY <1>1, <2>1, <2>2 DEF StageInv, RouteDrawn
<1>6. QED
  BY <1>2, <1>3, <1>4, <1>5

\* inspectAt: the address is of p, or will be, or stays away.
LEMMA InspectRight ==
    ASSUME PointsAssumption, TypeOK, AddressesAsked, NEW p \in Points,
           NEW f, f \in {flight, {}}, Inspect(p, f)
    PROVE  /\ {address', selected', placeId', asked'} \subseteq MaybePoint
           /\ busy' \in BOOLEAN /\ flight' \subseteq Requests
           /\ \A r \in flight' : r.for = "route" => r \in f
           /\ AddressRight' /\ AddressesAsked'
<1>1. f \subseteq Requests /\ \A r \in f : r.for = "address" => r.p = asked
  BY DEF TypeOK, AddressesAsked
<1>2. [for |-> "address", p |-> p] \in Requests
  BY DEF Requests
<1>3. CASE InspectNamed(p, f)
  BY <1>3 DEF InspectNamed, HandleAddress, Abort, MaybePoint, AddressRight,
              AddressesAsked
<1>4. CASE InspectArea(p, f)
  BY <1>1, <1>4 DEF InspectArea, HandleAddress, MaybePoint, AddressRight,
              AddressesAsked, TypeOK
<1>5. CASE InspectOutside(p, f)
  BY <1>5 DEF InspectOutside, HandleAddress, Abort, MaybePoint, AddressRight,
              AddressesAsked
<1>6. CASE InspectAsks(p, f)
  BY <1>2, <1>6 DEF InspectAsks, HandleAddress, Abort, MaybePoint, AddressRight,
              AddressesAsked
<1>7. QED
  BY <1>3, <1>4, <1>5, <1>6 DEF Inspect

-----------------------------------------------------------------------------
LEMMA ClickRouteStep ==
    ASSUME PointsAssumption, StageInv, NEW p \in Points, ClickRoute(p)
    PROVE  StageInv'
<1> DEFINE base == IF rp.slot = Nothing THEN EmptyRoute ELSE rp
           end == IF rp.slot = Nothing THEN "a" ELSE rp.slot
<1>1. /\ mode = "route" /\ rp' = Placed(base, end, p) /\ AskLabel(p)
      /\ flight' = RouteEffect(flight, mode, rp')
      /\ UNCHANGED <<mode, points, info, add, mobile>> /\ Redraw
  BY DEF ClickRoute
<1>2. end \in {"a", "b"} /\ (base = rp \/ base = EmptyRoute)
  BY DEF StageInv, TypeOK, RouteState, Slots
<1>3. /\ points' = <<>> /\ mode' = "route"
      /\ add' \in MaybePoint /\ mobile' \in BOOLEAN
  BY <1>1 DEF StageInv, NothingLeftBehind, TypeOK
<1> HIDE DEF base, end
<1>4. QED
  BY <1>1, <1>2, <1>3, PlacedStep

LEMMA MenuRouteStep ==
    ASSUME PointsAssumption, StageInv, NEW p \in Points, NEW end \in {"a", "b"},
           MenuRoute(end, p)
    PROVE  StageInv'
<1> DEFINE base == IF mode = "route" THEN rp ELSE EmptyRoute
           f == IF mode = "route" THEN flight ELSE Abort(flight)
<1>1. /\ mode' = "route" /\ points' = IF mode = "route" THEN points ELSE <<>>
      /\ rp' = Placed(base, end, p) /\ AskLabel(p)
      /\ flight' = RouteEffect(f, mode', rp')
      /\ UNCHANGED <<info, add, mobile>> /\ Redraw
  BY DEF MenuRoute
<1>2. f \in {flight, {}} /\ (base = rp \/ base = EmptyRoute)
  BY DEF Abort
<1>3. points' = <<>> /\ add' \in MaybePoint /\ mobile' \in BOOLEAN
  BY <1>1 DEF StageInv, NothingLeftBehind, TypeOK
<1> HIDE DEF base, f
<1>4. QED
  BY <1>1, <1>2, <1>3, PlacedStep

\* The other field is chosen: the ends stay.
LEMMA PickSlotStep ==
    ASSUME StageInv, NEW end \in {"a", "b"}, PickSlot(end)
    PROVE  StageInv'
<1>1. /\ rp' = [rp EXCEPT !.slot = end] /\ rp \in RouteState
      /\ UNCHANGED <<mode, points, twin, flight, labelling, line, routeRes, add,
                     mobile, address, busy, selected, placeId, asked>>
  BY DEF PickSlot, drawn, info, StageInv, TypeOK
<1>2. /\ rp' \in RouteState /\ rp'.a = rp.a /\ rp'.b = rp.b
      /\ rp'.labelA = rp.labelA /\ rp'.labelB = rp.labelB
  BY <1>1 DEF RouteState, Slots
<1>3. TypeOK'
  BY <1>1, <1>2 DEF StageInv, TypeOK
<1>4. EndsInv'
  BY <1>1, <1>2 DEF StageInv, EndsInv, LabelsIn, Awaited, TwinRight, BothEnds
<1>5. NothingLeftBehind'
  BY <1>1, <1>2 DEF StageInv, NothingLeftBehind, HasAny
<1>6. RouteDrawn' /\ RoutesAsked'
  BY <1>1, <1>2 DEF StageInv, RouteDrawn, RoutesAsked, Result, Waits,
         RouteShown,
                    BothEnds
<1>7. AddressRight' /\ AddressesAsked'
  BY <1>1 DEF StageInv, AddressRight, AddressesAsked
<1>8. QED
  BY <1>3, <1>4, <1>5, <1>6, <1>7 DEF StageInv

\* The panel of the route is there only with its tool.
LEMMA RoutePanel ==
    Panel = "route" => mode = "route"
BY DEF Panel, Sheet

\* The ends change places, and so do their labels.
LEMMA SwapStep ==
    ASSUME PointsAssumption, StageInv, SwapRoute
    PROVE  StageInv'
<1>1. /\ mode = "route" /\ mode' = "route" /\ rp \in RouteState /\ TypeOK
      /\ rp' = [a |-> rp.b, b |-> rp.a, labelA |-> rp.labelB,
                labelB |-> rp.labelA, slot |-> Other(rp.slot)]
      /\ flight' = RouteEffect(flight, "route", rp') /\ Redraw
      /\ UNCHANGED <<mode, points, labelling, info, add, mobile>>
  BY RoutePanel DEF SwapRoute, StageInv, TypeOK
<1>2. /\ rp' \in RouteState /\ rp'.a = rp.b /\ rp'.b = rp.a
      /\ rp'.labelA = rp.labelB /\ rp'.labelB = rp.labelA
  BY <1>1 DEF RouteState, Slots, Other
<1>3. /\ flight' \subseteq Requests
      /\ \A x \in flight' : x.for = "address" => x \in flight
      /\ rp'.a # Nothing /\ rp'.b # Nothing =>
            /\ [for |-> "route", a |-> rp'.a, b |-> rp'.b] \in flight'
            /\ \A x \in flight' : x.for = "route" /\ x.a = rp'.a /\ x.b = rp'.b
  <2>1. flight' = RouteEffect(flight, "route", rp') /\ flight \subseteq Requests
    BY <1>1 DEF TypeOK
  <2>2. QED
    BY <1>2, <2>1, EffectRight
<1>4. /\ line' \in Lines /\ twin' \in BOOLEAN
      /\ routeRes' \in Results \cup {Nothing}
      /\ line'.kind \in {"none", "preview"}
  BY <1>1, <1>2, DrawnRight DEF TypeOK
<1>5. TypeOK'
  BY <1>1, <1>2, <1>3, <1>4 DEF TypeOK, info
<1>6. EndsInv'
  <2>1. twin' = (BothEnds' /\ (twin \/ rp'.a = rp'.b))
    BY <1>1 DEF Redraw
  <2>2. QED
    BY <1>1, <1>2, <2>1
       DEF StageInv, EndsInv, LabelsIn, Awaited, TwinRight, BothEnds
<1>7. NothingLeftBehind'
  BY <1>1, <1>4 DEF StageInv, NothingLeftBehind
<1>8. RouteDrawn' /\ RoutesAsked'
  BY <1>3 DEF RouteDrawn, RoutesAsked, Result, Waits, BothEnds
<1>9. AddressRight' /\ AddressesAsked'
  BY <1>1, <1>3, AddressesRest DEF StageInv
<1>10. QED
  BY <1>5, <1>6, <1>7, <1>8, <1>9 DEF StageInv

\* The label that arrives is for the ends that are at its point by now.
LEMMA AnswerLabelStep ==
    ASSUME PointsAssumption, StageInv, NEW p \in Points, AnswerLabel(p)
    PROVE  StageInv'
<1>1. /\ labelling[p] > 0 /\ labelling' = [labelling EXCEPT ![p] = @ - 1]
      /\ rp' = SetLabel(rp, p) /\ rp \in RouteState /\ LabelsIn(rp)
      /\ labelling \in [Points -> Nat]
      /\ UNCHANGED <<mode, points, twin, flight, line, routeRes, add,
                     mobile, address, busy, selected, placeId, asked>>
  BY DEF AnswerLabel, drawn, info, StageInv, TypeOK, EndsInv
<1>2. /\ rp' \in RouteState /\ LabelsIn(rp') /\ rp'.a = rp.a /\ rp'.b = rp.b
      /\ rp'.labelA = IF rp.a = p THEN p ELSE rp.labelA
      /\ rp'.labelB = IF rp.a # p /\ rp.b = p THEN p ELSE rp.labelB
  BY <1>1, SetLabelRight
<1>3. /\ labelling' \in [Points -> Nat]
      /\ \A q \in Points : q # p => labelling'[q] = labelling[q]
  BY <1>1
<1>4. TypeOK'
  BY <1>1, <1>2, <1>3 DEF StageInv, TypeOK
<1>5. EndsInv'
  <2>1. TwinRight'
    BY <1>1, <1>2 DEF StageInv, EndsInv, TwinRight, BothEnds
  <2>2. p # Nothing /\ rp.a \in MaybePoint /\ rp.b \in MaybePoint
    BY <1>1 DEF PointsAssumption, RouteState
  <2>3. Awaited'
    BY <1>1, <1>2, <1>3, <2>2
       DEF StageInv, EndsInv, Awaited, TwinRight, BothEnds,
       MaybePoint
  <2>4. QED
    BY <1>2, <2>1, <2>3 DEF EndsInv
<1>6. NothingLeftBehind'
  BY <1>1, <1>2 DEF StageInv, NothingLeftBehind, HasAny
<1>7. RouteDrawn' /\ RoutesAsked'
  BY <1>1, <1>2 DEF StageInv, RouteDrawn, RoutesAsked, Result, Waits,
         RouteShown,
                    BothEnds
<1>8. AddressRight' /\ AddressesAsked'
  BY <1>1 DEF StageInv, AddressRight, AddressesAsked
<1>9. QED
  BY <1>4, <1>5, <1>6, <1>7, <1>8 DEF StageInv

\* The answer of a route shows that route, and is for the ends if both are set.
LEMMA AnswerRouteStep ==
    ASSUME NothingAssumption, StageInv, NEW r \in flight,
           AnswerRoute(r) \/ RouteFails(r)
    PROVE  StageInv'
<1>1. /\ r.for = "route" /\ flight' = flight \ {r}
      /\ \/ /\ line' = [kind |-> "route", a |-> r.a, b |-> r.b]
            /\ routeRes' = [a |-> r.a, b |-> r.b, onRoad |-> TRUE]
         \/ /\ line' = line
            /\ routeRes' = [a |-> r.a, b |-> r.b, onRoad |-> FALSE]
      /\ UNCHANGED <<mode, rp, points, twin, labelling, add, mobile, address, busy,
                     selected, placeId, asked>>
  BY DEF AnswerRoute, RouteFails, tool, info
<1>2. r.a \in Points /\ r.b \in Points
  <2>1. r \in Requests /\ r.for # "address"
    BY <1>1 DEF StageInv, TypeOK
  <2>2. QED
    BY <2>1, RequestKinds
<1>3. routeRes' \in Results /\ line' \in Lines
  <2>1. line \in Lines
    BY DEF StageInv, TypeOK
  <2>2. /\ [kind |-> "route", a |-> r.a, b |-> r.b] \in Lines
        /\ [a |-> r.a, b |-> r.b, onRoad |-> TRUE] \in Results
        /\ [a |-> r.a, b |-> r.b, onRoad |-> FALSE] \in Results
    BY <1>2 DEF Results, Lines
  <2>3. QED
    BY <1>1, <2>1, <2>2
<1>4. TypeOK'
  BY <1>1, <1>3 DEF StageInv, TypeOK
<1>5. EndsInv'
  BY <1>1 DEF StageInv, EndsInv, LabelsIn, Awaited, TwinRight, BothEnds
<1>6. mode = "route"
  BY <1>1 DEF StageInv, NothingLeftBehind
<1>7. NothingLeftBehind'
  BY <1>1, <1>6 DEF StageInv, NothingLeftBehind, HasAny
<1>8. RoutesAsked'
  BY <1>1 DEF StageInv, RoutesAsked, BothEnds
<1>9. RouteDrawn'
  <2>1. routeRes' # Nothing
    BY <1>3 DEF NothingAssumption
  <2>2. CASE BothEnds
    <3>1. r.a = rp.a /\ r.b = rp.b
      BY <1>1, <2>2 DEF StageInv, RoutesAsked
    <3>2. RouteShown' = routeRes'
      BY <1>1, <2>1, <2>2, <3>1 DEF RouteShown, BothEnds
    <3>3. QED
      BY <1>1, <2>1, <3>1, <3>2 DEF RouteDrawn, Result, Waits
  <2>3. CASE ~BothEnds
    BY <1>1, <2>3 DEF RouteDrawn, Result, Waits, BothEnds
  <2>4. QED
    BY <2>2, <2>3
<1>10. AddressRight' /\ AddressesAsked'
  BY <1>1 DEF StageInv, AddressRight, AddressesAsked
<1>11. QED
  BY <1>4, <1>5, <1>7, <1>8, <1>9, <1>10 DEF StageInv

\* The address that arrives is of the point that was asked last.
LEMMA AnswerAddressStep ==
    ASSUME StageInv, NEW r \in flight, AnswerAddress(r)
    PROVE  StageInv'
<1>1. /\ r.for = "address" /\ flight' = flight \ {r}
      /\ address' = r.p /\ busy' = FALSE /\ placeId' = Nothing
      /\ UNCHANGED <<tool, labelling, drawn, selected, asked, add, mobile>>
  BY DEF AnswerAddress, HandleAddress
<1>2. r.p \in Points /\ r.p = asked
  BY <1>1, RequestKinds DEF StageInv, TypeOK, AddressesAsked
<1>3. TypeOK'
  BY <1>1, <1>2 DEF StageInv, TypeOK, tool, drawn, MaybePoint
<1>4. EndsInv' /\ NothingLeftBehind' /\ RouteDrawn' /\ RoutesAsked'
  BY <1>1, ToolRests
<1>5. AddressRight' /\ AddressesAsked'
  BY <1>1, <1>2 DEF StageInv, AddressRight, AddressesAsked
<1>6. QED
  BY <1>3, <1>4, <1>5 DEF StageInv

-----------------------------------------------------------------------------
\* With another tool than that of the route there are no ends.
LEMMA NoEnds ==
    ASSUME StageInv, mode # "route"
    PROVE  /\ rp.a = Nothing /\ rp.b = Nothing /\ rp \in RouteState /\ LabelsIn(rp)
           /\ \A r \in flight : r.for # "route"
BY DEF StageInv, NothingLeftBehind, HasAny, EndsInv, TypeOK

\* Everything of the tools is given up, the rest stays.
LEMMA ClearedStep ==
    ASSUME StageInv, mode' \in Modes, Cleared, flight' = {}, Redraw,
           UNCHANGED <<labelling, info, add, mobile>>
    PROVE  StageInv'
<1>1. /\ points' = <<>> /\ rp' = EmptyRoute /\ TypeOK
      /\ rp'.a = Nothing /\ rp'.b = Nothing /\ rp' \in RouteState /\ LabelsIn(rp')
      /\ points' \in Seq(Points)
  BY EmptyRight DEF Cleared, StageInv, EmptyRoute
<1>2. line' \in Lines /\ twin' \in BOOLEAN /\ routeRes' \in Results \cup {Nothing}
  BY <1>1, DrawnRight
<1>3. TypeOK'
  BY <1>1, <1>2 DEF TypeOK, info
<1>4. EndsInv' /\ NothingLeftBehind' /\ RouteDrawn' /\ RoutesAsked'
  BY <1>1, NoEndsStep
<1>5. AddressRight' /\ AddressesAsked'
  BY AddressesRest DEF StageInv
<1>6. QED
  BY <1>3, <1>4, <1>5 DEF StageInv

LEMMA ClearStep ==
    ASSUME StageInv, Clear PROVE StageInv'
BY ClearedStep DEF Clear, Abort, StageInv, TypeOK

LEMMA ChangeModeStep ==
    ASSUME StageInv, NEW m \in Modes, ChangeMode(m) PROVE StageInv'
BY ClearedStep DEF ChangeMode, Abort

\* A point is measured.
LEMMA MeasuredStep ==
    ASSUME StageInv, mode' = "measure", points' \in Seq(Points),
           rp' \in RouteState, rp'.a = Nothing, rp'.b = Nothing, LabelsIn(rp'),
           flight' \subseteq flight, \A r \in flight' : r.for # "route",
           UNCHANGED <<labelling, info, add, mobile>>, Redraw
    PROVE  StageInv'
<1>1. TypeOK /\ mode' \in Modes
  BY DEF StageInv, Modes
<1>2. line' \in Lines /\ twin' \in BOOLEAN /\ routeRes' \in Results \cup {Nothing}
  BY <1>1, DrawnRight
<1>3. TypeOK'
  BY <1>1, <1>2 DEF TypeOK, info
<1>4. EndsInv' /\ NothingLeftBehind' /\ RouteDrawn' /\ RoutesAsked'
  BY <1>1, NoEndsStep
<1>5. AddressRight' /\ AddressesAsked'
  BY AddressesRest DEF StageInv
<1>6. QED
  BY <1>3, <1>4, <1>5 DEF StageInv

LEMMA ClickMeasureStep ==
    ASSUME StageInv, NEW p \in Points, ClickMeasure(p) PROVE StageInv'
<1>1. /\ mode = "measure" /\ mode' = mode /\ rp' = rp /\ flight' = flight
      /\ points' = Append(points, p) /\ points \in Seq(Points)
      /\ UNCHANGED <<labelling, info, add, mobile>> /\ Redraw
  BY DEF ClickMeasure, StageInv, TypeOK
<1>2. points' \in Seq(Points)
  BY <1>1
<1>3. /\ rp'.a = Nothing /\ rp'.b = Nothing /\ rp' \in RouteState /\ LabelsIn(rp')
      /\ \A r \in flight' : r.for # "route"
  BY <1>1, NoEnds
<1>4. QED
  BY <1>1, <1>2, <1>3, MeasuredStep

LEMMA MenuMeasureStep ==
    ASSUME StageInv, NEW p \in Points, MenuMeasure(p) PROVE StageInv'
<1>1. /\ mode' = "measure" /\ rp' = EmptyRoute
      /\ points' = Append(IF mode = "measure" THEN points ELSE <<>>, p)
      /\ flight' = IF mode = "measure" THEN flight ELSE {}
      /\ UNCHANGED <<labelling, info, add, mobile>> /\ Redraw
      /\ points \in Seq(Points)
  BY DEF MenuMeasure, Abort, StageInv, TypeOK
<1>2. points' \in Seq(Points)
  BY <1>1
<1>3. rp'.a = Nothing /\ rp'.b = Nothing /\ rp' \in RouteState /\ LabelsIn(rp')
  BY <1>1, EmptyRight DEF EmptyRoute
<1>4. flight' \subseteq flight /\ \A r \in flight' : r.for # "route"
  BY <1>1, NoEnds
<1>5. QED
  BY <1>1, <1>2, <1>3, <1>4, MeasuredStep

-----------------------------------------------------------------------------
\* «What is here?» of the menu, with no tool or instead of one.
LEMMA MenuWhatsHereStep ==
    ASSUME PointsAssumption, StageInv, NEW p \in Points, MenuWhatsHere(p)
    PROVE  StageInv'
<1>1. UNCHANGED <<labelling, add, mobile>> /\ TypeOK /\ AddressesAsked
  BY DEF MenuWhatsHere, StageInv
<1>2. ASSUME mode = "idle", Inspect(p, flight), UNCHANGED <<tool, drawn>>
      PROVE  StageInv'
  <2>1. /\ {address', selected', placeId', asked'} \subseteq MaybePoint
        /\ busy' \in BOOLEAN /\ flight' \subseteq Requests
        /\ \A r \in flight' : r.for = "route" => r \in flight
        /\ AddressRight' /\ AddressesAsked'
    BY <1>1, <1>2, InspectRight
  <2>2. TypeOK'
    BY <1>1, <1>2, <2>1 DEF TypeOK, tool, drawn
  <2>3. \A r : r.for = "route" => (r \in flight' <=> r \in flight)
    BY <1>2, <2>1, NoEnds
  <2>4. EndsInv' /\ NothingLeftBehind' /\ RouteDrawn' /\ RoutesAsked'
    BY <1>1, <1>2, <2>3, ToolRests
  <2>5. QED
    BY <2>1, <2>2, <2>4 DEF StageInv
<1>3. ASSUME Inspect(p, {}), mode' = "idle", Cleared, Redraw
      PROVE  StageInv'
  <2>1. /\ {address', selected', placeId', asked'} \subseteq MaybePoint
        /\ busy' \in BOOLEAN /\ flight' \subseteq Requests
        /\ \A r \in flight' : r.for # "route"
        /\ AddressRight' /\ AddressesAsked'
    BY <1>1, <1>3, InspectRight
  <2>2. /\ points' = <<>> /\ rp' = EmptyRoute /\ mode' \in Modes
        /\ rp'.a = Nothing /\ rp'.b = Nothing /\ rp' \in RouteState /\ LabelsIn(rp')
        /\ points' \in Seq(Points)
    BY <1>3, EmptyRight DEF Cleared, EmptyRoute, Modes
  <2>3. line' \in Lines /\ twin' \in BOOLEAN /\ routeRes' \in Results \cup {Nothing}
    BY <1>1, <1>3, <2>2, DrawnRight
  <2>4. TypeOK'
    BY <1>1, <2>1, <2>2, <2>3 DEF TypeOK
  <2>5. EndsInv' /\ NothingLeftBehind' /\ RouteDrawn' /\ RoutesAsked'
    BY <1>1, <1>3, <2>1, <2>2, NoEndsStep
  <2>6. QED
    BY <2>1, <2>4, <2>5 DEF StageInv
<1>4. QED
  BY <1>2, <1>3 DEF MenuWhatsHere, Abort

LEMMA ClickIdleStep ==
    ASSUME PointsAssumption, StageInv, NEW p \in Points, ClickIdle(p)
    PROVE  StageInv'
<1>1. /\ mode = "idle" /\ Inspect(p, flight) /\ TypeOK /\ AddressesAsked
      /\ UNCHANGED <<tool, labelling, drawn, add, mobile>>
  BY DEF ClickIdle, StageInv
<1>2. /\ {address', selected', placeId', asked'} \subseteq MaybePoint
      /\ busy' \in BOOLEAN /\ flight' \subseteq Requests
      /\ \A r \in flight' : r.for = "route" => r \in flight
      /\ AddressRight' /\ AddressesAsked'
  BY <1>1, InspectRight
<1>3. TypeOK'
  BY <1>1, <1>2 DEF TypeOK, tool, drawn
<1>4. \A r : r.for = "route" => (r \in flight' <=> r \in flight)
  BY <1>1, <1>2, NoEnds
<1>5. EndsInv' /\ NothingLeftBehind' /\ RouteDrawn' /\ RoutesAsked'
  BY <1>1, <1>4, ToolRests
<1>6. QED
  BY <1>2, <1>3, <1>5 DEF StageInv

\* A step that only changes what is shown of a place, or the window.
LEMMA ShownStep ==
    ASSUME StageInv, UNCHANGED <<tool, flight, labelling, drawn, asked>>,
           {address', selected', placeId', add'} \subseteq MaybePoint,
           busy' \in BOOLEAN, mobile' \in BOOLEAN, AddressRight'
    PROVE  StageInv'
<1>1. TypeOK'
  BY DEF StageInv, TypeOK, tool, drawn
<1>2. EndsInv' /\ NothingLeftBehind' /\ RouteDrawn' /\ RoutesAsked'
  BY ToolRests
<1>3. AddressesAsked'
  BY DEF StageInv, AddressesAsked
<1>4. QED
  BY <1>1, <1>2, <1>3 DEF StageInv

LEMMA SelectPlaceStep ==
    ASSUME StageInv, NEW p \in Points, SelectPlace(p) PROVE StageInv'
<1>1. /\ UNCHANGED <<tool, flight, labelling, drawn, asked, add, mobile>>
      /\ selected' = Nothing /\ address' = Nothing /\ busy' = FALSE /\ placeId' = p
  BY DEF SelectPlace
<1>2. AddressRight'
  BY <1>1 DEF AddressRight
<1>3. /\ {address', selected', placeId', add'} \subseteq MaybePoint
      /\ busy' \in BOOLEAN /\ mobile' \in BOOLEAN
  BY <1>1 DEF StageInv, TypeOK, MaybePoint
<1>4. QED
  BY <1>1, <1>2, <1>3, ShownStep

LEMMA PanelsStep ==
    ASSUME StageInv, ClosePlace \/ CloseAdd \/ Resize \/ \E p \in Points : Pick(p)
    PROVE  StageInv'
<1>1. /\ UNCHANGED <<tool, flight, labelling, drawn, address, busy, selected, asked>>
      /\ placeId' \in {placeId, Nothing} /\ add' \in Points \cup {add, Nothing}
      /\ mobile' \in {mobile, ~mobile}
  BY DEF ClosePlace, Pick, CloseAdd, Resize, info
<1>2. AddressRight'
  BY <1>1 DEF StageInv, AddressRight
<1>3. /\ {address', selected', placeId', add'} \subseteq MaybePoint
      /\ busy' \in BOOLEAN /\ mobile' \in BOOLEAN
  BY <1>1 DEF StageInv, TypeOK, MaybePoint
<1>4. QED
  BY <1>1, <1>2, <1>3, ShownStep

\* «Add an object here», with no tool or instead of one.
LEMMA MenuAddObjectStep ==
    ASSUME StageInv, NEW p \in Points, MenuAddObject(p) PROVE StageInv'
<1>1. /\ placeId' = Nothing /\ add' = p
      /\ UNCHANGED <<labelling, address, busy, selected, asked, mobile>>
  BY DEF MenuAddObject
<1>2. AddressRight'
  BY <1>1 DEF StageInv, AddressRight
<1>3. /\ {address', selected', placeId', add', asked'} \subseteq MaybePoint
      /\ busy' \in BOOLEAN /\ mobile' \in BOOLEAN
  BY <1>1 DEF StageInv, TypeOK, MaybePoint
<1>4. CASE UNCHANGED <<tool, drawn, flight>>
  BY <1>1, <1>2, <1>3, <1>4, ShownStep
<1>5. ASSUME mode' = "idle", Cleared, flight' = {}, Redraw
      PROVE  StageInv'
  <2>1. /\ points' = <<>> /\ rp' = EmptyRoute /\ mode' \in Modes /\ TypeOK
        /\ rp'.a = Nothing /\ rp'.b = Nothing /\ rp' \in RouteState /\ LabelsIn(rp')
        /\ points' \in Seq(Points)
    BY <1>5, EmptyRight DEF Cleared, EmptyRoute, Modes, StageInv
  <2>2. line' \in Lines /\ twin' \in BOOLEAN /\ routeRes' \in Results \cup {Nothing}
    BY <1>5, <2>1, DrawnRight
  <2>3. TypeOK'
    BY <1>1, <1>3, <1>5, <2>1, <2>2 DEF TypeOK
  <2>4. EndsInv' /\ NothingLeftBehind' /\ RouteDrawn' /\ RoutesAsked'
    BY <1>5, <2>1, NoEndsStep
  <2>5. AddressesAsked'
    BY <1>5 DEF AddressesAsked
  <2>6. QED
    BY <1>2, <2>3, <2>4, <2>5 DEF StageInv
<1>6. QED
  BY <1>4, <1>5 DEF MenuAddObject, Abort

LEMMA StageInvInit ==
    Init => StageInv
<1> SUFFICES ASSUME Init PROVE StageInv
  OBVIOUS
<1>1. rp \in RouteState /\ LabelsIn(rp) /\ rp.a = Nothing /\ rp.b = Nothing
  BY EmptyRight DEF Init, EmptyRoute
<1>2. TypeOK
  <2>1. /\ mode \in Modes /\ points \in Seq(Points) /\ line \in Lines
        /\ labelling \in [Points -> Nat]
    BY DEF Init, Modes, Lines
  <2>2. /\ flight \subseteq Requests /\ routeRes \in Results \cup {Nothing}
        /\ {address, selected, placeId, add, asked} \subseteq MaybePoint
        /\ {busy, mobile, twin} \subseteq BOOLEAN
    BY Zenon DEF Init, MaybePoint
  <2>3. QED
    BY <1>1, <2>1, <2>2 DEF TypeOK
<1>3. EndsInv /\ NothingLeftBehind /\ RouteDrawn /\ RoutesAsked
  BY <1>1 DEF Init, EndsInv, Awaited, TwinRight, NothingLeftBehind, RouteDrawn,
              RoutesAsked, Result, Waits, BothEnds, HasAny, NoLine
<1>4. AddressRight /\ AddressesAsked
  BY DEF Init, AddressRight, AddressesAsked
<1>5. QED
  BY <1>2, <1>3, <1>4 DEF StageInv

LEMMA StageInvStep ==
    ASSUME PointsAssumption, NothingAssumption
    PROVE  StageInv /\ [Next]_vars => StageInv'
<1> SUFFICES ASSUME StageInv, [Next]_vars PROVE StageInv'
  OBVIOUS
<1>1. ASSUME NEW p \in Points, Click(p) \/ SelectPlace(p) \/ Menu(p)
      PROVE  StageInv'
  BY <1>1, ClickRouteStep, ClickMeasureStep, ClickIdleStep, PanelsStep,
     SelectPlaceStep, MenuRouteStep, MenuWhatsHereStep, MenuMeasureStep,
     MenuAddObjectStep DEF Click, Menu
<1>2. CASE Answer
  BY <1>2, AnswerLabelStep, AnswerRouteStep, AnswerAddressStep DEF Answer
<1>3. CASE Panels \/ Resize
  <2>1. CASE ClosePlace \/ CloseAdd \/ Resize
    BY <2>1, PanelsStep
  <2>2. ASSUME NEW p \in Points, DragMark(p) PROVE StageInv'
    BY <2>2, PanelsStep DEF DragMark
  <2>3. QED
    BY <1>3, <2>1, <2>2, PickSlotStep, SwapStep, ClearStep, ChangeModeStep
       DEF Panels
<1>4. CASE UNCHANGED vars
  <2>1. /\ UNCHANGED <<tool, flight, labelling, drawn, asked, address, selected,
                       placeId, add, busy, mobile>>
    BY <1>4 DEF vars, info
  <2>2. AddressRight'
    BY <2>1 DEF StageInv, AddressRight
  <2>3. /\ {address', selected', placeId', add'} \subseteq MaybePoint
        /\ busy' \in BOOLEAN /\ mobile' \in BOOLEAN
    BY <2>1 DEF StageInv, TypeOK
  <2>4. QED
    BY <2>1, <2>2, <2>3, ShownStep
<1>5. QED
  BY <1>1, <1>2, <1>3, <1>4 DEF Next

LEMMA StageInvariant ==
    ASSUME PointsAssumption, NothingAssumption
    PROVE  Spec => []StageInv
BY StageInvInit, StageInvStep, PTL DEF Spec

-----------------------------------------------------------------------------
\* Every variable of the page keeps its type.
THEOREM StageTypeCorrect ==
    ASSUME PointsAssumption, NothingAssumption
    PROVE  Spec => []TypeOK
<1>1. StageInv => TypeOK
  BY DEF StageInv
<1>2. QED
  BY <1>1, StageInvariant, PTL

(***************************************************************************)
(* labelPoint answers whoever is at its point by then: the labels of the   *)
(* ends are right however the answers, the clicks and the swaps of         *)
(* useMapTools.ts interleave, and an end without one awaits it.            *)
(***************************************************************************)
THEOREM LabelsCorrect ==
    ASSUME PointsAssumption, NothingAssumption
    PROVE  Spec => []LabelsRight
<1>1. ASSUME StageInv PROVE LabelsRight
  <2>1. ASSUME ~twin, NEW end \in {<<rp.a, rp.labelA>>, <<rp.b, rp.labelB>>},
               end[1] # Nothing, end[2] = Nothing
        PROVE  labelling[end[1]] > 0
    BY <1>1, <2>1 DEF StageInv, EndsInv, Awaited
  <2>2. QED
    BY <1>1, <2>1 DEF StageInv, EndsInv, LabelsIn, LabelsRight
<1>2. QED
  BY <1>1, StageInvariant, PTL

(***************************************************************************)
(* Leaving a tool aborts what is in flight for it and clears its line, its *)
(* points and its ends, by whichever button or menu it is left.            *)
(***************************************************************************)
THEOREM NothingLeftCorrect ==
    ASSUME PointsAssumption, NothingAssumption
    PROVE  Spec => []NothingLeftBehind
<1>1. StageInv => NothingLeftBehind
  BY DEF StageInv
<1>2. QED
  BY <1>1, StageInvariant, PTL

(***************************************************************************)
(* A route that the panel gives is the one on the map or is asked again,   *)
(* and the panel waits only for a request that is in flight: pending is    *)
(* aborted whenever both ends are set anew.                                *)
(***************************************************************************)
THEOREM RouteCorrect ==
    ASSUME PointsAssumption, NothingAssumption
    PROVE  Spec => []RouteDrawn
<1>1. StageInv => RouteDrawn
  BY DEF StageInv
<1>2. QED
  BY <1>1, StageInvariant, PTL

(***************************************************************************)
(* An address is never shown with an object, nor for a point other than    *)
(* the last one asked, though a click on an object aborts nothing.         *)
(***************************************************************************)
THEOREM AddressCorrect ==
    ASSUME PointsAssumption, NothingAssumption
    PROVE  Spec => []AddressRight
<1>1. StageInv => AddressRight
  BY DEF StageInv
<1>2. QED
  BY <1>1, StageInvariant, PTL

-----------------------------------------------------------------------------
(* Adding an object (AddObject).                                         *)
\* A line without its point i, and without its last one.
LEMMA FormRemoved ==
  ASSUME NEW S, NEW l \in Seq(S), NEW i \in 1 .. Len(l)
  PROVE /\ Form!RemoveAt(l, i) \in Seq(S)
        /\ Len(Form!RemoveAt(l, i)) = Len(l) - 1
        /\ \A k \in 1 .. Len(l) - 1 :
              Form!RemoveAt(l, i)[k] = IF k < i THEN l[k] ELSE l[k + 1]
  <1> DEFINE a == SubSeq(l, 1, i - 1)
             b == SubSeq(l, i + 1, Len(l))
  <1>1. Len(l) \in Nat /\ \A k \in 1 .. Len(l) : l[k] \in S
    BY LenProperties, ElementOfSeq
  <1>2. /\ a \in Seq(S) /\ Len(a) = i - 1
        /\ \A k \in 1 .. i - 1 : a[k] = l[k]
    <2>1. 1 \in Int /\ i - 1 \in Int /\ \A k \in 1 .. i - 1 : l[k] \in S
      BY <1>1
    <2>2. /\ a \in Seq(S) /\ Len(a) = IF 1 <= i - 1 THEN i - 1 - 1 + 1 ELSE 0
          /\ \A k \in 1 .. i - 1 - 1 + 1 : a[k] = l[1 + k - 1]
      BY <2>1, SubSeqProperties
    <2>3. ASSUME NEW k \in 1 .. i - 1 PROVE a[k] = l[k]
      <3>1. k \in 1 .. i - 1 - 1 + 1 /\ 1 + k - 1 = k
        OBVIOUS
      <3>q. QED
        BY <2>2, <3>1
    <2>q. QED
      BY <2>2, <2>3
  <1>3. /\ b \in Seq(S) /\ Len(b) = Len(l) - i
        /\ \A k \in 1 .. Len(l) - i : b[k] = l[i + k]
    <2>1. i + 1 \in Int /\ Len(l) \in Int /\ \A k \in i + 1 .. Len(l) : l[k] \in S
      BY <1>1
    <2>2. /\ b \in Seq(S)
          /\ Len(b) = IF i + 1 <= Len(l) THEN Len(l) - (i + 1) + 1 ELSE 0
          /\ \A k \in 1 .. Len(l) - (i + 1) + 1 : b[k] = l[(i + 1) + k - 1]
      BY <2>1, SubSeqProperties
    <2>3. ASSUME NEW k \in 1 .. Len(l) - i PROVE b[k] = l[i + k]
      <3>1. k \in 1 .. Len(l) - (i + 1) + 1 /\ (i + 1) + k - 1 = i + k
        BY <1>1
      <3>q. QED
        BY <2>2, <3>1
    <2>q. QED
      BY <1>1, <2>2, <2>3
  <1>4. Form!RemoveAt(l, i) = a \o b
    BY DEF Form!RemoveAt
  <1> HIDE DEF a, b
  <1>5. /\ a \o b \in Seq(S) /\ Len(a \o b) = Len(l) - 1
        /\ \A k \in 1 .. Len(l) - 1 :
              (a \o b)[k] = IF k <= i - 1 THEN a[k] ELSE b[k - (i - 1)]
    <2>1. /\ a \o b \in Seq(S) /\ Len(a \o b) = Len(a) + Len(b)
          /\ \A k \in 1 .. Len(a) + Len(b) :
                (a \o b)[k] = IF k <= Len(a) THEN a[k] ELSE b[k - Len(a)]
      BY <1>2, <1>3, ConcatProperties
    <2>2. Len(a) + Len(b) = Len(l) - 1
      BY <1>1, <1>2, <1>3
    <2>q. QED
      BY <1>2, <2>1, <2>2
  <1>6. ASSUME NEW k \in 1 .. Len(l) - 1
        PROVE (a \o b)[k] = IF k < i THEN l[k] ELSE l[k + 1]
    <2>1. CASE k < i
      <3>1. k \in 1 .. i - 1 /\ k <= i - 1
        BY <1>1, <2>1
      <3>q. QED
        BY <1>2, <1>5, <2>1, <3>1
    <2>2. CASE ~(k < i)
      <3>1. k - (i - 1) \in 1 .. Len(l) - i /\ i + (k - (i - 1)) = k + 1 /\ ~(k <= i - 1)
        BY <1>1, <2>2
      <3>2. b[k - (i - 1)] = l[i + (k - (i - 1))]
        BY <1>3, <3>1
      <3>q. QED
        BY <1>5, <2>2, <3>1, <3>2
    <2>q. QED
      BY <2>1, <2>2
  <1>q. QED
    BY <1>4, <1>5, <1>6

LEMMA FormFronted ==
  ASSUME NEW S, NEW l \in Seq(S), l # <<>>
  PROVE /\ Form!Front(l) \in Seq(S)
        /\ Len(Form!Front(l)) = Len(l) - 1
        /\ \A k \in 1 .. Len(l) - 1 : Form!Front(l)[k] = l[k]
  <1> DEFINE a == SubSeq(l, 1, Len(l) - 1)
  <1>1. Len(l) \in Nat \ {0} /\ \A k \in 1 .. Len(l) : l[k] \in S
    BY EmptySeq, ElementOfSeq
  <1>2. 1 \in Int /\ Len(l) - 1 \in Int /\ \A k \in 1 .. Len(l) - 1 : l[k] \in S
    BY <1>1
  <1>3. /\ a \in Seq(S) /\ Len(a) = IF 1 <= Len(l) - 1 THEN Len(l) - 1 - 1 + 1 ELSE 0
        /\ \A k \in 1 .. Len(l) - 1 - 1 + 1 : a[k] = l[1 + k - 1]
    BY <1>2, SubSeqProperties
  <1>4. ASSUME NEW k \in 1 .. Len(l) - 1 PROVE a[k] = l[k]
    <2>1. k \in 1 .. Len(l) - 1 - 1 + 1 /\ 1 + k - 1 = k
      BY <1>1
    <2>q. QED
      BY <1>3, <2>1
  <1>5. a = Form!Front(l)
    BY DEF Form!Front
  <1>q. QED
    BY <1>1, <1>3, <1>4, <1>5

-----------------------------------------------------------------------------
\* What the form counts is what the theorems of finite sets are about.
LEMMA FormCounting == ASSUME NEW S PROVE Form!Cardinality(S) = Cardinality(S)
  BY DEF Form!Cardinality, Cardinality
LEMMA FormLengthIs == ASSUME NEW l PROVE Form!pathLengthMeters(l) = Cardinality(Form!Metres(l))
  BY FormCounting DEF Form!pathLengthMeters

\* The metres of a line are finitely many.
LEMMA FormCounted ==
  ASSUME Form!BoundsAssumption, NEW l \in Seq(Form!Places)
  PROVE IsFiniteSet(Form!Metres(l)) /\ Form!pathLengthMeters(l) \in Nat
  <1>1. MaxPlace \in Int /\ Len(l) \in Int
    BY LenProperties DEF Form!BoundsAssumption
  <1>2. IsFiniteSet(2 .. Len(l)) /\ IsFiniteSet(Form!Places)
    BY <1>1, FS_Interval DEF Form!Places
  <1>3. IsFiniteSet((2 .. Len(l)) \X Form!Places)
    BY <1>2, FS_Product
  <1>4. Form!Metres(l) \in SUBSET ((2 .. Len(l)) \X Form!Places)
    BY DEF Form!Metres
  <1>5. IsFiniteSet(Form!Metres(l))
    BY <1>3, <1>4, FS_Subset
  <1>q. QED
    BY <1>5, FS_CardinalityType, FormLengthIs

\* A line of one point or none has no length.
LEMMA FormShort ==
  ASSUME NEW l, Len(l) \in {0, 1} PROVE Form!pathLengthMeters(l) = 0
  <1>1. Form!Metres(l) = {}
    BY DEF Form!Metres
  <1>q. QED
    BY <1>1, FS_EmptySet, FormLengthIs

\* The metres from one place to another.
LEMMA FormWayCounted ==
  ASSUME NEW a \in Form!Places, NEW b \in Form!Places, Form!BoundsAssumption
  PROVE /\ Form!Way(a, b) \subseteq Form!Places /\ IsFiniteSet(Form!Way(a, b))
        /\ Cardinality(Form!Way(a, b)) = Form!metersBetween(a, b)
  <1>1. a \in Int /\ b \in Int /\ MaxPlace \in Int
    BY DEF Form!Places, Form!BoundsAssumption
  <1>2. /\ IsFiniteSet(a .. b - 1) /\ IsFiniteSet(b .. a - 1)
        /\ Cardinality(a .. b - 1) = IF a > b - 1 THEN 0 ELSE b - 1 - a + 1
        /\ Cardinality(b .. a - 1) = IF b > a - 1 THEN 0 ELSE a - 1 - b + 1
    <2>1. a - 1 \in Int /\ b - 1 \in Int
      BY <1>1
    <2>q. QED
      BY <1>1, <2>1, FS_Interval
  <1>3. Form!Way(a, b) \subseteq Form!Places
    BY <1>1 DEF Form!Way, Form!Places
  <1>4. CASE a < b
    BY <1>1, <1>2, <1>3, <1>4 DEF Form!Way, Form!metersBetween
  <1>5. CASE ~(a < b)
    BY <1>1, <1>2, <1>3, <1>5 DEF Form!Way, Form!metersBetween
  <1>q. QED
    BY <1>4, <1>5

\* A point more makes a line longer by the way to it.
LEMMA FormLonger ==
  ASSUME Form!BoundsAssumption, NEW l \in Seq(Form!Places), l # <<>>, NEW p \in Form!Places
  PROVE Form!pathLengthMeters(Append(l, p)) =
           Form!pathLengthMeters(l) + Form!metersBetween(Form!Last(l), p)
  <1> DEFINE n == Len(l)
             w == Form!Way(Form!Last(l), p)
             more == {n + 1} \X w
             f == [x \in w |-> <<n + 1, x>>]
             s == Append(l, p)
  <1>1. n \in Nat \ {0} /\ Form!Last(l) \in Form!Places
    BY EmptySeq, ElementOfSeq DEF Form!Last
  <1>2. /\ s \in Seq(Form!Places) /\ Len(s) = n + 1
        /\ \A k \in 1 .. n : s[k] = l[k]
        /\ s[n + 1] = p
    BY AppendProperties
  <1>3. /\ w \subseteq Form!Places /\ IsFiniteSet(w)
        /\ Cardinality(w) = Form!metersBetween(Form!Last(l), p)
    BY <1>1, FormWayCounted
  <1>4. IsFiniteSet(more) /\ Cardinality(more) = Form!metersBetween(Form!Last(l), p)
    <2>1. f \in Bijection(w, more)
      <3>1. f \in [w -> more]
        OBVIOUS
      <3>2. ASSUME NEW x \in w, NEW y \in w, f[x] = f[y] PROVE x = y
        BY <3>2
      <3>3. ASSUME NEW t \in more PROVE \E x \in w : f[x] = t
        OBVIOUS
      <3>q. QED
        BY <3>1, <3>2, <3>3 DEF Bijection, Injection, Surjection, IsInjective
    <2>q. QED
      BY <1>3, <2>1, FS_Bijection DEF ExistsBijection
  <1>5. Form!Metres(s) = Form!Metres(l) \cup more
    <2>1. ASSUME NEW k \in 2 .. n PROVE s[k - 1] = l[k - 1] /\ s[k] = l[k]
      <3>1. k - 1 \in 1 .. n /\ k \in 1 .. n
        BY <1>1
      <3>q. QED
        BY <1>2, <3>1
    <2>2. s[n + 1 - 1] = Form!Last(l) /\ s[n + 1] = p
      <3>1. n + 1 - 1 = n /\ n \in 1 .. n
        BY <1>1
      <3>q. QED
        BY <1>2, <3>1 DEF Form!Last
    <2> HIDE DEF s
    <2>3. ASSUME NEW m \in Form!Metres(s) PROVE m \in Form!Metres(l) \cup more
      <3>1. /\ m \in (2 .. n + 1) \X Form!Places
            /\ m[2] \in Form!Way(s[m[1] - 1], s[m[1]])
        BY <1>2, <2>3 DEF Form!Metres
      <3>2. CASE m[1] = n + 1
        <4>1. m[2] \in w
          BY <2>2, <3>1, <3>2
        <4>q. QED
          BY <3>1, <3>2, <4>1
      <3>3. CASE m[1] # n + 1
        <4>1. m[1] \in 2 .. n
          BY <1>1, <3>1, <3>3
        <4>q. QED
          BY <2>1, <3>1, <4>1 DEF Form!Metres
      <3>q. QED
        BY <3>2, <3>3
    <2>4. ASSUME NEW m \in Form!Metres(l) PROVE m \in Form!Metres(s)
      <3>1. m \in (2 .. n) \X Form!Places /\ m[2] \in Form!Way(l[m[1] - 1], l[m[1]])
        BY <2>4 DEF Form!Metres
      <3>2. m[2] \in Form!Way(s[m[1] - 1], s[m[1]])
        BY <2>1, <3>1
      <3>3. m \in (2 .. n + 1) \X Form!Places
        BY <1>1, <3>1
      <3>q. QED
        BY <1>2, <3>2, <3>3 DEF Form!Metres
    <2>5. ASSUME NEW m \in more PROVE m \in Form!Metres(s)
      <3>1. m[1] = n + 1 /\ m[2] \in w /\ m = <<m[1], m[2]>>
        BY <2>5
      <3>2. m \in (2 .. n + 1) \X Form!Places
        BY <1>1, <1>3, <3>1
      <3>3. m[2] \in Form!Way(s[m[1] - 1], s[m[1]])
        BY <2>2, <3>1
      <3>q. QED
        BY <1>2, <3>2, <3>3 DEF Form!Metres
    <2>q. QED
      BY <2>3, <2>4, <2>5
  <1>6. Form!Metres(l) \cap more = {}
    BY <1>1 DEF Form!Metres
  <1>7. IsFiniteSet(Form!Metres(l)) /\ Form!pathLengthMeters(l) \in Nat
    BY FormCounted
  <1> HIDE DEF more
  <1>8. Cardinality(Form!Metres(l) \cup more)
           = Cardinality(Form!Metres(l)) + Cardinality(more)
             - Cardinality(Form!Metres(l) \cap more)
    BY <1>4, <1>7, FS_Union
  <1>9. Cardinality(Form!Metres(l) \cap more) = 0
    BY <1>6, FS_EmptySet
  <1>10. Form!metersBetween(Form!Last(l), p) \in Int
    BY <1>1 DEF Form!metersBetween, Form!Places
  <1>11. /\ Form!pathLengthMeters(s) = Cardinality(Form!Metres(s))
         /\ Form!pathLengthMeters(l) = Cardinality(Form!Metres(l))
    BY FormLengthIs
  <1>q. QED
    BY <1>4, <1>5, <1>7, <1>8, <1>9, <1>10, <1>11

\* A line without its last point is no longer than before.
LEMMA FormShorter ==
  ASSUME Form!BoundsAssumption, NEW l \in Seq(Form!Places), l # <<>>
  PROVE Form!pathLengthMeters(Form!Front(l)) <= Form!pathLengthMeters(l)
  <1> DEFINE n == Len(l)
             s == Form!Front(l)
  <1>1. n \in Nat \ {0}
    BY EmptySeq
  <1>2. Len(s) = n - 1 /\ \A k \in 1 .. n - 1 : s[k] = l[k]
    BY FormFronted
  <1> HIDE DEF s
  <1>3. Form!Metres(s) \in SUBSET Form!Metres(l)
    <2> SUFFICES ASSUME NEW m \in Form!Metres(s) PROVE m \in Form!Metres(l)
      OBVIOUS
    <2>1. /\ m \in (2 .. n - 1) \X Form!Places
          /\ m[2] \in Form!Way(s[m[1] - 1], s[m[1]])
      BY <1>2 DEF Form!Metres
    <2>2. m[1] \in 1 .. n - 1 /\ m[1] - 1 \in 1 .. n - 1
      BY <1>1, <2>1
    <2>3. m[2] \in Form!Way(l[m[1] - 1], l[m[1]])
      BY <1>2, <2>1, <2>2
    <2>4. m \in (2 .. n) \X Form!Places
      BY <1>1, <2>1
    <2>q. QED
      BY <2>3, <2>4 DEF Form!Metres
  <1>4. IsFiniteSet(Form!Metres(l))
    BY FormCounted
  <1>5. Cardinality(Form!Metres(s)) <= Cardinality(Form!Metres(l))
    BY <1>3, <1>4, FS_Subset
  <1>q. QED
    BY <1>5, FormLengthIs DEF s

\* A line without one of its points is no longer than before: where the point
\* was, the way across is no longer than the two stretches it replaces.
LEMMA FormAcross ==
  ASSUME Form!BoundsAssumption, NEW l \in Seq(Form!Places), NEW i \in 1 .. Len(l)
  PROVE Form!pathLengthMeters(Form!RemoveAt(l, i)) <= Form!pathLengthMeters(l)
  <1> DEFINE n == Len(l)
             s == Form!RemoveAt(l, i)
             to(m) == IF m[1] < i \/ (m[1] = i /\ m[2] \in Form!Way(l[i - 1], l[i]))
                      THEN m ELSE <<m[1] + 1, m[2]>>
             f == [m \in Form!Metres(s) |-> to(m)]
  <1>1. n \in Nat /\ \A k \in 1 .. n : l[k] \in Form!Places
    BY LenProperties, ElementOfSeq
  <1>2. /\ Len(s) = n - 1
        /\ \A k \in 1 .. n - 1 : s[k] = IF k < i THEN l[k] ELSE l[k + 1]
    BY FormRemoved
  <1> HIDE DEF s
  <1>3. ASSUME NEW m \in Form!Metres(s)
        PROVE /\ m = <<m[1], m[2]>> /\ m[1] \in 2 .. n - 1 /\ m[2] \in Form!Places
              /\ m[2] \in Form!Way(s[m[1] - 1], s[m[1]])
    BY <1>2 DEF Form!Metres
  <1>4. ASSUME NEW m \in Form!Metres(s) PROVE to(m) \in Form!Metres(l)
    <2>0. m[1] \in 2 .. n - 1 /\ m[2] \in Form!Places /\ m = <<m[1], m[2]>>
      BY <1>3
    <2>1. CASE m[1] < i
      <3>1. s[m[1] - 1] = l[m[1] - 1] /\ s[m[1]] = l[m[1]]
        <4>1. m[1] - 1 \in 1 .. n - 1 /\ m[1] \in 1 .. n - 1 /\ m[1] - 1 < i
          BY <1>1, <2>0, <2>1
        <4>q. QED
          BY <1>2, <2>1, <4>1
      <3>2. m \in (2 .. n) \X Form!Places
        BY <1>1, <2>0
      <3>3. to(m) = m
        BY <2>1
      <3>q. QED
        BY <1>3, <3>1, <3>2, <3>3 DEF Form!Metres
    <2>2. CASE m[1] > i
      <3>1. s[m[1] - 1] = l[m[1]] /\ s[m[1]] = l[m[1] + 1]
        <4>1. /\ m[1] - 1 \in 1 .. n - 1 /\ m[1] \in 1 .. n - 1
              /\ ~(m[1] - 1 < i) /\ ~(m[1] < i) /\ m[1] - 1 + 1 = m[1]
          BY <1>1, <2>0, <2>2
        <4>q. QED
          BY <1>2, <4>1
      <3>2. to(m) = <<m[1] + 1, m[2]>>
        BY <2>0, <2>2
      <3>3. m[1] + 1 \in 2 .. n /\ m[1] + 1 - 1 = m[1]
        BY <1>1, <2>0
      <3>4. m[2] \in Form!Way(l[m[1] + 1 - 1], l[m[1] + 1])
        BY <1>3, <3>1, <3>3
      <3>5. <<m[1] + 1, m[2]>> \in Form!Metres(l)
        BY <2>0, <3>3, <3>4 DEF Form!Metres
      <3>q. QED
        BY <3>2, <3>5
    <2>3. CASE m[1] = i
      <3>1. s[m[1] - 1] = l[i - 1] /\ s[m[1]] = l[i + 1]
        <4>1. /\ i - 1 \in 1 .. n - 1 /\ i \in 1 .. n - 1 /\ i - 1 < i
          BY <1>1, <2>0, <2>3
        <4>q. QED
          BY <1>2, <2>3, <4>1
      <3>2. m[2] \in Form!Way(l[i - 1], l[i + 1])
        BY <1>3, <2>3, <3>1
      <3>3. CASE m[2] \in Form!Way(l[i - 1], l[i])
        <4>1. to(m) = m
          BY <2>3, <3>3
        <4>2. m \in (2 .. n) \X Form!Places
          BY <1>1, <2>0
        <4>q. QED
          BY <2>3, <3>3, <4>1, <4>2 DEF Form!Metres
      <3>4. CASE m[2] \notin Form!Way(l[i - 1], l[i])
        <4>1. to(m) = <<i + 1, m[2]>>
          BY <2>3, <3>4
        <4>2. i + 1 \in 2 .. n /\ i + 1 - 1 = i
          BY <1>1, <2>0, <2>3
        <4>3. m[2] \in Form!Way(l[i], l[i + 1])
          <5>1. l[i - 1] \in Int /\ l[i] \in Int /\ l[i + 1] \in Int
            <6>1. i - 1 \in 1 .. n /\ i \in 1 .. n /\ i + 1 \in 1 .. n
              BY <1>1, <2>0, <2>3
            <6>q. QED
              BY <1>1, <6>1 DEF Form!Places
          <5> DEFINE a == l[i - 1]
                     b == l[i]
                     c == l[i + 1]
          <5>2. m[2] \in Form!Way(a, c) /\ m[2] \notin Form!Way(a, b)
            BY <3>2, <3>4
          <5>3. a \in Int /\ b \in Int /\ c \in Int
            BY <5>1
          <5> HIDE DEF a, b, c
          <5>4. m[2] \in Form!Way(b, c)
            BY <5>2, <5>3, <2>0 DEF Form!Way, Form!Places
          <5>q. QED
            BY <5>4 DEF b, c
        <4>4. <<i + 1, m[2]>> \in Form!Metres(l)
          BY <2>0, <4>2, <4>3 DEF Form!Metres
        <4>q. QED
          BY <4>1, <4>4
      <3>q. QED
        BY <3>3, <3>4
    <2>q. QED
      BY <1>1, <2>0, <2>1, <2>2, <2>3
  <1>5. ASSUME NEW m \in Form!Metres(s), NEW k \in Form!Metres(s), to(m) = to(k) PROVE m = k
    <2>1. /\ m = <<m[1], m[2]>> /\ m[1] \in Int /\ i \in Int
          /\ k = <<k[1], k[2]>> /\ k[1] \in Int
      BY <1>3
    <2>2. m[2] = k[2]
      <3>1. to(m)[2] = m[2] /\ to(k)[2] = k[2]
        OBVIOUS
      <3>q. QED
        BY <1>5, <3>1
    <2>3. m[1] = k[1]
      BY <1>5, <2>1, <2>2
    <2>q. QED
      BY <2>1, <2>2, <2>3
  <1>6. f \in Injection(Form!Metres(s), Form!Metres(l))
    BY <1>4, <1>5 DEF Injection, IsInjective
  <1>7. IsFiniteSet(Form!Metres(l))
    BY FormCounted
  <1>8. Cardinality(Form!Metres(s)) <= Cardinality(Form!Metres(l))
    BY <1>6, <1>7, FS_Injection
  <1>q. QED
    BY <1>8, FormLengthIs DEF s

\* What the kind k allows a line to be.
FormFits(l, k) ==
    Len(l) <= Rule[k].max_points /\ Form!pathLengthMeters(l) <= Rule[k].max_m

\* A click never makes a line too long: where the way to the place is longer
\* than the room left, the line stops on it before.
LEMMA FormExtended ==
  ASSUME Form!BoundsAssumption, Form!RuleAssumption, NEW k \in LineKinds,
         NEW l \in Seq(Form!Places), NEW p \in Form!Places
  PROVE /\ Form!extendLine(l, p, Rule[k]) \in Seq(Form!Places)
        /\ FormFits(l, k) => FormFits(Form!extendLine(l, p, Rule[k]), k)
  <1> DEFINE rule == Rule[k]
             long == Form!pathLengthMeters(l)
             room == rule.max_m - long
             last == Form!Last(l)
             dist == Form!metersBetween(last, p)
             on == Form!Toward(last, p, room - 1)
             s == Form!extendLine(l, p, rule)
  <1>1. /\ rule.max_m \in Nat /\ rule.max_points \in Nat /\ rule.max_points >= 1
    BY DEF Form!RuleAssumption
  <1>2. long \in Nat /\ Len(l) \in Nat
    BY FormCounted, LenProperties
  <1>3. CASE Len(l) >= rule.max_points
    BY <1>3 DEF Form!extendLine
  <1>4. CASE Len(l) < rule.max_points /\ l = <<>>
    <2>1. s = <<p>>
      BY <1>1, <1>2, <1>4 DEF Form!extendLine
    <2>2. s \in Seq(Form!Places) /\ Len(s) = 1
      BY <2>1
    <2>3. Form!pathLengthMeters(s) = 0
      BY <2>2, FormShort
    <2>q. QED
      BY <1>1, <2>2, <2>3 DEF FormFits
  <1>5. CASE Len(l) < rule.max_points /\ l # <<>>
    <2>1. last \in Form!Places /\ last \in Int /\ p \in Int /\ MaxPlace \in Int
      <3>1. Len(l) \in 1 .. Len(l)
        BY <1>2, <1>5, EmptySeq
      <3>q. QED
        BY <3>1, ElementOfSeq DEF Form!Last, Form!Places, Form!BoundsAssumption
    <2>2. ASSUME NEW q \in Form!Places, Form!metersBetween(last, q) <= room
          PROVE /\ Append(l, q) \in Seq(Form!Places)
                /\ FormFits(l, k) => FormFits(Append(l, q), k)
      <3>1. /\ Append(l, q) \in Seq(Form!Places) /\ Len(Append(l, q)) = Len(l) + 1
        BY AppendProperties
      <3>2. Form!pathLengthMeters(Append(l, q)) = long + Form!metersBetween(last, q)
        BY <1>5, FormLonger
      <3>3. Form!metersBetween(last, q) \in Int
        BY <2>1 DEF Form!metersBetween, Form!Places
      <3> HIDE DEF long, last
      <3>4. long + Form!metersBetween(last, q) <= rule.max_m
        BY <1>1, <1>2, <2>2, <3>3
      <3>5. Len(l) + 1 <= rule.max_points
        BY <1>1, <1>2, <1>5
      <3>q. QED
        BY <3>1, <3>2, <3>4, <3>5 DEF FormFits
    <2>3. CASE dist <= room
      <3>1. s = Append(l, p)
        BY <1>1, <1>2, <1>5, <2>3 DEF Form!extendLine
      <3>q. QED
        BY <2>2, <2>3, <3>1
    <2>4. CASE ~(dist <= room) /\ (room - 1 <= 1 \/ dist = 0)
      <3>1. s = l
        BY <1>1, <1>2, <1>5, <2>4 DEF Form!extendLine
      <3>q. QED
        BY <3>1
    <2>5. CASE ~(dist <= room) /\ ~(room - 1 <= 1 \/ dist = 0)
      <3>1. s = Append(l, on)
        BY <1>1, <1>2, <1>5, <2>5 DEF Form!extendLine
      <3>2. room \in Int
        BY <1>1, <1>2
      <3> HIDE DEF long, last, rule, room
      <3>3. on \in Form!Places /\ Form!metersBetween(last, on) <= room
        BY <2>1, <2>5, <3>2 DEF Form!Toward, Form!metersBetween, Form!Places
      <3>q. QED
        BY <2>2, <3>1, <3>3 DEF rule
    <2>q. QED
      BY <2>3, <2>4, <2>5
  <1>q. QED
    BY <1>1, <1>2, <1>3, <1>4, <1>5
-----------------------------------------------------------------------------
FormFlags == {addOpen, addMobile, dragged, thanked} \subseteq BOOLEAN
FormValues ==
    /\ addLine \in Seq(Form!Places)
    /\ step \in Form!Steps
    /\ values \in {"blank", "right"}
    /\ nextId \in 1 .. MaxIds + 1
    /\ jobs \subseteq Form!Jobs
    /\ addFlight \in Form!Submissions \cup {None}
    /\ opened \in 0 .. MaxOpened
\* Photos get their URLs in the order they are prepared in, and one that came
\* after its panel was closed was never on the form.
FormPhotographed ==
    /\ photos \cup leaked \subseteq 1 .. nextId - 1
    /\ photos \cap leaked = {}
    /\ urls = photos \cup leaked
\* A closed panel shows the list and waits for nothing.
FormClosed ==
    /\ Form!Mounted => opened > 0
    /\ ~Form!Mounted => step = "list" /\ addFlight = None
\* The line of a kind was begun on its form, and grew by clicks.
FormLined == step \in LineKinds /\ ~dragged => FormFits(addLine, step)
FormSent ==
    /\ addFlight # None => addFlight.legal
    /\ thanked

FormInv == FormFlags /\ FormValues /\ FormPhotographed /\ FormClosed /\ FormLined /\ FormSent

FormAssumptions == Form!KindsAssumption /\ Form!RuleAssumption /\ Form!BoundsAssumption

LEMMA FormInitInv == ASSUME FormAssumptions, Form!Init PROVE FormInv
  <1>1. FormFlags
    BY DEF Form!Init, FormFlags
  <1>2. FormValues
    BY DEF Form!Init, FormValues, Form!Steps, FormAssumptions,
           Form!BoundsAssumption
  <1>3. FormPhotographed /\ FormClosed /\ FormSent
    BY DEF Form!Init, FormPhotographed, FormClosed, FormSent, Form!Mounted
  <1>4. FormLined
    BY DEF Form!Init, FormLined, FormAssumptions, Form!KindsAssumption
  <1>q. QED
    BY <1>1, <1>2, <1>3, <1>4 DEF FormInv

\* The fields are cleared and the photos go, with their URLs.
LEMMA FormCleared ==
  ASSUME FormInv, Form!reset, nextId' = nextId, leaked' = leaked
  PROVE FormPhotographed' /\ values' \in {"blank", "right"}
  BY DEF FormInv, FormPhotographed, Form!reset

LEMMA FormPanelStep ==
  ASSUME FormAssumptions, FormInv,
         \/ Form!MenuAddObject \/ Form!onClose \/ Form!Resize \/ Form!ShowList
         \/ \E k \in Form!Kinds : Form!pickKind(k)
         \/ \E v \in {"blank", "right"} : Form!SetValues(v)
  PROVE FormInv'
  <1>0. FormFlags /\ FormValues /\ FormPhotographed /\ FormClosed /\ FormLined /\ FormSent
    BY DEF FormInv
  <1>1. nextId' = nextId /\ jobs' = jobs /\ leaked' = leaked /\ thanked' = thanked
    BY DEF Form!MenuAddObject, Form!onClose, Form!Resize, Form!ShowList,
           Form!pickKind, Form!SetValues, Form!form, Form!seen
  <1>2. FormPhotographed' /\ values' \in {"blank", "right"}
    <2>1. CASE Form!onClose \/ (Form!Resize /\ Form!Mounted)
               \/ \E k \in Form!Kinds : Form!pickKind(k)
      <3>1. Form!reset
        BY <2>1 DEF Form!onClose, Form!Resize, Form!Unmount, Form!pickKind
      <3>q. QED
        BY <1>1, <3>1, FormCleared
    <2>2. CASE \/ Form!MenuAddObject \/ Form!ShowList \/ (Form!Resize /\ ~Form!Mounted)
               \/ \E v \in {"blank", "right"} : Form!SetValues(v)
      <3>1. /\ UNCHANGED <<photos, urls>>
            /\ values' \in {"blank", "right"}
        BY <1>0, <2>2 DEF Form!MenuAddObject, Form!Resize, Form!ShowList,
               Form!SetValues, Form!form, FormValues
      <3>q. QED
        BY <1>0, <1>1, <3>1 DEF FormPhotographed
    <2>q. QED
      BY <2>1, <2>2
  <1>3. addLine' \in Seq(Form!Places)
    <2>1. addLine' = addLine \/ addLine' = <<>>
      BY DEF Form!MenuAddObject, Form!onClose, Form!Resize, Form!ShowList,
             Form!pickKind, Form!SetValues
    <2>2. <<>> \in Seq(Form!Places)
      OBVIOUS
    <2>q. QED
      BY <1>0, <2>1, <2>2 DEF FormValues
  <1>4. FormLined'
    <2>1. CASE Form!MenuAddObject \/ \E k \in Form!Kinds : Form!pickKind(k)
      <3>1. addLine' = <<>>
        BY <2>1 DEF Form!MenuAddObject, Form!pickKind
      <3>2. ASSUME NEW k \in LineKinds PROVE FormFits(addLine', k)
        <4>1. Len(addLine') = 0
          BY <3>1
        <4>2. Form!pathLengthMeters(addLine') = 0
          BY <4>1, FormShort
        <4>q. QED
          BY <4>1, <4>2 DEF FormFits, FormAssumptions, Form!RuleAssumption
      <3>3. ASSUME step' \in LineKinds PROVE FormFits(addLine', step')
        BY <3>2, <3>3
      <3>q. QED
        BY <3>3 DEF FormLined, FormFits
    <2>2. CASE Form!onClose \/ Form!ShowList \/ (Form!Resize /\ Form!Mounted)
      <3>1. step' = "list"
        BY <2>2 DEF Form!onClose, Form!ShowList, Form!Resize, Form!Unmount
      <3>q. QED
        BY <3>1 DEF FormLined, FormAssumptions, Form!KindsAssumption
    <2>3. CASE (Form!Resize /\ ~Form!Mounted) \/ \E v \in {"blank", "right"} : Form!SetValues(v)
      <3>1. UNCHANGED <<step, addLine, dragged>>
        BY <2>3 DEF Form!Resize, Form!SetValues, Form!seen
      <3>q. QED
        BY <1>0, <3>1 DEF FormLined, FormFits
    <2>q. QED
      BY <2>1, <2>2, <2>3
  <1>5. /\ step' \in Form!Steps /\ addFlight' \in Form!Submissions \cup {None}
    BY <1>0 DEF Form!MenuAddObject, Form!onClose, Form!Resize, Form!ShowList,
           Form!pickKind, Form!SetValues,
       Form!Unmount, FormValues, Form!Steps
  <1>6. FormClosed' /\ opened' \in 0 .. MaxOpened
    <2>1. CASE Form!MenuAddObject
      <3>1. Form!Mounted' /\ UNCHANGED <<step, addFlight>>
        BY <2>1 DEF Form!MenuAddObject, Form!Mounted
      <3>2. opened' > 0 /\ opened' \in 0 .. MaxOpened
        BY <1>0, <2>1
        DEF Form!MenuAddObject, Form!Mount, FormClosed, FormValues, FormAssumptions, Form!BoundsAssumption
      <3>q. QED
        BY <3>1, <3>2 DEF FormClosed
    <2>2. CASE Form!onClose
      BY <1>0, <2>2 DEF Form!onClose, Form!Unmount, FormClosed, Form!Mounted,
             FormValues
    <2>3. CASE Form!Resize
      <3>1. CASE Form!Mounted
        BY <1>0, <2>3, <3>1
           DEF Form!Resize, Form!Unmount, FormClosed, Form!Mounted, FormValues
      <3>2. CASE ~Form!Mounted
        <4>1. UNCHANGED <<step, addFlight>>
          BY <2>3, <3>2 DEF Form!Resize
        <4>2. opened' \in 0 .. MaxOpened /\ (Form!Mounted' => opened' > 0)
          BY <1>0, <2>3, <3>2
          DEF Form!Resize, Form!Mount, Form!Mounted, FormValues, FormAssumptions, Form!BoundsAssumption
        <4>q. QED
          BY <1>0, <3>2, <4>1, <4>2 DEF FormClosed
      <3>q. QED
        BY <3>1, <3>2
    <2>4. CASE \/ Form!ShowList \/ \E k \in Form!Kinds : Form!pickKind(k)
               \/ \E v \in {"blank", "right"} : Form!SetValues(v)
      <3>1. /\ Form!Mounted /\ UNCHANGED <<Form!mark, opened>>
        BY <2>4 DEF Form!ShowList, Form!pickKind, Form!SetValues, Form!OnForm,
               Form!seen
      <3>2. Form!Mounted'
        BY <3>1 DEF Form!Mounted, Form!mark
      <3>q. QED
        BY <1>0, <3>1, <3>2 DEF FormClosed, FormValues
    <2>q. QED
      BY <2>1, <2>2, <2>3, <2>4
  <1>7. FormSent'
    <2>1. addFlight' = None \/ addFlight' = addFlight
      BY DEF Form!MenuAddObject, Form!onClose, Form!Resize, Form!ShowList,
             Form!pickKind, Form!SetValues, Form!Unmount
    <2>q. QED
      BY <1>0, <1>1, <2>1 DEF FormSent
  <1>8. FormFlags'
    <2>1. {addOpen', addMobile', dragged'} \subseteq BOOLEAN
      BY <1>0
      DEF Form!MenuAddObject, Form!onClose, Form!Resize, Form!ShowList, Form!pickKind, Form!SetValues, Form!mark,
          Form!seen, FormFlags
    <2>q. QED
      BY <1>0, <1>1, <2>1 DEF FormFlags
  <1>9. FormValues'
    BY <1>0, <1>1, <1>2, <1>3, <1>5, <1>6 DEF FormValues
  <1>q. QED
    BY <1>2, <1>4, <1>6, <1>7, <1>8, <1>9 DEF FormInv

\* A line is drawn by clicks, cut, and changed by dragging.
LEMMA FormLineStep ==
  ASSUME FormAssumptions, FormInv,
         \/ \E p \in ClickAt : Form!ClickLine(p)
         \/ \E i \in DOMAIN addLine :
               Form!DeleteVertex(i) \/ \E p \in DragTo : Form!DragVertex(i, p)
         \/ Form!Undo
         \/ Form!ClearLine
  PROVE FormInv'
  <1>0. FormFlags /\ FormValues /\ FormPhotographed /\ FormClosed /\ FormLined /\ FormSent
    BY DEF FormInv
  <1>1. /\ Form!DrawingLine
        /\ UNCHANGED <<Form!mark, step, Form!form, addFlight, opened, leaked, thanked>>
    BY DEF Form!ClickLine, Form!DeleteVertex, Form!DragVertex, Form!Undo,
           Form!ClearLine, Form!SetLine
  <1>2. step \in LineKinds /\ addLine \in Seq(Form!Places) /\ DOMAIN addLine = 1 .. Len(addLine)
    BY <1>0, <1>1, LenProperties DEF Form!DrawingLine, FormValues
  <1>3. Form!BoundsAssumption /\ Form!RuleAssumption
    BY DEF FormAssumptions
  <1>4. /\ addLine' \in Seq(Form!Places) /\ dragged' \in BOOLEAN
        /\ ~dragged' => FormFits(addLine', step)
    <2>1. ASSUME NEW p \in ClickAt, Form!ClickLine(p)
          PROVE /\ addLine' \in Seq(Form!Places) /\ dragged' \in BOOLEAN
                /\ ~dragged' => FormFits(addLine', step)
      <3>1. p \in Form!Places
        BY <1>3 DEF Form!BoundsAssumption, Form!Places
      <3>2. addLine' = Form!extendLine(addLine, p, Rule[step]) /\ dragged' = dragged
        BY <2>1 DEF Form!ClickLine, Form!SetLine
      <3>q. QED
        BY <1>0, <1>2, <1>3, <3>1, <3>2, FormExtended DEF FormLined, FormFlags
    <2>2. ASSUME NEW i \in DOMAIN addLine, Form!DeleteVertex(i)
          PROVE /\ addLine' \in Seq(Form!Places) /\ dragged' \in BOOLEAN
                /\ ~dragged' => FormFits(addLine', step)
      <3>1. i \in 1 .. Len(addLine)
        BY <1>2
      <3>2. addLine' = Form!RemoveAt(addLine, i) /\ dragged' = dragged
        BY <2>2 DEF Form!DeleteVertex, Form!SetLine
      <3>3. addLine' \in Seq(Form!Places) /\ Len(addLine') = Len(addLine) - 1
        BY <1>2, <3>1, <3>2, FormRemoved
      <3>4. Form!pathLengthMeters(addLine') <= Form!pathLengthMeters(addLine)
        BY <1>2, <1>3, <3>1, <3>2, FormAcross
      <3>5. ~dragged => FormFits(addLine, step)
        BY <1>0, <1>2 DEF FormLined
      <3>6. /\ Form!pathLengthMeters(addLine') \in Nat /\ Form!pathLengthMeters(addLine) \in Nat
            /\ Len(addLine) \in Nat
        BY <1>2, <1>3, <3>3, FormCounted, LenProperties
      <3>7. Rule[step].max_m \in Nat /\ Rule[step].max_points \in Nat
        BY <1>2, <1>3 DEF Form!RuleAssumption
      <3>8. ~dragged => FormFits(addLine', step)
        BY <3>3, <3>4, <3>5, <3>6, <3>7 DEF FormFits
      <3>q. QED
        BY <1>0, <3>2, <3>3, <3>8 DEF FormFlags
    <2>3. ASSUME NEW i \in DOMAIN addLine, NEW p \in DragTo, Form!DragVertex(i, p)
          PROVE /\ addLine' \in Seq(Form!Places) /\ dragged' \in BOOLEAN
                /\ ~dragged' => FormFits(addLine', step)
      <3>1. i \in 1 .. Len(addLine) /\ p \in Form!Places
        BY <1>2, <1>3 DEF Form!BoundsAssumption, Form!Places
      <3>2. addLine' = [addLine EXCEPT ![i] = p] /\ dragged' = TRUE
        BY <2>3 DEF Form!DragVertex, Form!SetLine, Form!ReplaceAt
      <3>q. QED
        BY <1>2, <3>1, <3>2, ExceptSeq
    <2>4. ASSUME Form!Undo
          PROVE /\ addLine' \in Seq(Form!Places) /\ dragged' \in BOOLEAN
                /\ ~dragged' => FormFits(addLine', step)
      <3>1. addLine # <<>> /\ addLine' = Form!Front(addLine) /\ dragged' = dragged
        BY <2>4 DEF Form!Undo, Form!SetLine
      <3>2. addLine' \in Seq(Form!Places) /\ Len(addLine') = Len(addLine) - 1
        BY <1>2, <3>1, FormFronted
      <3>3. Form!pathLengthMeters(addLine') <= Form!pathLengthMeters(addLine)
        BY <1>2, <1>3, <3>1, FormShorter
      <3>4. ~dragged => FormFits(addLine, step)
        BY <1>0, <1>2 DEF FormLined
      <3>5. /\ Form!pathLengthMeters(addLine') \in Nat /\ Form!pathLengthMeters(addLine) \in Nat
            /\ Len(addLine) \in Nat
        BY <1>2, <1>3, <3>2, FormCounted, LenProperties
      <3>6. Rule[step].max_m \in Nat /\ Rule[step].max_points \in Nat
        BY <1>2, <1>3 DEF Form!RuleAssumption
      <3>7. ~dragged => FormFits(addLine', step)
        BY <3>2, <3>3, <3>4, <3>5, <3>6 DEF FormFits
      <3>q. QED
        BY <1>0, <3>1, <3>2, <3>7 DEF FormFlags
    <2>5. ASSUME Form!ClearLine
          PROVE /\ addLine' \in Seq(Form!Places) /\ dragged' \in BOOLEAN
                /\ ~dragged' => FormFits(addLine', step)
      <3>1. addLine' = <<>> /\ dragged' = FALSE
        BY <2>5 DEF Form!ClearLine, Form!SetLine
      <3>2. Len(addLine') = 0 /\ addLine' \in Seq(Form!Places)
        BY <3>1
      <3>3. Form!pathLengthMeters(addLine') = 0
        BY <3>2, FormShort
      <3>4. Rule[step].max_m \in Nat /\ Rule[step].max_points \in Nat
        BY <1>2, <1>3 DEF Form!RuleAssumption
      <3>5. FormFits(addLine', step)
        BY <3>2, <3>3, <3>4 DEF FormFits
      <3>6. dragged' \in BOOLEAN
        BY <3>1
      <3>q. QED
        BY <3>2, <3>5, <3>6
    <2>q. QED
      BY <2>1, <2>2, <2>3, <2>4, <2>5
  <1>5. FormLined'
    <2>1. step' = step
      BY <1>1
    <2>q. QED
      BY <1>4, <2>1 DEF FormLined, FormFits
  <1>6. FormFlags'
    BY <1>0, <1>1, <1>4 DEF FormFlags, Form!mark
  <1>7. FormValues'
    BY <1>0, <1>1, <1>4 DEF FormValues, Form!form
  <1>8. FormPhotographed' /\ FormClosed' /\ FormSent'
    BY <1>0, <1>1 DEF FormPhotographed, FormClosed, FormSent, Form!Mounted,
           Form!mark, Form!form
  <1>q. QED
    BY <1>5, <1>6, <1>7, <1>8 DEF FormInv

\* A choice of files that is being prepared has one of them less to do.
LEMMA FormNextTyped ==
  ASSUME FormAssumptions, jobs \subseteq Form!Jobs, NEW j \in jobs
  PROVE Form!NextFile(j) \subseteq Form!Jobs
  <1>1. j \in [panel: 1 .. MaxOpened, no: 1 .. MaxJobs, left: 1 .. MaxIds]
    BY DEF Form!Jobs
  <1>2. MaxIds \in Nat
    BY DEF FormAssumptions, Form!BoundsAssumption
  <1>3. ASSUME j.left > 1 PROVE [j EXCEPT !.left = @ - 1] \in Form!Jobs
    <2>1. j.left - 1 \in 1 .. MaxIds
      BY <1>1, <1>2, <1>3
    <2>q. QED
      BY <1>1, <2>1 DEF Form!Jobs
  <1>q. QED
    BY <1>3 DEF Form!NextFile

LEMMA FormPhotoStep ==
  ASSUME FormAssumptions, FormInv,
         \/ \E n \in 1 .. MaxIds : Form!addFiles(n)
         \/ \E j \in jobs : Form!PhotoReady(j) \/ Form!PhotoFails(j)
         \/ \E id \in photos : Form!removePhoto(id)
  PROVE FormInv'
  <1>0. FormFlags /\ FormValues /\ FormPhotographed /\ FormClosed /\ FormLined /\ FormSent
    BY DEF FormInv
  <1>1. UNCHANGED <<Form!mark, addLine, step, values, addFlight, opened, dragged, thanked>>
    BY DEF Form!addFiles, Form!PhotoReady, Form!PhotoFails, Form!removePhoto,
           Form!seen
  <1>2. MaxIds \in Nat /\ MaxJobs \in Nat /\ MaxPhotos \in Nat /\ MaxOpened \in Nat
    BY DEF FormAssumptions, Form!BoundsAssumption
  <1>3. jobs' \subseteq Form!Jobs
    <2>1. ASSUME NEW n \in 1 .. MaxIds, Form!addFiles(n) PROVE jobs' \subseteq Form!Jobs
      <3> DEFINE room == MaxPhotos - Form!Cardinality(photos)
                 taken == IF n < room THEN n ELSE room
      <3>1. taken > 0 /\ Form!FreeNos # {} /\ Form!OnForm
            /\ jobs' = jobs \cup {[panel |-> opened, no |-> Form!FreeNo, left |-> taken]}
        BY <2>1 DEF Form!addFiles
      <3>2. room \in Int
        <4>1. photos \in SUBSET (1 .. MaxIds)
          BY <1>0, <1>2 DEF FormPhotographed, FormValues
        <4>2. IsFiniteSet(1 .. MaxIds)
          BY <1>2, FS_Interval
        <4>3. IsFiniteSet(photos)
          BY <4>1, <4>2, FS_Subset
        <4>q. QED
          BY <1>2, <4>3, FS_CardinalityType, FormCounting
      <3>3. taken \in 1 .. MaxIds
        <4> HIDE DEF room
        <4>q. QED
          BY <1>2, <3>1, <3>2
      <3>4. Form!FreeNo \in 1 .. MaxJobs
        BY <3>1 DEF Form!FreeNo, Form!FreeNos
      <3>5. opened \in 1 .. MaxOpened
        BY <1>0, <1>2, <3>1 DEF Form!OnForm, FormClosed, FormValues
      <3> HIDE DEF taken
      <3>6. [panel |-> opened, no |-> Form!FreeNo, left |-> taken] \in Form!Jobs
        BY <3>3, <3>4, <3>5 DEF Form!Jobs
      <3>q. QED
        BY <1>0, <3>1, <3>6 DEF FormValues
    <2>2. ASSUME NEW j \in jobs, Form!PhotoReady(j) \/ Form!PhotoFails(j)
          PROVE jobs' \subseteq Form!Jobs
      <3>1. jobs' = Form!NextFile(j)
        BY <2>2 DEF Form!PhotoReady, Form!PhotoFails
      <3>q. QED
        BY <1>0, <3>1, FormNextTyped DEF FormValues
    <2>3. ASSUME NEW id \in photos, Form!removePhoto(id) PROVE jobs' \subseteq Form!Jobs
      BY <1>0, <2>3 DEF Form!removePhoto, FormValues
    <2>q. QED
      BY <2>1, <2>2, <2>3
  <1>4. nextId' \in 1 .. MaxIds + 1 /\ FormPhotographed'
    <2>0. nextId \in 1 .. MaxIds + 1
      BY <1>0 DEF FormValues
    <2>1. ASSUME NEW j \in jobs, Form!PhotoReady(j)
          PROVE nextId' \in 1 .. MaxIds + 1 /\ FormPhotographed'
      <3>1. /\ nextId <= MaxIds /\ nextId' = nextId + 1
            /\ urls' = urls \cup {nextId}
            /\ \/ photos' = photos \cup {nextId} /\ leaked' = leaked
               \/ leaked' = leaked \cup {nextId} /\ photos' = photos
        BY <2>1 DEF Form!PhotoReady
      <3>2. nextId \notin photos \cup leaked
        BY <1>0, <2>0 DEF FormPhotographed
      <3>3. photos' \cup leaked' \subseteq 1 .. nextId' - 1
        <4>1. photos' \cup leaked' \subseteq (1 .. nextId - 1) \cup {nextId}
          BY <1>0, <3>1 DEF FormPhotographed
        <4>2. (1 .. nextId - 1) \cup {nextId} \subseteq 1 .. nextId' - 1
          BY <2>0, <3>1, <1>2
        <4>q. QED
          BY <4>1, <4>2
      <3>4. photos' \cap leaked' = {} /\ urls' = photos' \cup leaked'
        BY <1>0, <3>1, <3>2 DEF FormPhotographed
      <3>5. nextId' \in 1 .. MaxIds + 1
        BY <1>2, <2>0, <3>1
      <3>q. QED
        BY <3>3, <3>4, <3>5 DEF FormPhotographed
    <2>2. CASE (\E n \in 1 .. MaxIds : Form!addFiles(n)) \/ \E j \in jobs : Form!PhotoFails(j)
      <3>1. UNCHANGED <<photos, urls, nextId, leaked>>
        BY <2>2 DEF Form!addFiles, Form!PhotoFails, Form!seen
      <3>q. QED
        BY <1>0, <2>0, <3>1 DEF FormPhotographed
    <2>3. ASSUME NEW id \in photos, Form!removePhoto(id)
          PROVE nextId' \in 1 .. MaxIds + 1 /\ FormPhotographed'
      <3>1. /\ photos' = photos \ {id} /\ urls' = urls \ {id}
            /\ UNCHANGED <<nextId, leaked>>
        BY <2>3 DEF Form!removePhoto, Form!seen
      <3>q. QED
        BY <1>0, <2>0, <3>1 DEF FormPhotographed
    <2>q. QED
      BY <2>1, <2>2, <2>3
  <1>5. FormValues'
    BY <1>0, <1>1, <1>3, <1>4 DEF FormValues
  <1>6. FormFlags' /\ FormClosed' /\ FormSent'
    BY <1>0, <1>1 DEF FormFlags, FormClosed, FormSent, Form!Mounted, Form!mark
  <1>7. FormLined'
    BY <1>0, <1>1 DEF FormLined, FormFits
  <1>q. QED
    BY <1>4, <1>5, <1>6, <1>7 DEF FormInv

LEMMA FormSubmitStep ==
  ASSUME FormAssumptions, FormInv, Form!Submit PROVE FormInv'
  <1>0. FormFlags /\ FormValues /\ FormPhotographed /\ FormClosed /\ FormLined /\ FormSent
    BY DEF FormInv
  <1>1. CASE Form!send
    <2> DEFINE legal == step \in LineKinds => Form!Legal(addLine, Rule[step])
    <2>1. /\ Form!canSend
          /\ addFlight' = [kind |-> step, stored |-> FALSE, legal |-> legal]
          /\ UNCHANGED <<Form!mark, addLine, step, Form!form, Form!seen>>
      BY <1>1 DEF Form!send
    <2>2. legal
      <3> SUFFICES ASSUME step \in LineKinds PROVE Form!Legal(addLine, Rule[step])
        OBVIOUS
      <3>1. ~Form!lineProblem(addLine, step)
        BY <2>1 DEF Form!canSend, Form!findProblem
      <3>2. Len(addLine) \in Nat /\ Form!pathLengthMeters(addLine) \in Nat
        BY <1>0, FormCounted, LenProperties DEF FormValues, FormAssumptions
      <3>3. /\ Rule[step].max_points \in Nat
            /\ Rule[step].min_m \in Nat /\ Rule[step].max_m \in Nat
        BY DEF FormAssumptions, Form!RuleAssumption
      <3>q. QED
        BY <3>1, <3>2, <3>3 DEF Form!lineProblem, Form!Legal
    <2>3. legal \in BOOLEAN
      OBVIOUS
    <2>4. step \in Form!Kinds /\ Form!Mounted
      BY <2>1 DEF Form!canSend, Form!OnForm
    <2> HIDE DEF legal
    <2>5. addFlight' \in Form!Submissions /\ addFlight'.legal
      BY <2>1, <2>2, <2>3, <2>4 DEF Form!Submissions
    <2>6. FormClosed' /\ FormSent'
      BY <1>0, <2>1, <2>4, <2>5
         DEF FormClosed, FormSent, Form!Mounted, Form!mark, Form!seen
    <2>7. FormFlags' /\ FormValues'
      BY <1>0, <2>1, <2>5
         DEF FormFlags, FormValues, Form!mark, Form!seen, Form!form
    <2>8. FormPhotographed' /\ FormLined'
      BY <1>0, <2>1 DEF FormPhotographed, FormLined, FormFits, Form!form,
             Form!seen
    <2>q. QED
      BY <2>6, <2>7, <2>8 DEF FormInv
  <1>2. CASE Form!ServerStores \/ Form!Refused
    <2>1. UNCHANGED <<Form!mark, addLine, step, Form!form, Form!seen>>
      BY <1>2 DEF Form!ServerStores, Form!Refused
    <2>2. addFlight # None /\ addFlight \in Form!Submissions /\ addFlight.legal
      BY <1>0, <1>2 DEF Form!ServerStores, Form!Refused, FormValues, FormSent
    <2>3. addFlight' = None \/ (addFlight' \in Form!Submissions /\ addFlight'.legal)
      BY <1>2, <2>2 DEF Form!ServerStores, Form!Refused, Form!Submissions
    <2>4. FormClosed' /\ FormSent'
      BY <1>0, <2>1, <2>2, <2>3
         DEF FormClosed, FormSent, Form!Mounted, Form!mark, Form!seen
    <2>5. FormFlags' /\ FormValues'
      BY <1>0, <2>1, <2>3
         DEF FormFlags, FormValues, Form!mark, Form!seen, Form!form
    <2>6. FormPhotographed' /\ FormLined'
      BY <1>0, <2>1 DEF FormPhotographed, FormLined, FormFits, Form!form,
             Form!seen
    <2>q. QED
      BY <2>4, <2>5, <2>6 DEF FormInv
  <1>3. CASE Form!Answered
    <2>1. /\ addFlight # None /\ addFlight.stored /\ Form!reset
          /\ addLine' = <<>> /\ dragged' = FALSE /\ step' = "done"
          /\ thanked' = addFlight.stored /\ addFlight' = None
          /\ UNCHANGED <<Form!mark, nextId, jobs, opened, leaked>>
      BY <1>3 DEF Form!Answered, Form!Thanks
    <2>2. addFlight.stored \in BOOLEAN
      BY <1>0, <2>1 DEF FormValues, Form!Submissions
    <2>3. FormPhotographed' /\ values' \in {"blank", "right"}
      BY <2>1, FormCleared
    <2>4. FormFlags'
      BY <1>0, <2>1, <2>2 DEF FormFlags, Form!mark
    <2>5. FormValues'
      <3>1. addLine' \in Seq(Form!Places) /\ step' \in Form!Steps
        BY <2>1 DEF Form!Steps
      <3>q. QED
        BY <1>0, <2>1, <2>3, <3>1 DEF FormValues
    <2>6. FormClosed' /\ FormSent'
      BY <1>0, <2>1 DEF FormClosed, FormSent, Form!Mounted, Form!mark
    <2>7. FormLined'
      BY <2>1 DEF FormLined, FormAssumptions, Form!KindsAssumption
    <2>q. QED
      BY <2>3, <2>4, <2>5, <2>6, <2>7 DEF FormInv
  <1>q. QED
    BY <1>1, <1>2, <1>3 DEF Form!Submit

LEMMA FormStepInv == ASSUME FormAssumptions, FormInv, [Form!Next]_Form!vars PROVE FormInv'
  <1>1. ASSUME UNCHANGED Form!vars PROVE FormInv'
    <2>1. UNCHANGED <<Form!mark, addLine, step, Form!form, addFlight, Form!seen>>
      BY <1>1 DEF Form!vars
    <2>q. QED
      BY <2>1 DEF FormInv, FormFlags, FormValues, FormPhotographed, FormClosed,
             FormLined, FormSent, FormFits,
         Form!Mounted, Form!mark, Form!form, Form!seen
  <1>q. QED
    BY <1>1, FormPanelStep, FormLineStep, FormPhotoStep, FormSubmitStep
    DEF Form!Next, Form!Edit, Form!Photos

LEMMA FormRight ==
  ASSUME FormAssumptions, FormInv
  PROVE Form!TypeOK /\ Form!UrlsRight /\ Form!LineInRule /\ Form!SentRight
  <1>0. FormFlags /\ FormValues /\ FormPhotographed /\ FormClosed /\ FormLined /\ FormSent
    BY DEF FormInv
  <1>1. Form!TypeOK
    <2>1. photos \cup urls \cup leaked \subseteq 1 .. nextId - 1
      BY <1>0 DEF FormPhotographed
    <2>2. 1 .. nextId - 1 \subseteq Form!Ids
      BY <1>0 DEF FormValues, Form!Ids, FormAssumptions, Form!BoundsAssumption
    <2>q. QED
      BY <1>0, <2>1, <2>2 DEF Form!TypeOK, FormFlags, FormValues
  <1>2. Form!UrlsRight
    BY <1>0 DEF FormPhotographed, Form!UrlsRight
  <1>3. Form!LineInRule
    BY <1>0 DEF FormLined, Form!LineInRule, FormFits, Form!DrawingLine
  <1>4. Form!SentRight
    BY <1>0 DEF FormClosed, FormSent, Form!SentRight
  <1>q. QED
    BY <1>1, <1>2, <1>3, <1>4

\* However answers, files, clicks and closed panels overlap, a line that was
\* not dragged keeps to the rule of its kind, what is sent obeys it, thanks are
\* for what is stored, and URLs are those of the photos (AddObjectPanel.tsx,
\* useAddLine.ts).
THEOREM FormCorrect ==
  ASSUME FormAssumptions
  PROVE Form!Spec => [](Form!TypeOK /\ Form!UrlsRight /\ Form!LineInRule /\ Form!SentRight)
  <1>1. Form!Init => FormInv
    BY FormInitInv
  <1>2. FormInv /\ [Form!Next]_Form!vars => FormInv'
    BY FormStepInv
  <1>3. FormInv => Form!TypeOK /\ Form!UrlsRight /\ Form!LineInRule /\ Form!SentRight
    BY FormRight
  <1>q. QED
    BY <1>1, <1>2, <1>3, PTL DEF Form!Spec

-----------------------------------------------------------------------------
(* The view and its address (MapProvider).                               *)
ProviderFlags == {tiles, is3D, saved3D, satLayer, satellite, wantSatellite,
          savedSatellite, restored, idled, moving, timer, pressed, missed}
             \subseteq BOOLEAN
ProviderValues ==
    /\ style \in {"loading", "loaded"}
    /\ config \in {"asked", "given", "none"}
    /\ pitch \in Provider!Tilts
    /\ {goal, wasFlat} \subseteq Provider!Tilts \cup {None}
    /\ visible \subseteq Provider!Layers
    /\ center \in Spots
ProviderShown ==
    /\ url \in [city: Cities, sputnik: BOOLEAN, at: Spots]
    /\ place \in [city: Cities, inCity: BOOLEAN]
    /\ tab \in [city: Cities \cup {None}, sputnik: BOOLEAN]

\* The satellite is restored with the style and the source there, and not on
\* the map before.
ProviderRestored ==
    /\ restored <=> style = "loaded" /\ config = "given"
    /\ satLayer => restored
    /\ restored => (satLayer <=> wantSatellite)
ProviderPressed == pressed => (savedSatellite <=> wantSatellite)
ProviderTitled == url.sputnik = wantSatellite
\* Nothing covers the satellite; without it the ground and the flat buildings
\* show, and the solid ones by the tilt unless a change of it was missed.
ProviderClear(v, sat, tilt, miss) ==
    /\ sat => v = {}
    /\ ~sat => {"ground", "flat"} \subseteq v
    /\ ~sat /\ ~miss => ("solid" \in v <=> tilt = "tilted")
\* The layers are all visible until the style is there.  A tilt that was not
\* missed is the one the buildings were last drawn for.
ProviderDrawn ==
    /\ style = "loading" => visible = Provider!Layers
    /\ style = "loaded" => ProviderClear(visible, satLayer, pitch, missed)
    /\ ~missed => wasFlat \in {None, pitch}
ProviderTilted == goal = None => (is3D <=> pitch = "tilted") /\ (saved3D <=> is3D)

ProviderInv == /\ ProviderFlags /\ ProviderValues /\ ProviderShown
               /\ ProviderRestored /\ ProviderPressed /\ ProviderTitled /\ ProviderDrawn /\ ProviderTilted /\ Provider!AddressFollows

-----------------------------------------------------------------------------
\* A page that is written is that of a spot and a mode.
LEMMA ProviderWritten ==
  ASSUME Provider!SpotsAssumption, NEW spot \in Spots, NEW sputnik \in BOOLEAN
  PROVE /\ Provider!Url(spot, sputnik) \in [city: Cities, sputnik: BOOLEAN, at: Spots]
        /\ Provider!Url(spot, sputnik).sputnik = sputnik
        /\ Provider!Placed(spot) \in [city: Cities, inCity: BOOLEAN]
        /\ Provider!Tab(spot, sputnik) \in [city: Cities \cup {None}, sputnik: BOOLEAN]
  <1>1. NearestCity[spot] \in Cities
    BY DEF Provider!SpotsAssumption
  <1>2. (spot \in Near) \in BOOLEAN
    OBVIOUS
  <1>q. QED
    BY <1>1, <1>2 DEF Provider!Url, Provider!Placed, Provider!Tab

LEMMA ProviderSynced ==
  ASSUME Provider!SpotsAssumption, Provider!sync, center' \in Spots, wantSatellite' \in BOOLEAN
  PROVE ProviderShown' /\ ProviderTitled' /\ Provider!AddressFollows'
  BY ProviderWritten
     DEF Provider!sync, ProviderShown, ProviderTitled, Provider!AddressFollows

LEMMA ProviderInitInv == ASSUME Provider!SpotsAssumption, Provider!Init PROVE ProviderInv
  <1>1. ProviderFlags
    BY DEF Provider!Init, ProviderFlags
  <1>2. ProviderValues
    BY DEF Provider!Init, ProviderValues, Provider!Tilts
  <1>3. ProviderShown /\ ProviderTitled /\ Provider!AddressFollows
    <2>1. center \in Spots /\ wantSatellite \in BOOLEAN
      BY DEF Provider!Init
    <2>q. QED
      BY <2>1, ProviderWritten
         DEF Provider!Init, ProviderShown, ProviderTitled,
             Provider!AddressFollows
  <1>4. ProviderRestored /\ ProviderPressed
    BY DEF Provider!Init, ProviderRestored, ProviderPressed
  <1>5. ProviderDrawn
    BY DEF Provider!Init, ProviderDrawn
  <1>6. ProviderTilted
    BY DEF Provider!Init, ProviderTilted
  <1>q. QED
    BY <1>1, <1>2, <1>3, <1>4, <1>5, <1>6 DEF ProviderInv

LEMMA ProviderBuildings ==
  ASSUME NEW v \in SUBSET Provider!Layers, NEW tilt \in Provider!Tilts, NEW sat \in BOOLEAN
  PROVE /\ Provider!syncBuildings(v, tilt, sat) \subseteq Provider!Layers
        /\ sat => Provider!syncBuildings(v, tilt, sat) = v \ Provider!BuildingLayers
        /\ ~sat => "flat" \in Provider!syncBuildings(v, tilt, sat)
        /\ "ground" \in v => "ground" \in Provider!syncBuildings(v, tilt, sat)
        /\ ~sat => ("solid" \in Provider!syncBuildings(v, tilt, sat) <=> tilt = "tilted")
  BY DEF Provider!syncBuildings, Provider!applyBuildings,
         Provider!BuildingLayers, Provider!Layers, Provider!Tilts

LEMMA ProviderApplied ==
  ASSUME ProviderFlags, ProviderValues, NEW on \in BOOLEAN, NEW v \in SUBSET Provider!Layers,
         ProviderClear(v, satLayer, pitch, missed), Provider!applySatellite(on, v)
  PROVE /\ satLayer' = on /\ visible' \subseteq Provider!Layers
        /\ ProviderClear(visible', on, pitch, missed)
  <1>0. satLayer' = on /\ satLayer \in BOOLEAN /\ pitch \in Provider!Tilts
    BY DEF Provider!applySatellite, ProviderFlags, ProviderValues
  <1>1. CASE on = satLayer
    <2>1. visible' = v
      BY <1>1 DEF Provider!applySatellite
    <2>q. QED
      BY <1>0, <1>1, <2>1
  <1>2. CASE on # satLayer /\ on
    <2>1. visible' = Provider!syncBuildings(v \ {"ground"}, pitch, on)
      BY <1>2 DEF Provider!applySatellite
    <2>2. v \ {"ground"} \in SUBSET Provider!Layers
      OBVIOUS
    <2>3. visible' = (v \ {"ground"}) \ Provider!BuildingLayers
      BY <1>0, <1>2, <2>1, <2>2, ProviderBuildings
    <2>4. visible' = {}
      BY <2>3 DEF Provider!Layers
    <2>q. QED
      BY <1>0, <1>2, <2>4 DEF ProviderClear
  <1>3. CASE on # satLayer /\ ~on
    <2>1. visible' = Provider!syncBuildings(v \cup {"ground"}, pitch, on)
      BY <1>3 DEF Provider!applySatellite
    <2>2. v \cup {"ground"} \in SUBSET Provider!Layers
      BY DEF Provider!Layers
    <2>3. /\ visible' \subseteq Provider!Layers
          /\ "flat" \in visible' /\ "ground" \in visible'
          /\ ("solid" \in visible' <=> pitch = "tilted")
      BY <1>0, <1>3, <2>1, <2>2, ProviderBuildings
    <2>q. QED
      BY <1>0, <1>3, <2>3 DEF ProviderClear
  <1>q. QED
    BY <1>1, <1>2, <1>3

\* The effect that restores the satellite, with the layers v.
LEMMA ProviderEffect ==
  ASSUME ProviderInv, NEW v \in SUBSET Provider!Layers, NEW st \in {"loading", "loaded"},
         NEW cf \in {"asked", "given", "none"},
         restored => st = "loaded" /\ cf = "given",
         st = "loading" => v = Provider!Layers,
         st = "loaded" => ProviderClear(v, satLayer, pitch, missed),
         Provider!restore(v, st, cf), style' = st, config' = cf, pitch' = pitch,
         missed' = missed, wasFlat' = wasFlat, wantSatellite' = wantSatellite
  PROVE /\ ProviderRestored' /\ ProviderDrawn' /\ visible' \subseteq Provider!Layers
        /\ {restored', satLayer'} \subseteq BOOLEAN
  <1>0. {satLayer, wantSatellite, restored} \subseteq BOOLEAN
    BY DEF ProviderInv, ProviderFlags
  <1>1. CASE st = "loaded" /\ cf = "given" /\ ~restored
    <2>1. restored' = TRUE /\ Provider!applySatellite(satLayer \/ wantSatellite, v)
      BY <1>1 DEF Provider!restore
    <2>2. (satLayer \/ wantSatellite) \in BOOLEAN
      OBVIOUS
    <2> DEFINE on == satLayer \/ wantSatellite
    <2>3. on \in BOOLEAN /\ (on <=> wantSatellite)
      BY <1>1, <2>2 DEF ProviderInv, ProviderRestored
    <2>4. Provider!applySatellite(on, v)
      BY <2>1
    <2> HIDE DEF on
    <2>5. /\ satLayer' = on /\ visible' \subseteq Provider!Layers
          /\ ProviderClear(visible', on, pitch, missed)
      BY <1>1, <2>3, <2>4, ProviderApplied DEF ProviderInv
    <2>6. ProviderRestored'
      BY <1>1, <2>1, <2>3, <2>5 DEF ProviderRestored
    <2>7. ProviderDrawn'
      BY <1>1, <2>5 DEF ProviderInv, ProviderDrawn
    <2>q. QED
      BY <2>1, <2>3, <2>5, <2>6, <2>7
  <1>2. CASE ~(st = "loaded" /\ cf = "given" /\ ~restored)
    <2>1. visible' = v /\ restored' = restored /\ satLayer' = satLayer
      BY <1>2 DEF Provider!restore
    <2>2. ProviderRestored'
      BY <1>2, <2>1 DEF ProviderInv, ProviderRestored
    <2>3. ProviderDrawn'
      BY <2>1 DEF ProviderInv, ProviderDrawn
    <2>q. QED
      BY <1>0, <2>1, <2>2, <2>3
  <1>q. QED
    BY <1>1, <1>2

LEMMA ProviderLoadStep ==
  ASSUME Provider!SpotsAssumption, ProviderInv,
         Provider!StyleLoads \/ \E c \in {"given", "none"} : Provider!ConfigArrives(c)
  PROVE ProviderInv'
  <1>0. /\ ProviderFlags /\ ProviderValues /\ ProviderShown /\ ProviderRestored /\ ProviderPressed /\ ProviderTitled
        /\ ProviderDrawn /\ ProviderTilted /\ Provider!AddressFollows
    BY DEF ProviderInv
  <1>1. ProviderRestored' /\ ProviderDrawn' /\ visible' \subseteq Provider!Layers
        /\ {restored', satLayer'} \subseteq BOOLEAN
    <2>1. CASE Provider!StyleLoads
      <3>1. ~restored /\ ~satLayer /\ visible = Provider!Layers
        BY <1>0, <2>1 DEF Provider!StyleLoads, ProviderRestored, ProviderDrawn
      <3> DEFINE v == Provider!syncBuildings(visible, pitch, satLayer)
      <3>2. satLayer \in BOOLEAN /\ pitch \in Provider!Tilts /\ visible \in SUBSET Provider!Layers
            /\ config \in {"asked", "given", "none"}
        BY <1>0 DEF ProviderFlags, ProviderValues
      <3>3. v \subseteq Provider!Layers /\ "flat" \in v /\ "ground" \in v
            /\ ("solid" \in v <=> pitch = "tilted")
        BY <3>1, <3>2, ProviderBuildings DEF Provider!Layers
      <3>4. Provider!restore(v, "loaded", config)
        BY <2>1 DEF Provider!StyleLoads
      <3> HIDE DEF v
      <3>5. ProviderClear(v, satLayer, pitch, missed)
        BY <3>1, <3>3 DEF ProviderClear
      <3>6. /\ style' = "loaded" /\ config' = config /\ pitch' = pitch
            /\ missed' = missed /\ wasFlat' = wasFlat
            /\ wantSatellite' = wantSatellite
        BY <2>1 DEF Provider!StyleLoads
      <3>q. QED
        BY <3>1, <3>2, <3>3, <3>4, <3>5, <3>6, ProviderEffect
    <2>2. ASSUME NEW c \in {"given", "none"}, Provider!ConfigArrives(c)
          PROVE /\ ProviderRestored' /\ ProviderDrawn' /\ visible' \subseteq Provider!Layers
                /\ {restored', satLayer'} \subseteq BOOLEAN
      <3>1. ~restored
        BY <1>0, <2>2 DEF Provider!ConfigArrives, ProviderRestored
      <3>2. /\ visible \in SUBSET Provider!Layers /\ style \in {"loading", "loaded"}
            /\ c \in {"asked", "given", "none"}
        BY <1>0, <2>2 DEF ProviderValues
      <3>3. /\ Provider!restore(visible, style, c) /\ style' = style /\ config' = c
            /\ pitch' = pitch /\ missed' = missed /\ wasFlat' = wasFlat
            /\ wantSatellite' = wantSatellite
        BY <2>2 DEF Provider!ConfigArrives
      <3>4. /\ style = "loading" => visible = Provider!Layers
            /\ style = "loaded" => ProviderClear(visible, satLayer, pitch, missed)
        BY <1>0 DEF ProviderDrawn
      <3>q. QED
        BY <3>1, <3>2, <3>3, <3>4, ProviderEffect
    <2>q. QED
      BY <2>1, <2>2
  <1>2. UNCHANGED <<tiles, idled, pitch, goal, wasFlat, is3D, saved3D, missed,
           wantSatellite, savedSatellite, pressed, satellite, Provider!moves, Provider!shown>>
    BY DEF Provider!StyleLoads, Provider!ConfigArrives
  <1>3. style' \in {"loading", "loaded"} /\ config' \in {"asked", "given", "none"}
    BY <1>0 DEF Provider!StyleLoads, Provider!ConfigArrives, ProviderValues
  <1>4. ProviderFlags'
    BY <1>0, <1>1, <1>2 DEF ProviderFlags, Provider!moves
  <1>5. ProviderValues'
    BY <1>0, <1>1, <1>2, <1>3 DEF ProviderValues, Provider!moves
  <1>6. ProviderShown' /\ ProviderTitled' /\ Provider!AddressFollows'
    BY <1>0, <1>2 DEF ProviderShown, ProviderTitled, Provider!AddressFollows,
           Provider!moves, Provider!shown
  <1>7. ProviderPressed' /\ ProviderTilted'
    BY <1>0, <1>2 DEF ProviderPressed, ProviderTilted
  <1>q. QED
    BY <1>1, <1>4, <1>5, <1>6, <1>7 DEF ProviderInv

\* The address is written again, and the layers stay.
LEMMA ProviderWriteStep ==
  ASSUME Provider!SpotsAssumption, ProviderInv, Provider!StyleData \/ Provider!Idle \/ Provider!TimerFires PROVE ProviderInv'
  <1>0. /\ ProviderFlags /\ ProviderValues /\ ProviderShown /\ ProviderRestored /\ ProviderPressed /\ ProviderTitled
        /\ ProviderDrawn /\ ProviderTilted /\ Provider!AddressFollows
    BY DEF ProviderInv
  <1>1. /\ Provider!sync
        /\ UNCHANGED <<style, config, tiles, restored, Provider!tilts, visible, Provider!sats, center, moving>>
    BY DEF Provider!StyleData, Provider!Idle, Provider!TimerFires,
           Provider!loads, Provider!moves
  <1>2. ProviderFlags'
    <2>1. {satellite', idled', timer'} \subseteq BOOLEAN
      BY <1>0 DEF Provider!StyleData, Provider!Idle, Provider!TimerFires,
             ProviderFlags, Provider!loads, Provider!moves
    <2>q. QED
      BY <1>0, <1>1, <2>1 DEF ProviderFlags, Provider!tilts, Provider!sats
  <1>3. ProviderValues'
    BY <1>0, <1>1 DEF ProviderValues, Provider!tilts
  <1>4. ProviderShown' /\ ProviderTitled' /\ Provider!AddressFollows'
    <2>1. center' \in Spots /\ wantSatellite' \in BOOLEAN
      BY <1>2, <1>3 DEF ProviderFlags, ProviderValues
    <2>q. QED
      BY <1>1, <2>1, ProviderSynced
  <1>5. ProviderRestored' /\ ProviderPressed'
    BY <1>0, <1>1 DEF ProviderRestored, ProviderPressed, Provider!sats
  <1>6. ProviderDrawn' /\ ProviderTilted'
    BY <1>0, <1>1 DEF ProviderDrawn, ProviderTilted, Provider!sats,
           Provider!tilts
  <1>q. QED
    BY <1>2, <1>3, <1>4, <1>5, <1>6 DEF ProviderInv

LEMMA ProviderToggleStep ==
  ASSUME Provider!SpotsAssumption, ProviderInv, Provider!toggleSatellite PROVE ProviderInv'
  <1>0. /\ ProviderFlags /\ ProviderValues /\ ProviderShown /\ ProviderRestored /\ ProviderPressed /\ ProviderTitled
        /\ ProviderDrawn /\ ProviderTilted /\ Provider!AddressFollows
    BY DEF ProviderInv
  <1> DEFINE on == ~satLayer
  <1>1. /\ config = "given" /\ style = "loaded" /\ Provider!applySatellite(on, visible)
        /\ savedSatellite' = on /\ wantSatellite' = on
        /\ pressed' = TRUE
        /\ Provider!sync
        /\ UNCHANGED <<Provider!loads, Provider!tilts, satellite, Provider!moves>>
    BY DEF Provider!toggleSatellite
  <1>2. on \in BOOLEAN
    OBVIOUS
  <1> HIDE DEF on
  <1>3. ProviderClear(visible, satLayer, pitch, missed) /\ visible \in SUBSET Provider!Layers
    BY <1>0, <1>1 DEF ProviderDrawn, ProviderValues
  <1>4. /\ satLayer' = on /\ visible' \subseteq Provider!Layers
        /\ ProviderClear(visible', on, pitch, missed)
    BY <1>0, <1>1, <1>2, <1>3, ProviderApplied
  <1>5. ProviderFlags'
    BY <1>0, <1>1, <1>2, <1>4
       DEF ProviderFlags, Provider!loads, Provider!tilts, Provider!moves
  <1>6. ProviderValues'
    BY <1>0, <1>1, <1>4
       DEF ProviderValues, Provider!loads, Provider!tilts, Provider!moves
  <1>7. ProviderShown' /\ ProviderTitled' /\ Provider!AddressFollows'
    <2>1. center' \in Spots /\ wantSatellite' \in BOOLEAN
      BY <1>5, <1>6 DEF ProviderFlags, ProviderValues
    <2>q. QED
      BY <1>1, <2>1, ProviderSynced
  <1>8. ProviderRestored'
    BY <1>0, <1>1, <1>4 DEF ProviderRestored, Provider!loads
  <1>9. ProviderPressed'
    BY <1>1 DEF ProviderPressed
  <1>10. ProviderDrawn' /\ ProviderTilted'
    BY <1>0, <1>1, <1>4
       DEF ProviderDrawn, ProviderTilted, Provider!tilts, Provider!loads
  <1>q. QED
    BY <1>5, <1>6, <1>7, <1>8, <1>9, <1>10 DEF ProviderInv

\* The map moves, and the address is written when it has stopped.
LEMMA ProviderMoveStep ==
  ASSUME Provider!SpotsAssumption, ProviderInv,
         \/ Provider!toggle3D \/ Provider!TiltEnds \/ Provider!MoveEnds
         \/ \E tilt \in Provider!Tilts : Provider!TiltByHand(tilt)
         \/ \E spot \in Spots : Provider!Move(spot)
  PROVE ProviderInv'
  <1>0. /\ ProviderFlags /\ ProviderValues /\ ProviderShown /\ ProviderRestored /\ ProviderPressed /\ ProviderTitled
        /\ ProviderDrawn /\ ProviderTilted /\ Provider!AddressFollows
    BY DEF ProviderInv
  <1>1. UNCHANGED <<Provider!loads, pitch, wasFlat, missed, visible, Provider!sats, satellite, Provider!shown>>
    BY DEF Provider!toggle3D, Provider!TiltEnds, Provider!MoveEnds,
           Provider!TiltByHand, Provider!Move, Provider!tilts
  <1>2. /\ center' \in Spots /\ goal' \in Provider!Tilts \cup {None}
    BY <1>0 DEF Provider!toggle3D, Provider!TiltEnds, Provider!MoveEnds,
           Provider!TiltByHand, Provider!Move, Provider!tilts, ProviderValues,
       Provider!Tilts
  <1>3. {is3D', saved3D'} \subseteq BOOLEAN
    BY <1>0 DEF Provider!toggle3D, Provider!TiltEnds, Provider!MoveEnds,
           Provider!TiltByHand, Provider!Move, Provider!tilts, ProviderFlags,
       Provider!pitchend
  <1>4. {moving', timer'} \subseteq BOOLEAN /\ (moving' \/ timer')
    BY <1>0 DEF Provider!toggle3D, Provider!TiltEnds, Provider!MoveEnds,
           Provider!TiltByHand, Provider!Move, ProviderFlags
  <1>5. ProviderFlags'
    BY <1>0, <1>1, <1>3, <1>4 DEF ProviderFlags, Provider!loads, Provider!sats
  <1>6. ProviderValues'
    BY <1>0, <1>1, <1>2 DEF ProviderValues, Provider!loads
  <1>7. ProviderShown' /\ ProviderTitled' /\ Provider!AddressFollows'
    BY <1>0, <1>1, <1>4 DEF ProviderShown, ProviderTitled,
           Provider!AddressFollows, Provider!shown, Provider!sats
  <1>8. ProviderRestored' /\ ProviderPressed' /\ ProviderDrawn'
    BY <1>0, <1>1 DEF ProviderRestored, ProviderPressed, ProviderDrawn,
           Provider!loads, Provider!sats
  <1>9. ProviderTilted'
    <2>1. CASE Provider!toggle3D \/ \E tilt \in Provider!Tilts : Provider!TiltByHand(tilt)
      <3>1. goal' # None
        BY <2>1 DEF Provider!toggle3D, Provider!TiltByHand, Provider!Tilts,
               Provider!SpotsAssumption
      <3>q. QED
        BY <3>1 DEF ProviderTilted
    <2>2. CASE Provider!TiltEnds \/ \E spot \in Spots : Provider!Move(spot)
      <3>1. Provider!pitchend /\ pitch' = pitch
        BY <1>1, <2>2 DEF Provider!TiltEnds, Provider!Move
      <3>2. CASE goal = None
        BY <1>0, <3>1, <3>2 DEF Provider!pitchend, ProviderTilted
      <3>3. CASE goal # None
        BY <3>1, <3>3 DEF Provider!pitchend, ProviderTilted
      <3>q. QED
        BY <3>2, <3>3
    <2>3. CASE Provider!MoveEnds
      BY <1>0, <2>3 DEF Provider!MoveEnds, Provider!tilts, ProviderTilted
    <2>q. QED
      BY <2>1, <2>2, <2>3
  <1>q. QED
    BY <1>5, <1>6, <1>7, <1>8, <1>9 DEF ProviderInv

LEMMA ProviderFrameStep ==
  ASSUME Provider!SpotsAssumption, ProviderInv, NEW tilt \in Provider!Tilts, Provider!PitchFrame(tilt)
  PROVE ProviderInv'
  <1>0. /\ ProviderFlags /\ ProviderValues /\ ProviderShown /\ ProviderRestored /\ ProviderPressed /\ ProviderTitled
        /\ ProviderDrawn /\ ProviderTilted /\ Provider!AddressFollows
    BY DEF ProviderInv
  <1>1. UNCHANGED <<Provider!loads, goal, is3D, saved3D, Provider!sats, satellite, Provider!moves, Provider!shown>>
    BY DEF Provider!PitchFrame
  <1>2. goal # None /\ pitch' = tilt
    BY DEF Provider!PitchFrame
  <1>3. missed' \in BOOLEAN
    BY <1>0 DEF Provider!PitchFrame, ProviderFlags
  <1>4. ProviderDrawn' /\ visible' \subseteq Provider!Layers /\ wasFlat' \in Provider!Tilts \cup {None}
    <2>1. CASE tilt = wasFlat \/ style = "loading" \/ tiles
      <3>1. UNCHANGED <<wasFlat, visible>>
        BY <2>1 DEF Provider!PitchFrame
      <3>2. ~missed' => ~missed /\ pitch' = pitch
        <4>1. ASSUME ~missed' PROVE ~missed /\ pitch' = pitch
          <5>1. ~missed /\ ~(tilt # pitch /\ (style = "loading" \/ tiles))
            BY <4>1 DEF Provider!PitchFrame
          <5>2. wasFlat \in {None, pitch}
            BY <1>0, <5>1 DEF ProviderDrawn
          <5>q. QED
            BY <1>2, <2>1, <5>1, <5>2 DEF Provider!SpotsAssumption
        <4>q. QED
          BY <4>1
      <3>q. QED
        BY <1>0, <1>1, <3>1, <3>2 DEF ProviderDrawn, ProviderClear,
               ProviderValues, Provider!loads, Provider!sats
    <2>2. CASE ~(tilt = wasFlat \/ style = "loading" \/ tiles)
      <3> DEFINE v == Provider!syncBuildings(visible, tilt, satLayer)
      <3>1. wasFlat' = tilt /\ visible' = v
        BY <2>2 DEF Provider!PitchFrame
      <3>2. style = "loaded" /\ satLayer \in BOOLEAN /\ visible \in SUBSET Provider!Layers
        BY <1>0, <2>2 DEF ProviderValues, ProviderFlags
      <3>3. /\ v \subseteq Provider!Layers
            /\ satLayer => v = visible \ Provider!BuildingLayers
            /\ ~satLayer => "flat" \in v
            /\ "ground" \in visible => "ground" \in v
            /\ ~satLayer => ("solid" \in v <=> tilt = "tilted")
        BY <3>2, ProviderBuildings
      <3> HIDE DEF v
      <3>4. ProviderClear(v, satLayer, tilt, missed')
        BY <1>0, <3>2, <3>3 DEF ProviderDrawn, ProviderClear
      <3>5. ProviderDrawn'
        BY <1>1, <1>2, <3>1, <3>2, <3>4
           DEF ProviderDrawn, Provider!loads, Provider!sats
      <3>q. QED
        BY <3>1, <3>3, <3>5
    <2>q. QED
      BY <2>1, <2>2
  <1>5. ProviderFlags'
    BY <1>0, <1>1, <1>3
       DEF ProviderFlags, Provider!loads, Provider!sats, Provider!moves
  <1>6. ProviderValues'
    BY <1>0, <1>1, <1>2, <1>4 DEF ProviderValues, Provider!loads, Provider!moves
  <1>7. ProviderShown' /\ ProviderTitled' /\ Provider!AddressFollows'
    BY <1>0, <1>1 DEF ProviderShown, ProviderTitled, Provider!AddressFollows,
           Provider!shown, Provider!sats, Provider!moves
  <1>8. ProviderRestored' /\ ProviderPressed'
    BY <1>0, <1>1 DEF ProviderRestored, ProviderPressed, Provider!loads,
           Provider!sats
  <1>9. ProviderTilted'
    BY <1>1, <1>2 DEF ProviderTilted
  <1>q. QED
    BY <1>4, <1>5, <1>6, <1>7, <1>8, <1>9 DEF ProviderInv

LEMMA ProviderOtherSteps ==
  ASSUME ProviderInv, Provider!TilesChange \/ UNCHANGED Provider!vars PROVE ProviderInv'
  <1>1. UNCHANGED <<style, config, restored, idled, Provider!tilts, visible, Provider!sats, satellite,
                   Provider!moves, Provider!shown>>
    BY DEF Provider!TilesChange, Provider!vars, Provider!loads
  <1>2. tiles' \in BOOLEAN
    BY DEF Provider!TilesChange, Provider!vars, Provider!loads, ProviderInv,
           ProviderFlags
  <1>3. ProviderFlags'
    BY <1>1, <1>2 DEF ProviderInv, ProviderFlags, Provider!tilts,
           Provider!sats, Provider!moves
  <1>4. ProviderValues' /\ ProviderShown'
    BY <1>1 DEF ProviderInv, ProviderValues, ProviderShown, Provider!tilts,
           Provider!moves, Provider!shown
  <1>5. ProviderRestored' /\ ProviderPressed' /\ ProviderTitled' /\ ProviderDrawn'
    BY <1>1 DEF ProviderInv, ProviderRestored, ProviderPressed, ProviderTitled,
           ProviderDrawn, Provider!tilts, Provider!sats, Provider!shown
  <1>6. ProviderTilted' /\ Provider!AddressFollows'
    BY <1>1 DEF ProviderInv, ProviderTilted, Provider!AddressFollows,
           Provider!tilts, Provider!sats, Provider!moves, Provider!shown
  <1>q. QED
    BY <1>3, <1>4, <1>5, <1>6 DEF ProviderInv

LEMMA ProviderRight ==
  ASSUME ProviderInv
  PROVE /\ Provider!TypeOK
        /\ Provider!SatelliteRight /\ Provider!BuildingsRight /\ Provider!TiltRight /\ Provider!AddressFollows
  <1>0. /\ ProviderFlags /\ ProviderValues /\ ProviderShown /\ ProviderRestored /\ ProviderPressed /\ ProviderTitled
        /\ ProviderDrawn /\ ProviderTilted /\ Provider!AddressFollows
    BY DEF ProviderInv
  <1>1. Provider!TypeOK
    BY <1>0 DEF ProviderFlags, ProviderValues, ProviderShown, Provider!TypeOK
  <1>2. Provider!SatelliteRight
    <2>1. /\ satLayer \in BOOLEAN /\ wantSatellite \in BOOLEAN
          /\ savedSatellite \in BOOLEAN
      BY <1>0 DEF ProviderFlags
    <2>2. ASSUME restored PROVE satLayer = wantSatellite
      <3>1. satLayer <=> wantSatellite
        BY <1>0, <2>2 DEF ProviderRestored
      <3>q. QED
        BY <2>1, <3>1, Zenon
    <2>3. pressed => savedSatellite = wantSatellite
      BY <1>0, <2>1, Zenon DEF ProviderPressed
    <2>q. QED
      BY <1>0, <2>2, <2>3
         DEF Provider!SatelliteRight, ProviderRestored, ProviderTitled
  <1>3. Provider!BuildingsRight
    BY <1>0 DEF ProviderDrawn, ProviderClear, Provider!BuildingsRight,
           ProviderValues, Provider!Layers
  <1>4. Provider!TiltRight
    <2>1. is3D \in BOOLEAN /\ saved3D \in BOOLEAN
      BY <1>0 DEF ProviderFlags
    <2>2. (pitch = "tilted") \in BOOLEAN
      OBVIOUS
    <2>q. QED
      BY <1>0, <2>1, <2>2, Zenon DEF ProviderTilted, Provider!TiltRight
  <1>q. QED
    BY <1>0, <1>1, <1>2, <1>3, <1>4

LEMMA ProviderStepInv == ASSUME Provider!SpotsAssumption, ProviderInv, [Provider!Next]_Provider!vars PROVE ProviderInv'
  BY ProviderLoadStep, ProviderWriteStep, ProviderToggleStep, ProviderMoveStep,
     ProviderFrameStep, ProviderOtherSteps
  DEF Provider!Next, Provider!Loading, Provider!Moving, Provider!Tilting

\* What the buttons say of the satellite, the buildings and the tilt is what the
\* map shows, in whatever order the style, the source, the tiles, the movements
\* and the user come, and a map at rest has its place in the address
\* (MapProvider.tsx, useUrlSync.ts).
THEOREM ProviderCorrect ==
  ASSUME Provider!SpotsAssumption
  PROVE Provider!Spec => [](/\ Provider!TypeOK
                            /\ Provider!SatelliteRight /\ Provider!BuildingsRight
                            /\ Provider!TiltRight /\ Provider!AddressFollows)
  <1>1. Provider!Init => ProviderInv
    BY ProviderInitInv
  <1>2. ProviderInv /\ [Provider!Next]_Provider!vars => ProviderInv'
    BY ProviderStepInv
  <1>3. ProviderInv => /\ Provider!TypeOK
                       /\ Provider!SatelliteRight /\ Provider!BuildingsRight /\ Provider!TiltRight /\ Provider!AddressFollows
    BY ProviderRight
  <1>q. QED
    BY <1>1, <1>2, <1>3, PTL DEF Provider!Spec

-----------------------------------------------------------------------------
(* The theme (MapTheme).                                                 *)
-----------------------------------------------------------------------------
(***************************************************************************)
(* The colours (MapTheme).  The originals are the colours the layers had   *)
(* when they came: a layer that is not there has none, and its own colour. *)
(***************************************************************************)
ThemeOwn(l) == IF l = "poi" THEN "category" ELSE "style"

ThemeRemembers(l) ==
    IF l \in Theme!Present(themeStyle, areas) THEN originals[l] = ThemeOwn(l)
    ELSE originals[l] = None /\ paint[l] = "style"

ThemeInv ==
    /\ Theme!TypeOK /\ Theme!ThemeRight
    /\ themeStyle = "loading" <=> areas = "none"
    /\ \A l \in Theme!Layers : ThemeRemembers(l)
    /\ areas # "ready" => themeSelected = None

\* applyMapTheme: with the colours p, in which a layer that is new has its own.
ThemeAppliedTo(p, there, toDark) ==
    /\ p \in [Theme!Layers -> Theme!Colours] /\ there \in SUBSET Theme!Layers
    /\ \A l \in there : \/ originals[l] = ThemeOwn(l)
                        \/ originals[l] = None /\ p[l] = ThemeOwn(l)
    /\ \A l \in Theme!Layers \ there : originals[l] = None /\ p[l] = "style"
    /\ Theme!applyMapTheme(p, there, toDark)

ThemeApplied(there, toDark) ==
    /\ paint' \in [Theme!Layers -> Theme!Colours]
    /\ originals' \in [Theme!Layers -> Theme!Colours \cup {None}]
    /\ \A l \in there : /\ originals'[l] = ThemeOwn(l)
                         /\ paint'[l] = IF toDark THEN "dark" ELSE ThemeOwn(l)
    /\ \A l \in Theme!Layers \ there : originals'[l] = None /\ paint'[l] = "style"

LEMMA ThemeAppliesRight ==
    ASSUME Theme!AreasAssumption
    PROVE  \A p, there, toDark :
              ThemeAppliedTo(p, there, toDark) => ThemeApplied(there, toDark)
<1> SUFFICES ASSUME NEW p, NEW there, NEW toDark, ThemeAppliedTo(p, there, toDark)
             PROVE  ThemeApplied(there, toDark)
  OBVIOUS
<1>1. None \notin Theme!Colours /\ \A l \in Theme!Layers : ThemeOwn(l) \in Theme!Colours
  BY DEF Theme!AreasAssumption, ThemeOwn, Theme!Colours
<1>2. /\ originals' = Theme!Saved(p, there)
      /\ paint' = [l \in Theme!Layers |-> IF l \notin there THEN p[l]
                                    ELSE IF toDark THEN "dark"
                                    ELSE originals'[l]]
      /\ p \in [Theme!Layers -> Theme!Colours] /\ there \in SUBSET Theme!Layers
  BY DEF ThemeAppliedTo, Theme!applyMapTheme
<1>3. \A l \in Theme!Layers :
          /\ originals'[l] = IF l \in there /\ originals[l] = None
                             THEN p[l] ELSE originals[l]
          /\ paint'[l] = IF l \notin there THEN p[l]
                         ELSE IF toDark THEN "dark" ELSE originals'[l]
  BY <1>2 DEF Theme!Saved
<1>4. \A l \in there : /\ originals'[l] = ThemeOwn(l)
                       /\ paint'[l] = IF toDark THEN "dark" ELSE ThemeOwn(l)
  BY <1>1, <1>2, <1>3 DEF ThemeAppliedTo
<1>5. \A l \in Theme!Layers \ there : originals'[l] = None /\ paint'[l] = "style"
  BY <1>2, <1>3 DEF ThemeAppliedTo
<1>6. \A l \in Theme!Layers :
          paint'[l] \in Theme!Colours /\ originals'[l] \in Theme!Colours \cup {None}
  BY <1>1, <1>4, <1>5 DEF Theme!Colours
<1>7. /\ paint' \in [Theme!Layers -> Theme!Colours]
      /\ originals' \in [Theme!Layers -> Theme!Colours \cup {None}]
  BY <1>2, <1>6 DEF Theme!Saved
<1>8. QED
  BY <1>4, <1>5, <1>7 DEF ThemeApplied

LEMMA ThemeInitInv ==
    ASSUME Theme!AreasAssumption, Theme!Init PROVE ThemeInv
BY DEF Theme!Init, ThemeInv, Theme!TypeOK, Theme!ThemeRight, ThemeRemembers,
       Theme!Present, Theme!Layers, Theme!Colours,
       Theme!AreasAssumption

LEMMA ThemeStyleLoadsStep ==
    ASSUME Theme!AreasAssumption, ThemeInv, Theme!StyleLoads PROVE ThemeInv'
<1> DEFINE p == [paint EXCEPT !["poi"] = "category"]
           there == {"road", "poi"}
<1>1. areas = "none" /\ areas' = "asked" /\ themeStyle' = "loaded"
      /\ UNCHANGED <<dark, themeFilter, themeSelected, themeError>>
  BY DEF ThemeInv, Theme!StyleLoads
<1>2. \A l \in Theme!Layers : originals[l] = None /\ paint[l] = "style"
  BY <1>1 DEF ThemeInv, ThemeRemembers, Theme!Present, Theme!StyleLoads
<1>3. /\ p \in [Theme!Layers -> Theme!Colours]
      /\ \A l \in there : p[l] = ThemeOwn(l)
      /\ \A l \in Theme!Layers \ there : p[l] = "style" /\ ThemeOwn(l) = "style"
  BY <1>2 DEF ThemeInv, Theme!TypeOK, ThemeOwn, Theme!Layers, Theme!Colours
<1>4. Theme!Present("loaded", areas) = there /\ Theme!Present("loaded", "asked") = there
      /\ there \in SUBSET Theme!Layers
  BY <1>1 DEF Theme!Present, Theme!Layers
<1>5. Theme!applyMapTheme(p, there, dark)
  BY <1>4 DEF Theme!StyleLoads
<1>6. ThemeAppliedTo(p, there, dark)
  <2> HIDE DEF p, there
  <2>1. QED
    BY <1>2, <1>3, <1>4, <1>5 DEF ThemeAppliedTo
<1>7. ThemeApplied(there, dark)
  BY <1>6, ThemeAppliesRight
<1>8. Theme!Present(themeStyle', areas') = there
  BY <1>1, <1>4
<1> HIDE DEF p, there
<1>9. Theme!TypeOK'
  BY <1>1, <1>7 DEF ThemeInv, Theme!TypeOK, ThemeApplied
<1>10. Theme!ThemeRight'
  BY <1>1, <1>7, <1>8 DEF ThemeInv, Theme!ThemeRight, ThemeOwn, ThemeApplied
<1>11. \A l \in Theme!Layers : ThemeRemembers(l)'
  BY <1>7, <1>8 DEF ThemeRemembers, ThemeApplied
<1>12. QED
  BY <1>1, <1>9, <1>10, <1>11 DEF ThemeInv

LEMMA ThemeAreasArriveStep ==
    ASSUME Theme!AreasAssumption, ThemeInv, Theme!AreasArrive PROVE ThemeInv'
<1>1. /\ areas = "asked" /\ areas' = "ready" /\ themeStyle = "loaded"
      /\ themeSelected = None /\ themeFilter' = None
      /\ UNCHANGED <<themeStyle, dark, themeSelected, themeError>>
  BY DEF ThemeInv, Theme!TypeOK, Theme!AreasArrive
<1>2. /\ Theme!Present(themeStyle, "ready") = Theme!Layers
      /\ Theme!Present(themeStyle, areas) = {"road", "poi"}
      /\ Theme!Present(themeStyle', areas') = Theme!Layers
  BY <1>1 DEF Theme!Present, Theme!Layers
<1>3. \A l \in Theme!Layers : \/ originals[l] = ThemeOwn(l)
                              \/ originals[l] = None /\ paint[l] = ThemeOwn(l)
  BY <1>2 DEF ThemeInv, ThemeRemembers, ThemeOwn, Theme!Layers
<1>4. Theme!applyMapTheme(paint, Theme!Layers, dark) /\ paint \in [Theme!Layers -> Theme!Colours]
  BY <1>2 DEF Theme!AreasArrive, ThemeInv, Theme!TypeOK
<1>5. ThemeAppliedTo(paint, Theme!Layers, dark)
  <2>1. /\ \A l \in Theme!Layers \ Theme!Layers : originals[l] = None /\ paint[l] = "style"
        /\ Theme!Layers \in SUBSET Theme!Layers
    OBVIOUS
  <2>2. QED
    BY <1>3, <1>4, <2>1, Zenon DEF ThemeAppliedTo
<1>6. ThemeApplied(Theme!Layers, dark)
  BY <1>5, ThemeAppliesRight
<1>7. Theme!TypeOK'
  BY <1>1, <1>6 DEF ThemeInv, Theme!TypeOK, ThemeApplied
<1>8. Theme!ThemeRight'
  BY <1>1, <1>2, <1>6 DEF ThemeInv, Theme!ThemeRight, ThemeOwn, ThemeApplied
<1>9. \A l \in Theme!Layers : ThemeRemembers(l)'
  BY <1>2, <1>6 DEF ThemeRemembers, ThemeApplied
<1>10. QED
  BY <1>1, <1>7, <1>8, <1>9 DEF ThemeInv

LEMMA ThemeChangeThemeStep ==
    ASSUME Theme!AreasAssumption, ThemeInv, Theme!ChangeTheme PROVE ThemeInv'
<1> DEFINE there == Theme!Present(themeStyle, areas)
<1>1. /\ dark' = ~dark /\ dark' \in BOOLEAN
      /\ UNCHANGED <<themeStyle, areas, themeFilter, themeSelected, themeError>>
  BY DEF ThemeInv, Theme!TypeOK, Theme!ChangeTheme
<1>2. /\ \A l \in there : originals[l] = ThemeOwn(l)
      /\ \A l \in Theme!Layers \ there : originals[l] = None /\ paint[l] = "style"
      /\ there \in SUBSET Theme!Layers
  BY DEF ThemeInv, ThemeRemembers, Theme!Present, Theme!Layers
<1>3. CASE themeStyle = "loaded"
  <2>1. /\ Theme!applyMapTheme(paint, there, dark') /\ paint \in [Theme!Layers -> Theme!Colours]
        /\ Theme!Present(themeStyle', areas') = there
    BY <1>1, <1>3 DEF Theme!ChangeTheme, ThemeInv, Theme!TypeOK
  <2> HIDE DEF there
  <2>2. ThemeAppliedTo(paint, there, dark')
    <3>1. \A l \in there : \/ originals[l] = ThemeOwn(l)
                           \/ originals[l] = None /\ paint[l] = ThemeOwn(l)
      BY <1>2
    <3>2. QED
      BY <1>2, <2>1, <3>1, Zenon DEF ThemeAppliedTo
  <2>3. ThemeApplied(there, dark')
    BY <2>2, ThemeAppliesRight
  <2>4. Theme!TypeOK'
    BY <1>1, <2>3 DEF ThemeInv, Theme!TypeOK, ThemeApplied
  <2>5. Theme!ThemeRight'
    BY <1>1, <2>1, <2>3 DEF ThemeInv, Theme!ThemeRight, ThemeOwn, ThemeApplied
  <2>6. \A l \in Theme!Layers : ThemeRemembers(l)'
    BY <2>1, <2>3 DEF ThemeRemembers, ThemeApplied
  <2>7. QED
    BY <1>1, <2>4, <2>5, <2>6 DEF ThemeInv
<1>4. CASE themeStyle # "loaded"
  <2>1. themeStyle = "loading" /\ areas = "none" /\ there = {}
    BY <1>4 DEF ThemeInv, Theme!TypeOK, Theme!Present
  <2>2. UNCHANGED <<paint, originals>>
    BY <1>4 DEF Theme!ChangeTheme
  <2>3. QED
    BY <1>1, <2>1, <2>2
       DEF ThemeInv, Theme!TypeOK, Theme!ThemeRight, ThemeRemembers
<1>5. QED
  BY <1>3, <1>4

\* What changes neither the theme nor the layers.
LEMMA ThemeOtherSteps ==
    ASSUME Theme!AreasAssumption, ThemeInv,
           \/ Theme!AreasFail \/ Theme!MapFails
           \/ \E id \in ThemeAreas \cup Others \cup {None} : Theme!selectArea(id)
    PROVE  ThemeInv'
<1>1. CASE Theme!AreasFail
  BY <1>1 DEF ThemeInv, Theme!TypeOK, Theme!ThemeRight, ThemeRemembers,
         Theme!Present, Theme!AreasFail
<1>2. CASE Theme!MapFails
  BY <1>2 DEF ThemeInv, Theme!TypeOK, Theme!ThemeRight, ThemeRemembers,
         Theme!Present, Theme!MapFails
<1>3. ASSUME NEW id \in ThemeAreas \cup Others \cup {None}, Theme!selectArea(id)
      PROVE  ThemeInv'
  BY <1>3 DEF ThemeInv, Theme!TypeOK, Theme!ThemeRight, ThemeRemembers,
         Theme!Present, Theme!selectArea
<1>4. QED
  BY <1>1, <1>2, <1>3

(***************************************************************************)
(* Whenever the theme changes and whenever the mahallas come, every layer  *)
(* the map has shows the theme of the page, without the dark one in its    *)
(* own colour, and the page names no area the map does not outline: for    *)
(* any mahallas, with the dark theme or without.                           *)
(***************************************************************************)
THEOREM ThemeCorrect ==
    ASSUME Theme!AreasAssumption PROVE Theme!Spec => [](Theme!TypeOK /\ Theme!ThemeRight)
<1>1. Theme!Init => ThemeInv
  BY ThemeInitInv
<1>2. ThemeInv /\ [Theme!Next]_Theme!vars => ThemeInv'
  <2> SUFFICES ASSUME ThemeInv, [Theme!Next]_Theme!vars PROVE ThemeInv'
    OBVIOUS
  <2>1. CASE UNCHANGED Theme!vars
    BY <2>1 DEF Theme!vars, ThemeInv, Theme!TypeOK, Theme!ThemeRight,
           ThemeRemembers
  <2>2. CASE Theme!Next
    BY <2>2, ThemeStyleLoadsStep, ThemeAreasArriveStep, ThemeChangeThemeStep,
       ThemeOtherSteps
       DEF Theme!Next
  <2>3. QED
    BY <2>1, <2>2
<1>3. ThemeInv => Theme!TypeOK /\ Theme!ThemeRight
  BY DEF ThemeInv
<1>4. QED
  BY <1>1, <1>2, <1>3, PTL DEF Theme!Spec

-----------------------------------------------------------------------------
(* OnDexMap's objects (PlacesLayer).                                     *)
-----------------------------------------------------------------------------
(***************************************************************************)
(* The objects of the view and the panel of one of them (PlacesLayer).  A  *)
(* map that stands has asked for the objects of what it shows, or has its  *)
(* answer; the panel is not moved by the layers, nor the other way round,  *)
(* but for the view of a line.                                             *)
(***************************************************************************)
ObjectsNothingness == view \in Far /\ category = None

ObjectsStanding ==
    ready /\ ~viewMoving /\ ~viewTimer =>
        \/ objectsAsked = view /\ ~ObjectsNothingness
        \/ objectsAsked = None /\ (lost \/ data = IF ObjectsNothingness THEN None ELSE view)

ObjectsLayerOK ==
    /\ view \in Views
    /\ {objectsAsked, data} \subseteq Views \cup {None}
    /\ {category, filter} \subseteq ObjectCategories \cup {None}
    /\ ready => filter = category
    /\ ObjectsStanding
ObjectsFlags == {ready, viewMoving, viewTimer, lost} \subseteq BOOLEAN

ObjectsPanelOK ==
    /\ {viewPlace, detail} \subseteq ObjectIds \cup {None}
    /\ loaded \in [id: ObjectIds, ok: BOOLEAN] \cup {None}
    /\ zoom \in Nat \cup {None}
    /\ detail \in {None, viewPlace}
    /\ Objects!DetailsRight

ObjectsInv == ObjectsFlags /\ ObjectsLayerOK /\ ObjectsPanelOK

LEMMA ObjectsSameLayer ==
    ASSUME ObjectsLayerOK, UNCHANGED <<Objects!layer, view, viewMoving, category>> PROVE ObjectsLayerOK'
BY DEF ObjectsLayerOK, ObjectsStanding, ObjectsNothingness, Objects!layer

LEMMA ObjectsSamePanel == ASSUME ObjectsPanelOK, UNCHANGED Objects!panel PROVE ObjectsPanelOK'
BY DEF ObjectsPanelOK, Objects!DetailsRight, Objects!panel

LEMMA ObjectsFlagsKept == ASSUME ObjectsInv, Objects!Next PROVE ObjectsFlags'
BY DEF ObjectsInv, ObjectsFlags, Objects!Next, Objects!Objects,
       Objects!Details, Objects!Ready, Objects!setActive, Objects!Move,
   Objects!MoveEnds,
       Objects!TimerFires, Objects!ObjectsArrive, Objects!ObjectsFail, Objects!selectPlace, Objects!ClosePanel,
       Objects!DetailArrives, Objects!DetailFails, Objects!setZoom, Objects!Unzoom, Objects!load, Objects!layer

LEMMA ObjectsObjectsStep ==
    ASSUME Objects!ViewsAssumption, ObjectsInv, Objects!Objects PROVE ObjectsInv'
<1>1. UNCHANGED Objects!panel
  BY DEF Objects!Objects, Objects!Ready, Objects!setActive, Objects!Move,
         Objects!MoveEnds, Objects!TimerFires, Objects!ObjectsArrive,
         Objects!ObjectsFail
<1>2. ObjectsLayerOK /\ ObjectsPanelOK /\ None \notin Views \cup ObjectCategories
  BY DEF ObjectsInv, Objects!ViewsAssumption
<1>3. ASSUME Objects!Ready PROVE ObjectsLayerOK'
  BY <1>2, <1>3 DEF Objects!Ready, Objects!load, ObjectsLayerOK,
         ObjectsStanding, ObjectsNothingness
<1>4. ASSUME NEW key \in ObjectCategories, Objects!setActive(key) PROVE ObjectsLayerOK'
  BY <1>2, <1>4 DEF Objects!setActive, Objects!load, ObjectsLayerOK,
         ObjectsStanding, ObjectsNothingness
<1>5. ASSUME NEW v \in Views, Objects!Move(v) PROVE ObjectsLayerOK'
  BY <1>2, <1>5 DEF Objects!Move, Objects!layer, ObjectsLayerOK,
         ObjectsStanding, ObjectsNothingness
<1>6. ASSUME Objects!MoveEnds PROVE ObjectsLayerOK'
  BY <1>2, <1>6 DEF Objects!MoveEnds, ObjectsLayerOK, ObjectsStanding,
         ObjectsNothingness
<1>7. ASSUME Objects!TimerFires PROVE ObjectsLayerOK'
  BY <1>2, <1>7 DEF Objects!TimerFires, Objects!load, ObjectsLayerOK,
         ObjectsStanding, ObjectsNothingness
<1>8. ASSUME Objects!ObjectsArrive PROVE ObjectsLayerOK'
  BY <1>2, <1>8 DEF Objects!ObjectsArrive, ObjectsLayerOK, ObjectsStanding,
         ObjectsNothingness
<1>9. ASSUME Objects!ObjectsFail PROVE ObjectsLayerOK'
  BY <1>2, <1>9 DEF Objects!ObjectsFail, ObjectsLayerOK, ObjectsStanding,
         ObjectsNothingness
<1>10. ObjectsLayerOK'
  BY <1>3, <1>4, <1>5, <1>6, <1>7, <1>8, <1>9 DEF Objects!Objects
<1>11. ObjectsFlags'
  BY ObjectsFlagsKept DEF Objects!Next
<1>12. QED
  BY <1>1, <1>2, <1>10, <1>11, ObjectsSamePanel DEF ObjectsInv

LEMMA ObjectsDetailsStep ==
    ASSUME Objects!ViewsAssumption, ObjectsInv, Objects!Details PROVE ObjectsInv'
<1>1. ObjectsFlags'
  BY ObjectsFlagsKept DEF Objects!Next
<1>2. ObjectsLayerOK /\ ObjectsPanelOK /\ None \notin ObjectIds \cup [id: ObjectIds, ok: BOOLEAN]
  BY DEF ObjectsInv, Objects!ViewsAssumption
<1>3. ObjectsLayerOK'
  <2>1. CASE Objects!DetailArrives /\ viewMoving' = TRUE
    <3>1. UNCHANGED <<Objects!layer, category>> /\ view' \in Views
      BY <1>2, <2>1 DEF Objects!DetailArrives, Objects!ViewsAssumption,
             ObjectsLayerOK
    <3>2. QED
      BY <1>2, <2>1, <3>1 DEF ObjectsLayerOK, ObjectsStanding, Objects!layer
  <2>2. CASE UNCHANGED <<Objects!layer, view, viewMoving, category>>
    BY <1>2, <2>2, ObjectsSameLayer
  <2>3. QED
    BY <2>1, <2>2 DEF Objects!Details, Objects!selectPlace, Objects!ClosePanel,
           Objects!DetailArrives,
                      Objects!DetailFails, Objects!setZoom, Objects!Unzoom
<1>4. ObjectsPanelOK'
  <2>1. ASSUME NEW p \in ObjectIds, Objects!selectPlace(p) PROVE ObjectsPanelOK'
    BY <1>2, <2>1 DEF Objects!selectPlace, ObjectsPanelOK, Objects!DetailsRight
  <2>2. ASSUME Objects!ClosePanel PROVE ObjectsPanelOK'
    BY <1>2, <2>2 DEF Objects!ClosePanel, ObjectsPanelOK, Objects!DetailsRight
  <2>3. ASSUME Objects!DetailArrives \/ Objects!DetailFails PROVE ObjectsPanelOK'
    <3>1. /\ detail # None /\ detail' = None /\ UNCHANGED <<viewPlace, zoom>>
          /\ \E ok \in BOOLEAN : loaded' = [id |-> detail, ok |-> ok]
      BY <2>3 DEF Objects!DetailArrives, Objects!DetailFails
    <3>2. detail \in ObjectIds /\ viewPlace # None
      BY <1>2, <3>1 DEF ObjectsPanelOK, Objects!DetailsRight
    <3>3. loaded' \in [id: ObjectIds, ok: BOOLEAN] /\ loaded'.id = detail
      BY <3>1, <3>2
    <3>4. loaded' # None
      BY <1>2, <3>3
    <3>5. Objects!DetailsRight'
      BY <1>2, <3>1, <3>2, <3>3, <3>4 DEF ObjectsPanelOK, Objects!DetailsRight
    <3>6. QED
      BY <1>2, <3>1, <3>3, <3>5 DEF ObjectsPanelOK
  <2>4. ASSUME NEW i \in 0..PhotosOf[viewPlace], viewPlace # None, Objects!setZoom(i) PROVE ObjectsPanelOK'
    BY <1>2, <2>4 DEF Objects!setZoom, Objects!Shown, ObjectsPanelOK,
           Objects!DetailsRight, Objects!ViewsAssumption
  <2>5. ASSUME Objects!Unzoom PROVE ObjectsPanelOK'
    BY <1>2, <2>5 DEF Objects!Unzoom, ObjectsPanelOK, Objects!DetailsRight
  <2>6. QED
    BY <2>1, <2>2, <2>3, <2>4, <2>5 DEF Objects!Details
<1>5. QED
  BY <1>1, <1>3, <1>4 DEF ObjectsInv

(***************************************************************************)
(* However movements, choices and late answers follow one another, a map   *)
(* that stands has the objects of what it shows, or has failed to get      *)
(* them, and the panel has the details of its object or waits for them:    *)
(* for any views, objects and categories.                                  *)
(***************************************************************************)
THEOREM ObjectsCorrect ==
    ASSUME Objects!ViewsAssumption
    PROVE  Objects!Spec => [](Objects!TypeOK /\ Objects!ObjectsRight /\ Objects!DetailsRight)
<1>1. Objects!Init => ObjectsInv
  BY DEF Objects!Init, ObjectsInv, ObjectsFlags, ObjectsLayerOK,
         ObjectsStanding, ObjectsPanelOK, Objects!DetailsRight
<1>2. ObjectsInv /\ [Objects!Next]_Objects!vars => ObjectsInv'
  <2> SUFFICES ASSUME ObjectsInv, [Objects!Next]_Objects!vars PROVE ObjectsInv'
    OBVIOUS
  <2>1. CASE UNCHANGED Objects!vars
    BY <2>1, ObjectsSameLayer, ObjectsSamePanel
       DEF Objects!vars, Objects!layer, ObjectsInv, ObjectsFlags
  <2>2. CASE Objects!Next
    BY <2>2, ObjectsObjectsStep, ObjectsDetailsStep DEF Objects!Next
  <2>3. QED
    BY <2>1, <2>2
<1>3. ObjectsInv => Objects!TypeOK /\ Objects!ObjectsRight /\ Objects!DetailsRight
  <2> SUFFICES ASSUME ObjectsInv PROVE Objects!TypeOK /\ Objects!ObjectsRight /\ Objects!DetailsRight
    OBVIOUS
  <2>1. Objects!TypeOK /\ Objects!DetailsRight
    BY DEF ObjectsInv, ObjectsFlags, ObjectsLayerOK, ObjectsPanelOK,
           Objects!TypeOK
  <2>2. Objects!ObjectsRight
    BY DEF ObjectsInv, ObjectsLayerOK, ObjectsStanding, ObjectsNothingness,
           Objects!ObjectsRight, Objects!ViewsAssumption
  <2>3. QED
    BY <2>1, <2>2
<1>4. QED
  BY <1>1, <1>2, <1>3, PTL DEF Objects!Spec

-----------------------------------------------------------------------------
(* The images of the pins (MapIcons).                                    *)
-----------------------------------------------------------------------------
(***************************************************************************)
(* The symbols (MapIcons).  A name has an image once it was added, a pin   *)
(* is that of a picture that is there, and a badge of one that is not.     *)
(***************************************************************************)
IconsImageRight(i) ==
    /\ added[i] = IF image[i] = "none" THEN 0 ELSE 1
    /\ image[i] # "none" /\ PictureOf[i] # None =>
          pinCache[PictureOf[i]] =
              IF image[i] = "pin" THEN "loaded" ELSE "failed"

IconsInv ==
    /\ Icons!TypeOK
    /\ \A i \in Images : IconsImageRight(i)
    /\ \A s \in Pictures :
          fetched[s] = IF pinCache[s] = "none" THEN 0 ELSE 1

LEMMA IconsInitInv == ASSUME Icons!PicturesAssumption, Icons!Init PROVE IconsInv
BY DEF Icons!Init, IconsInv, Icons!TypeOK, IconsImageRight,
       Icons!PicturesAssumption

LEMMA IconsMissingStep ==
    ASSUME Icons!PicturesAssumption, IconsInv, NEW i \in Images, Icons!onMissing(i) PROVE IconsInv'
<1>1. CASE Icons!DrawBadge(i)
  <2>1. /\ image' = [image EXCEPT ![i] = "badge"]
        /\ added' = [added EXCEPT ![i] = @ + 1]
        /\ UNCHANGED <<pinCache, waiting, fetched>>
        /\ PictureOf[i] = None /\ image[i] = "none" /\ added[i] = 0
    BY <1>1 DEF Icons!DrawBadge, Icons!addImage, Icons!onMissing, IconsInv,
           IconsImageRight
  <2>2. Icons!TypeOK'
    BY <2>1 DEF IconsInv, Icons!TypeOK
  <2>3. QED
    BY <2>1, <2>2 DEF IconsInv, Icons!TypeOK, IconsImageRight
<1>2. CASE Icons!AwaitPin(i)
  <2> DEFINE s == PictureOf[i]
  <2>1. /\ s \in Pictures
        /\ pinCache' = [pinCache EXCEPT
                           ![s] = IF @ = "none" THEN "loading" ELSE @]
        /\ fetched' = [fetched EXCEPT
                          ![s] = IF pinCache[s] = "none" THEN @ + 1 ELSE @]
        /\ waiting[i] < MaxWaiting
        /\ waiting' = [waiting EXCEPT ![i] = @ + 1]
        /\ UNCHANGED <<image, added>>
    BY <1>2 DEF Icons!AwaitPin, Icons!loadPngPin, Icons!PicturesAssumption
  <2> HIDE DEF s
  <2>2. /\ \A t \in Pictures \ {s} :
              pinCache'[t] = pinCache[t] /\ fetched'[t] = fetched[t]
        /\ pinCache'[s] = IF pinCache[s] = "none" THEN "loading" ELSE pinCache[s]
        /\ fetched'[s] = IF pinCache[s] = "none" THEN fetched[s] + 1 ELSE fetched[s]
    BY <2>1 DEF IconsInv, Icons!TypeOK
  <2>3. Icons!TypeOK'
    BY <2>1, <2>2 DEF IconsInv, Icons!TypeOK, Icons!PicturesAssumption
  <2>4. \A t \in Pictures :
            fetched'[t] = IF pinCache'[t] = "none" THEN 0 ELSE 1
    BY <2>1, <2>2 DEF IconsInv, Icons!TypeOK
  <2>5. \A j \in Images : IconsImageRight(j)'
    <3> SUFFICES ASSUME NEW j \in Images PROVE IconsImageRight(j)'
      OBVIOUS
    <3>1. CASE PictureOf[j] = None
      BY <2>1, <3>1 DEF IconsInv, IconsImageRight
    <3>2. CASE PictureOf[j] \in Pictures
      BY <2>1, <2>2, <3>2 DEF IconsInv, IconsImageRight
    <3>3. QED
      BY <3>1, <3>2 DEF Icons!PicturesAssumption
  <2>6. QED
    BY <2>3, <2>4, <2>5 DEF IconsInv
<1>3. QED
  BY <1>1, <1>2 DEF Icons!onMissing

LEMMA IconsLoadsStep ==
    ASSUME Icons!PicturesAssumption, IconsInv, NEW s \in Pictures, Icons!PictureLoads(s)
    PROVE  IconsInv'
<1>1. PICK result \in {"loaded", "failed"} :
          pinCache' = [pinCache EXCEPT ![s] = result]
  BY DEF Icons!PictureLoads
<1>2. /\ pinCache[s] = "loading" /\ pinCache'[s] \in {"loaded", "failed"}
      /\ \A t \in Pictures \ {s} : pinCache'[t] = pinCache[t]
      /\ UNCHANGED <<image, waiting, added, fetched>>
  BY <1>1 DEF Icons!PictureLoads, IconsInv, Icons!TypeOK
<1>3. Icons!TypeOK'
  BY <1>1, <1>2 DEF IconsInv, Icons!TypeOK
<1>4. \A i \in Images : IconsImageRight(i)'
  <2> SUFFICES ASSUME NEW i \in Images PROVE IconsImageRight(i)'
    OBVIOUS
  <2>1. PictureOf[i] \in Pictures \cup {None}
    BY DEF Icons!PicturesAssumption
  <2>2. QED
    BY <1>2, <2>1 DEF IconsInv, IconsImageRight
<1>5. QED
  BY <1>2, <1>3, <1>4 DEF IconsInv

LEMMA IconsSettlesStep ==
    ASSUME Icons!PicturesAssumption, IconsInv, NEW i \in Images, Icons!PinSettles(i) PROVE IconsInv'
<1>1. /\ pinCache[PictureOf[i]] \in {"loaded", "failed"}
      /\ waiting[i] \in 0..MaxWaiting /\ waiting[i] > 0
      /\ waiting' = [waiting EXCEPT ![i] = @ - 1]
      /\ UNCHANGED <<pinCache, fetched>>
  BY DEF Icons!PinSettles, IconsInv, Icons!TypeOK
<1>2. CASE image[i] # "none"
  <2>1. UNCHANGED <<image, added>>
    BY <1>2 DEF Icons!PinSettles
  <2>2. Icons!TypeOK'
    BY <1>1, <2>1 DEF IconsInv, Icons!TypeOK, Icons!PicturesAssumption
  <2>3. QED
    BY <1>1, <2>1, <2>2 DEF IconsInv, IconsImageRight
<1>3. CASE image[i] = "none"
  <2>1. /\ image' = [image EXCEPT
                        ![i] = IF pinCache[PictureOf[i]] = "loaded"
                               THEN "pin" ELSE "badge"]
        /\ added' = [added EXCEPT ![i] = @ + 1]
        /\ added[i] = 0
    BY <1>3 DEF Icons!PinSettles, Icons!addImage, IconsInv, IconsImageRight
  <2>2. Icons!TypeOK'
    BY <1>1, <2>1 DEF IconsInv, Icons!TypeOK, Icons!PicturesAssumption
  <2>3. \A j \in Images : IconsImageRight(j)'
    BY <1>1, <2>1 DEF IconsInv, Icons!TypeOK, IconsImageRight
  <2>4. QED
    BY <1>1, <2>2, <2>3 DEF IconsInv
<1>4. QED
  BY <1>2, <1>3

\* Two images of one picture are both what became of it.
LEMMA IconsRight == ASSUME Icons!PicturesAssumption, IconsInv PROVE Icons!IconsRight
<1>1. \A i \in Images : added[i] <= 1
  <2>1. SUFFICES ASSUME NEW i \in Images PROVE added[i] <= 1
    OBVIOUS
  <2>2. added[i] = IF image[i] = "none" THEN 0 ELSE 1
    BY DEF IconsInv, IconsImageRight
  <2>3. QED
    BY <2>2
<1>2. \A s \in Pictures : fetched[s] <= 1
  BY DEF IconsInv
<1>3. ASSUME NEW i \in Images, NEW j \in Images,
             PictureOf[i] # None, PictureOf[i] = PictureOf[j],
             image[i] # "none", image[j] # "none"
      PROVE  image[i] = image[j]
  BY <1>3 DEF IconsInv, Icons!TypeOK, IconsImageRight
<1>4. QED
  BY <1>1, <1>2, <1>3 DEF Icons!IconsRight

(***************************************************************************)
(* However often the map asks for an image before it has it, none is added *)
(* twice, no picture is fetched twice, and two images of one picture never *)
(* differ: for any images and pictures.                                    *)
(***************************************************************************)
THEOREM IconsCorrect ==
    ASSUME Icons!PicturesAssumption PROVE Icons!Spec => [](Icons!TypeOK /\ Icons!IconsRight)
<1>1. Icons!Init => IconsInv
  BY IconsInitInv
<1>2. IconsInv /\ [Icons!Next]_Icons!vars => IconsInv'
  <2> SUFFICES ASSUME IconsInv, [Icons!Next]_Icons!vars PROVE IconsInv'
    OBVIOUS
  <2>1. CASE UNCHANGED Icons!vars
    BY <2>1 DEF Icons!vars, IconsInv, Icons!TypeOK, IconsImageRight
  <2>2. CASE Icons!Next
    BY <2>2, IconsMissingStep, IconsSettlesStep, IconsLoadsStep DEF Icons!Next
  <2>3. QED
    BY <2>1, <2>2
<1>3. IconsInv => Icons!TypeOK /\ Icons!IconsRight
  BY IconsRight DEF IconsInv
<1>4. QED
  BY <1>1, <1>2, <1>3, PTL DEF Icons!Spec

-----------------------------------------------------------------------------
(* The search (SearchBar).                                               *)
-----------------------------------------------------------------------------
(***************************************************************************)
(* The search field (SearchBar).  Once its timer is not running, the text  *)
(* in it is the one that is asked for, or the one of the last answer; the  *)
(* mark is on a row of the results, whatever is in the field meanwhile.    *)
(***************************************************************************)
SearchAsking ==
    /\ text \in Texts \cup Short
    /\ {pending, results} \subseteq Texts \cup {None}
    /\ searchTimer => text \notin Short
    /\ text \notin Short /\ ~searchTimer =>
          \/ pending = text
          \/ pending = None /\ (error \/ results = text)
SearchMarked ==
    /\ active \in Nat \ {0}
    /\ results # None /\ ResultsOf[results] # <<>> => active \in 1..Len(ResultsOf[results])
SearchFlags == {searchTimer, searchBusy, error, focused, input} \subseteq BOOLEAN
SearchWaits == searchBusy <=> pending # None
SearchMarks == {marker, area} \subseteq Texts \cup {None}
SearchBlurs == blurs \in 0..MaxBlurs

SearchInv == SearchAsking /\ SearchMarked /\ SearchFlags /\ SearchWaits /\ SearchMarks /\ SearchBlurs

LEMMA SearchFlagsKept == ASSUME SearchInv, Search!Next PROVE SearchFlags'
<1> USE DEF SearchInv, SearchFlags
<1>1. ASSUME NEW t \in Texts \cup Short, Search!Type(t) PROVE SearchFlags'
  BY <1>1 DEF Search!Type, Search!SetText
<1>2. ASSUME NEW i, Search!choose(i) PROVE SearchFlags'
  BY <1>2 DEF Search!choose, Search!SetText, Search!Blur
<1>3. ASSUME Search!TimerFires \/ Search!ResultsArrive \/ Search!SearchFails PROVE SearchFlags'
  BY <1>3 DEF Search!TimerFires, Search!ResultsArrive, Search!SearchFails,
         Search!page
<1>4. ASSUME Search!ArrowKey \/ Search!HoverRow PROVE SearchFlags'
  <2>1. UNCHANGED <<searchTimer, searchBusy, error, focused, input>>
    BY <1>4 DEF Search!ArrowKey, Search!HoverRow, Search!page
  <2>2. QED
    BY <2>1
<1>5. ASSUME Search!EscapeKey \/ Search!clearAll \/ Search!Focus \/ Search!LoseFocus PROVE SearchFlags'
  BY <1>5 DEF Search!EscapeKey, Search!clearAll, Search!SetText, Search!Focus,
         Search!LoseFocus, Search!Blur, Search!search
<1>6. ASSUME Search!BlurTimer \/ Search!Remount PROVE SearchFlags'
  <2>1. focused' = FALSE
    BY <1>6 DEF Search!BlurTimer, Search!Remount
  <2>2. \/ UNCHANGED <<searchTimer, searchBusy, error, input>>
        \/ searchTimer' = FALSE /\ searchBusy' = FALSE /\ error' = FALSE /\ input' = FALSE
    BY <1>6 DEF Search!BlurTimer, Search!Remount, Search!search
  <2>3. QED
    BY <2>1, <2>2
<1>7. QED
  BY <1>1, <1>2, <1>3, <1>4, <1>5, <1>6
     DEF Search!Next, Search!ClickRow, Search!EnterKey

LEMMA SearchSameRequest ==
    ASSUME SearchAsking, SearchMarked, SearchWaits, UNCHANGED Search!search
    PROVE  SearchAsking' /\ SearchMarked' /\ SearchWaits'
<1>1. UNCHANGED <<text, searchTimer, pending, searchBusy, results, error, active>>
  BY DEF Search!search
<1>2. QED
  BY <1>1 DEF SearchAsking, SearchMarked, SearchWaits

LEMMA SearchSamePage ==
    ASSUME SearchMarks, SearchBlurs, UNCHANGED <<blurs, marker, area>> PROVE SearchMarks' /\ SearchBlurs'
BY DEF SearchMarks, SearchBlurs

\* Another text: its timer runs, or there is nothing to ask for.
LEMMA SearchTextStep ==
    ASSUME Search!TextsAssumption, SearchAsking, SearchMarked, SearchWaits, NEW t \in Texts \cup Short,
           Search!SetText(t), UNCHANGED <<pending, searchBusy, error, active>>,
           results' = results \/ (results' = None /\ t \in Short)
    PROVE  SearchAsking' /\ SearchMarked' /\ SearchWaits'
<1>1. SearchAsking'
  BY DEF SearchAsking, Search!SetText
<1>2. SearchMarked' /\ SearchWaits'
  BY DEF SearchMarked, SearchWaits
<1>3. QED
  BY <1>1, <1>2

\* What is shown are the results, or nothing.
LEMMA SearchShownRows ==
    ASSUME Search!TextsAssumption, SearchAsking, SearchMarked, Search!shown # <<>>
    PROVE  /\ results \in Texts /\ Search!shown = ResultsOf[results]
           /\ Len(Search!shown) \in Nat /\ DOMAIN Search!shown = 1..Len(Search!shown)
           /\ Search!shown \in Seq(Texts) /\ Len(Search!shown) >= 1
           /\ active \in 1..Len(Search!shown)
<1>1. results \in Texts /\ Search!shown = ResultsOf[results]
  BY DEF Search!shown, Search!Rows, SearchAsking
<1>2. Search!shown \in Seq(Texts)
  BY <1>1 DEF Search!TextsAssumption
<1>3. results # None
  BY <1>1 DEF Search!TextsAssumption
<1>4. Len(Search!shown) \in Nat /\ DOMAIN Search!shown = 1..Len(Search!shown) /\ Len(Search!shown) >= 1
  BY <1>2
<1>5. active \in 1..Len(Search!shown)
  BY <1>1, <1>3 DEF SearchMarked
<1>6. QED
  BY <1>1, <1>2, <1>4, <1>5

LEMMA SearchChooseStep ==
    ASSUME Search!TextsAssumption, SearchInv, Search!shown # <<>>, NEW i \in DOMAIN Search!shown, Search!choose(i)
    PROVE  SearchAsking' /\ SearchMarked' /\ SearchWaits' /\ SearchMarks' /\ SearchBlurs'
<1> DEFINE m == Search!shown[i]
<1>1. m \in Texts
  BY SearchShownRows DEF SearchInv
<1>2. /\ Search!SetText(m) /\ UNCHANGED <<pending, searchBusy, results, error, active>>
      /\ blurs < MaxBlurs /\ Search!Blur
      /\ \/ UNCHANGED <<marker, area>>
         \/ marker' = m /\ area' \in {m, None}
  BY DEF Search!choose
<1>3. SearchAsking' /\ SearchMarked' /\ SearchWaits'
  BY <1>1, <1>2, SearchTextStep DEF SearchInv
<1>4. SearchMarks'
  BY <1>1, <1>2 DEF SearchInv, SearchMarks
<1>5. SearchBlurs'
  BY <1>2 DEF SearchInv, SearchBlurs, Search!Blur, Search!TextsAssumption
<1>6. QED
  BY <1>3, <1>4, <1>5

LEMMA SearchAnswerSteps ==
    ASSUME Search!TextsAssumption, SearchInv, Search!TimerFires \/ Search!ResultsArrive \/ Search!SearchFails
    PROVE  SearchAsking' /\ SearchMarked' /\ SearchWaits' /\ SearchMarks' /\ SearchBlurs'
<1>1. SearchMarks' /\ SearchBlurs'
  BY SearchSamePage DEF Search!TimerFires, Search!ResultsArrive,
         Search!SearchFails, Search!page, SearchInv
<1>2. None \notin Texts \cup Short /\ \A t \in Texts : ResultsOf[t] \in Seq(Texts)
  BY DEF Search!TextsAssumption
<1>3. ASSUME Search!TimerFires PROVE SearchAsking' /\ SearchMarked' /\ SearchWaits'
  BY <1>2, <1>3 DEF Search!TimerFires, SearchInv, SearchAsking, SearchMarked,
         SearchWaits
<1>4. ASSUME Search!ResultsArrive PROVE SearchAsking' /\ SearchMarked' /\ SearchWaits'
  <2>1. /\ pending \in Texts /\ pending' = None /\ searchBusy' = FALSE
        /\ results' = pending /\ active' = 1 /\ UNCHANGED <<text, searchTimer, error>>
    BY <1>2, <1>4 DEF Search!ResultsArrive, SearchInv, SearchAsking
  <2>2. ResultsOf[pending] # <<>> => 1 \in 1..Len(ResultsOf[pending])
    BY <1>2, <2>1
  <2>3. SearchAsking'
    BY <1>2, <2>1 DEF SearchInv, SearchAsking
  <2>4. SearchMarked' /\ SearchWaits'
    BY <2>1, <2>2 DEF SearchInv, SearchMarked, SearchWaits
  <2>5. QED
    BY <2>3, <2>4
<1>5. ASSUME Search!SearchFails PROVE SearchAsking' /\ SearchMarked' /\ SearchWaits'
  BY <1>2, <1>5 DEF Search!SearchFails, SearchInv, SearchAsking, SearchMarked,
         SearchWaits
<1>6. QED
  BY <1>1, <1>3, <1>4, <1>5

LEMMA SearchRowSteps ==
    ASSUME Search!TextsAssumption, SearchInv, Search!ArrowKey \/ Search!HoverRow
    PROVE  SearchAsking' /\ SearchMarked' /\ SearchWaits' /\ SearchMarks' /\ SearchBlurs'
<1>1. UNCHANGED <<text, searchTimer, pending, searchBusy, results, error, Search!page>>
  BY DEF Search!ArrowKey, Search!HoverRow
<1>2. Search!shown # <<>>
  <2>1. CASE Search!ArrowKey
    BY <2>1 DEF Search!ArrowKey
  <2>2. CASE Search!HoverRow
    <3>1. active' \in DOMAIN Search!shown
      BY <2>2 DEF Search!HoverRow
    <3>2. DOMAIN <<>> = {}
      OBVIOUS
    <3>3. QED
      BY <3>1, <3>2
  <2>3. QED
    BY <2>1, <2>2
<1>3. active' \in 1..Len(Search!shown)
  <2> DEFINE n == Len(Search!shown)
  <2>1. n \in Nat /\ n >= 1 /\ active \in 1..n /\ DOMAIN Search!shown = 1..n
    BY <1>2, SearchShownRows DEF SearchInv
  <2>2. CASE Search!HoverRow
    BY <2>1, <2>2 DEF Search!HoverRow
  <2>3. CASE Search!ArrowKey
    <3>1. \/ active' = (active % n) + 1
          \/ active' = IF active = 1 THEN n ELSE active - 1
      BY <2>3 DEF Search!ArrowKey
    <3> HIDE DEF n
    <3>2. QED
      BY <2>1, <3>1
  <2>4. QED
    BY <2>2, <2>3
<1>4. results \in Texts /\ Search!shown = ResultsOf[results]
  BY <1>2, SearchShownRows DEF SearchInv
<1>5. SearchAsking' /\ SearchWaits'
  BY <1>1 DEF SearchInv, SearchAsking, SearchWaits
<1>6. SearchMarked'
  BY <1>1, <1>3, <1>4 DEF SearchMarked
<1>7. QED
  BY <1>1, <1>5, <1>6, SearchSamePage DEF Search!page, SearchInv

LEMMA SearchOtherSteps ==
    ASSUME Search!TextsAssumption, SearchInv,
           \/ Search!EscapeKey \/ Search!clearAll \/ Search!Focus \/ Search!LoseFocus \/ Search!BlurTimer \/ Search!Remount
           \/ \E t \in Texts \cup Short : Search!Type(t)
    PROVE  SearchAsking' /\ SearchMarked' /\ SearchWaits' /\ SearchMarks' /\ SearchBlurs'
<1>1. /\ blurs \in 0..MaxBlurs /\ MaxBlurs \in Nat /\ Search!Blank \in Short
      /\ SearchAsking /\ SearchMarked /\ SearchWaits /\ SearchMarks /\ SearchBlurs
  BY DEF SearchInv, SearchBlurs, Search!TextsAssumption
<1>2. ASSUME Search!EscapeKey \/ Search!LoseFocus
      PROVE  SearchAsking' /\ SearchMarked' /\ SearchWaits' /\ SearchMarks' /\ SearchBlurs'
  <2>1. /\ UNCHANGED <<Search!search, marker, area>>
        /\ blurs < MaxBlurs /\ blurs' \in {blurs, blurs + 1}
    BY <1>2 DEF Search!EscapeKey, Search!LoseFocus, Search!Blur
  <2>2. QED
    BY <1>1, <2>1, SearchSameRequest DEF SearchMarks, SearchBlurs
<1>3. ASSUME Search!clearAll PROVE SearchAsking' /\ SearchMarked' /\ SearchWaits' /\ SearchMarks' /\ SearchBlurs'
  <2>1. /\ Search!SetText(Search!Blank) /\ results' = None /\ marker' = None /\ area' = None
        /\ UNCHANGED <<pending, searchBusy, error, active, blurs>>
    BY <1>3 DEF Search!clearAll
  <2>2. QED
    BY <1>1, <2>1, SearchTextStep DEF SearchMarks, SearchBlurs
<1>4. ASSUME Search!Focus PROVE SearchAsking' /\ SearchMarked' /\ SearchWaits' /\ SearchMarks' /\ SearchBlurs'
  BY <1>1, <1>4, SearchSameRequest, SearchSamePage DEF Search!Focus
<1>5. ASSUME Search!BlurTimer PROVE SearchAsking' /\ SearchMarked' /\ SearchWaits' /\ SearchMarks' /\ SearchBlurs'
  <2>1. /\ blurs > 0 /\ blurs' = blurs - 1 /\ UNCHANGED <<Search!search, marker, area>>
    BY <1>5 DEF Search!BlurTimer
  <2>2. QED
    BY <1>1, <2>1, SearchSameRequest DEF SearchMarks, SearchBlurs
<1>6. ASSUME Search!Remount PROVE SearchAsking' /\ SearchMarked' /\ SearchWaits' /\ SearchMarks' /\ SearchBlurs'
  <2>1. /\ text' = Search!Blank /\ searchTimer' = FALSE /\ pending' = None /\ searchBusy' = FALSE
        /\ results' = None /\ error' = FALSE /\ active' = 1 /\ blurs' = 0
        /\ marker' = None /\ area' = None
    BY <1>6 DEF Search!Remount
  <2>2. SearchAsking' /\ SearchWaits' /\ SearchMarks'
    BY <1>1, <2>1 DEF SearchAsking, SearchWaits, SearchMarks
  <2>3. SearchMarked' /\ SearchBlurs'
    BY <1>1, <2>1 DEF SearchMarked, SearchBlurs
  <2>4. QED
    BY <2>2, <2>3
<1>7. ASSUME NEW t \in Texts \cup Short, Search!Type(t)
      PROVE  SearchAsking' /\ SearchMarked' /\ SearchWaits' /\ SearchMarks' /\ SearchBlurs'
  <2>1. /\ Search!SetText(t)
        /\ UNCHANGED <<pending, searchBusy, results, error, active, blurs, marker, area>>
    BY <1>7 DEF Search!Type
  <2>2. QED
    BY <1>1, <2>1, SearchTextStep, SearchSamePage
<1>8. QED
  BY <1>2, <1>3, <1>4, <1>5, <1>6, <1>7

(***************************************************************************)
(* However typing, clearing and late answers follow one another, the field *)
(* waits exactly while a request is on its way, asks for nothing that is   *)
(* too short, marks a row that is there, and shows the results of its text *)
(* when nothing is to come: for any texts and whatever they find.          *)
(***************************************************************************)
THEOREM SearchCorrect ==
    ASSUME Search!TextsAssumption PROVE Search!Spec => [](Search!TypeOK /\ Search!SearchRight)
<1>1. Search!Init => SearchInv
  <2> SUFFICES ASSUME Search!Init PROVE SearchInv
    OBVIOUS
  <2>1. SearchFlags
    BY DEF Search!Init, SearchFlags
  <2>2. /\ text \in Short /\ searchTimer = FALSE /\ pending = None /\ searchBusy = FALSE
        /\ results = None /\ active = 1 /\ blurs = 0 /\ marker = None /\ area = None
    BY DEF Search!Init, Search!TextsAssumption
  <2>3. SearchAsking /\ SearchWaits /\ SearchMarks
    BY <2>2 DEF SearchAsking, SearchWaits, SearchMarks
  <2>4. SearchMarked /\ SearchBlurs
    BY <2>2 DEF SearchMarked, SearchBlurs, Search!TextsAssumption
  <2>5. QED
    BY <2>1, <2>3, <2>4 DEF SearchInv
<1>2. SearchInv /\ [Search!Next]_Search!vars => SearchInv'
  <2> SUFFICES ASSUME SearchInv, [Search!Next]_Search!vars PROVE SearchInv'
    OBVIOUS
  <2>1. CASE UNCHANGED Search!vars
    <3>1. UNCHANGED Search!search /\ UNCHANGED Search!page
      BY <2>1 DEF Search!vars
    <3>2. SearchFlags'
      BY <3>1 DEF SearchInv, SearchFlags, Search!search, Search!page
    <3>3. QED
      BY <3>1, <3>2, SearchSameRequest, SearchSamePage
         DEF Search!page, SearchInv
  <2>2. CASE Search!Next
    <3>1. ASSUME Search!ClickRow \/ Search!EnterKey
          PROVE  SearchAsking' /\ SearchMarked' /\ SearchWaits' /\ SearchMarks' /\ SearchBlurs'
      <4>1. CASE Search!ClickRow
        <5>1. PICK i \in DOMAIN Search!shown : Search!choose(i)
          BY <4>1 DEF Search!ClickRow
        <5>2. Search!shown # <<>>
          <6>1. DOMAIN <<>> = {}
            OBVIOUS
          <6>2. QED
            BY <6>1
        <5>3. QED
          BY <5>1, <5>2, SearchChooseStep
      <4>2. CASE Search!EnterKey
        <5>1. Search!shown # <<>> /\ Search!choose(IF active < Len(Search!shown) THEN active ELSE Len(Search!shown))
          BY <4>2 DEF Search!EnterKey
        <5>2. (IF active < Len(Search!shown) THEN active ELSE Len(Search!shown)) \in DOMAIN Search!shown
          BY <5>1, SearchShownRows DEF SearchInv
        <5>3. QED
          BY <5>1, <5>2, SearchChooseStep
      <4>3. QED
        BY <3>1, <4>1, <4>2
    <3>2. QED
      BY <2>2, <3>1, SearchFlagsKept, SearchAnswerSteps, SearchRowSteps,
         SearchOtherSteps DEF Search!Next, SearchInv
  <2>3. QED
    BY <2>1, <2>2
<1>3. SearchInv => Search!TypeOK /\ Search!SearchRight
  <2> SUFFICES ASSUME SearchInv PROVE Search!TypeOK /\ Search!SearchRight
    OBVIOUS
  <2>1. Search!TypeOK
    BY DEF SearchInv, SearchAsking, SearchMarked, SearchFlags, SearchMarks,
           SearchBlurs, Search!TypeOK
  <2>2. Search!shown # <<>> => active \in DOMAIN Search!shown
    BY SearchShownRows DEF SearchInv
  <2>3. pending \notin Short /\ (searchBusy <=> pending # None)
    BY DEF SearchInv, SearchAsking, SearchWaits, Search!TextsAssumption
  <2>4. text \notin Short /\ ~searchTimer /\ pending = None /\ ~error => results = text
    BY DEF SearchInv, SearchAsking, Search!TextsAssumption
  <2>5. QED
    BY <2>1, <2>2, <2>3, <2>4 DEF Search!SearchRight
<1>4. QED
  BY <1>1, <1>2, <1>3, PTL DEF Search!Spec

-----------------------------------------------------------------------------
(* The weather (Weather).                                                *)
-----------------------------------------------------------------------------
(***************************************************************************)
(* The temperature (Weather): without a source there is none, and once the *)
(* requests for a city were answered it is of that city.                   *)
(***************************************************************************)
HeaderInv ==
    /\ Header!TypeOK
    /\ inCity /\ request = "none" /\ ~failed => weather = city
    /\ weatherUrl # "adaptable" => weather = None /\ request # "weather"

LEMMA HeaderInitInv == ASSUME Header!Init PROVE HeaderInv
BY DEF Header!Init, HeaderInv, Header!TypeOK

LEMMA HeaderStepInv ==
    ASSUME Header!CitiesAssumption, HeaderInv, [Header!Next]_Header!vars PROVE HeaderInv'
<1>1. ASSUME NEW c \in Cities, NEW near \in BOOLEAN, Header!PlaceChanges(c, near)
      PROVE  HeaderInv'
  BY <1>1 DEF Header!PlaceChanges, Header!Ask, HeaderInv, Header!TypeOK
<1>2. CASE Header!ConfigArrives
  BY <1>2 DEF Header!ConfigArrives, Header!weatherUrlFor, Header!Nothing,
         HeaderInv, Header!TypeOK
<1>3. CASE Header!WeatherArrives
  BY <1>3 DEF Header!WeatherArrives, HeaderInv, Header!TypeOK
<1>4. CASE Header!RequestFails
  BY <1>4 DEF Header!RequestFails, Header!Nothing, HeaderInv, Header!TypeOK
<1>5. CASE UNCHANGED Header!vars
  BY <1>5 DEF Header!vars, HeaderInv, Header!TypeOK
<1>6. QED
  BY <1>1, <1>2, <1>3, <1>4, <1>5 DEF Header!Next

(***************************************************************************)
(* Once the requests for a city were answered the page shows the           *)
(* temperature of that city, and without a source never one: for any       *)
(* cities, however the map moves between them meanwhile.                   *)
(***************************************************************************)
THEOREM HeaderCorrect ==
    ASSUME Header!CitiesAssumption PROVE Header!Spec => [](Header!TypeOK /\ Header!WeatherSettles)
<1>1. Header!Init => HeaderInv
  BY HeaderInitInv
<1>2. HeaderInv /\ [Header!Next]_Header!vars => HeaderInv'
  BY HeaderStepInv
<1>3. HeaderInv => Header!TypeOK /\ Header!WeatherSettles
  BY DEF HeaderInv, Header!WeatherSettles, Header!Shown
<1>4. QED
  BY <1>1, <1>2, <1>3, PTL DEF Header!Spec

-----------------------------------------------------------------------------
(* The menu of the map (ContextMenu).                                    *)
-----------------------------------------------------------------------------
(***************************************************************************)
(* The menu of the right button (ContextMenu).  It stays where it was      *)
(* placed, for a click on the canvas of the size that is still there.      *)
(***************************************************************************)
ContextInv ==
    /\ Context!TypeOK /\ Context!MenuInside
    /\ strays >= 0 /\ copies + strays <= MaxCopies

\* Where there is no menu the steps are about numbers alone.
ContextFlags == {hasAdd, menuMoving, note, menuTimer} \subseteq BOOLEAN
ContextCounts ==
    /\ size \in Sizes
    /\ down \in {"none", "still", "moved"}
    /\ copies \in 0..MaxCopies /\ strays \in Nat
    /\ focus \in 0..6
ContextMenu == [at: Nat \X Nat, h: {33, 39}, point: Nat \X Nat]
ContextShown == menu \in ContextMenu \cup {None} /\ Context!MenuInside

LEMMA ContextParted == (Context!TypeOK /\ Context!MenuInside) <=> (ContextFlags /\ ContextCounts /\ ContextShown)
BY DEF Context!TypeOK, ContextFlags, ContextCounts, ContextMenu, ContextShown

LEMMA ContextJoined ==
    ASSUME ContextFlags', ContextCounts', ContextShown', strays' >= 0, copies' + strays' <= MaxCopies
    PROVE  ContextInv'
BY DEF Context!TypeOK, ContextFlags, ContextCounts, ContextMenu, ContextShown,
       ContextInv

LEMMA ContextNoMenu == ASSUME menu' = None PROVE ContextShown'
BY DEF ContextShown, Context!MenuInside

LEMMA ContextSameMenu ==
    ASSUME ContextShown, UNCHANGED <<menu, size>> PROVE ContextShown'
BY DEF ContextShown, Context!MenuInside, Context!Beside, Context!MENU_W,
       Context!EDGE

\* One side of the menu: with room before and behind the point it is within the
\* canvas, and beside the point.
ContextSide(x, len, room) ==
    LET q == IF x + len + Context!EDGE > room THEN x - len ELSE x
    IN  IF q < Context!EDGE THEN Context!EDGE ELSE q

LEMMA ContextSideInside ==
    ASSUME NEW x \in Nat, NEW len \in Nat, NEW room \in Nat, x <= room
    PROVE  /\ ContextSide(x, len, room) \in Nat
           /\ room >= 2 * (len + Context!EDGE) - 1 =>
                 /\ ContextSide(x, len, room) + len <= room
                 /\ \/ ContextSide(x, len, room) >= x
                    \/ ContextSide(x, len, room) + len <= x
BY DEF ContextSide, Context!EDGE

LEMMA ContextPlaced ==
    ASSUME Context!SizesAssumption, ContextCounts, NEW p \in Clicks(size), menu' = Context!place(p),
           size' = size
    PROVE  ContextShown'
<1> DEFINE x == ContextSide(p[1], Context!MENU_W, size[1])
           y == ContextSide(p[2], Context!menuHeight, size[2])
<1>1. /\ size[1] \in Nat /\ size[2] \in Nat
      /\ p \in (0..size[1]) \X (0..size[2])
  BY DEF Context!SizesAssumption, ContextCounts
<1>2. /\ p \in Nat \X Nat
      /\ p[1] \in Nat /\ p[1] <= size[1] /\ p[2] \in Nat /\ p[2] <= size[2]
  BY <1>1
<1>3. Context!menuHeight \in {33, 39}
  BY DEF Context!menuHeight
<1>4. Context!place(p) = [at |-> <<x, y>>, h |-> Context!menuHeight, point |-> p]
  BY DEF Context!place, ContextSide
<1>5. /\ x \in Nat
      /\ size[1] >= 2 * (Context!MENU_W + Context!EDGE) - 1 =>
            /\ x + Context!MENU_W <= size[1]
            /\ x >= p[1] \/ x + Context!MENU_W <= p[1]
  BY <1>1, <1>2, ContextSideInside DEF Context!MENU_W
<1>6. /\ y \in Nat
      /\ size[2] >= 2 * (Context!menuHeight + Context!EDGE) - 1 =>
            /\ y + Context!menuHeight <= size[2]
            /\ y >= p[2] \/ y + Context!menuHeight <= p[2]
  BY <1>1, <1>2, <1>3, ContextSideInside
<1> HIDE DEF x, y
<1>7. /\ menu'.at = <<x, y>> /\ menu'.h = Context!menuHeight /\ menu'.point = p
      /\ menu'.at[1] = x /\ menu'.at[2] = y
  BY <1>4
<1>8. menu' \in ContextMenu
  BY <1>2, <1>3, <1>4, <1>5, <1>6 DEF ContextMenu
<1>9. Context!MenuInside'
  BY <1>5, <1>6, <1>7 DEF Context!MenuInside, Context!Beside
<1>10. QED
  BY <1>8, <1>9 DEF ContextShown

LEMMA ContextContextStep ==
    ASSUME Context!SizesAssumption, ContextInv, NEW p \in Clicks(size), Context!onContext(p) PROVE ContextInv'
<1>1. ContextFlags /\ ContextCounts /\ ContextShown
  BY ContextParted DEF ContextInv
<1>2. ContextFlags'
  BY <1>1 DEF Context!onContext, ContextFlags
<1>3. ContextCounts' /\ size' = size /\ UNCHANGED <<copies, strays>>
  <2>1. /\ down' = "none" /\ UNCHANGED <<size, copies, strays>>
        /\ focus' = focus \/ focus' = 0
    BY DEF Context!onContext
  <2>2. QED
    BY <1>1, <2>1 DEF ContextCounts
<1>4. CASE down = "moved"
  <2>1. UNCHANGED menu
    BY <1>4 DEF Context!onContext
  <2>2. QED
    BY <1>1, <1>2, <1>3, <2>1, ContextSameMenu, ContextJoined DEF ContextInv
<1>5. CASE down # "moved"
  <2>1. menu' = Context!place(p)
    BY <1>5 DEF Context!onContext
  <2>2. ContextShown'
    BY <1>1, <1>3, <2>1, ContextPlaced
  <2>3. QED
    BY <1>2, <1>3, <2>2, ContextJoined DEF ContextInv
<1>6. QED
  BY <1>4, <1>5

LEMMA ContextClosing ==
    ASSUME Context!SizesAssumption, ContextInv, Context!close, UNCHANGED copies, ContextFlags',
           size' \in Sizes, down' \in {"none", "still", "moved"},
           strays' = strays \/ (strays' \in Nat /\ strays' <= strays)
    PROVE  ContextInv'
<1>1. /\ copies \in Nat /\ strays \in Nat /\ MaxCopies \in Nat
      /\ copies + strays <= MaxCopies /\ copies' = copies /\ copies \in 0..MaxCopies
  BY ContextParted DEF ContextInv, ContextCounts, Context!SizesAssumption
<1>2. strays' \in Nat /\ strays' >= 0 /\ copies' + strays' <= MaxCopies
  BY <1>1
<1>3. menu' = None /\ focus' = 0
  BY DEF Context!close
<1>4. ContextCounts' /\ ContextShown'
  BY <1>1, <1>2, <1>3, ContextNoMenu DEF ContextCounts
<1>5. QED
  BY <1>2, <1>4, ContextJoined

LEMMA ContextClosingSteps ==
    ASSUME Context!SizesAssumption, ContextInv,
           \/ Context!RightDown \/ Context!Dismiss \/ Context!TimerFires
           \/ \E s \in Sizes : Context!Resize(s)
           \/ \E i \in 1..5 : Context!run(i)
    PROVE  ContextInv'
<1>1. ContextFlags /\ size \in Sizes /\ down \in {"none", "still", "moved"} /\ strays \in Nat
  BY ContextParted DEF ContextInv, ContextCounts
<1>2. ContextFlags' /\ Context!close
  BY <1>1 DEF Context!RightDown, Context!Dismiss, Context!Resize, Context!run,
         Context!TimerFires, Context!close, ContextFlags
<1>3. CASE Context!RightDown
  BY <1>1, <1>2, <1>3, ContextClosing DEF Context!RightDown
<1>4. CASE Context!Dismiss
  BY <1>1, <1>2, <1>4, ContextClosing DEF Context!Dismiss
<1>5. CASE Context!TimerFires
  <2>1. strays' = strays \/ (strays' \in Nat /\ strays' <= strays)
    BY <1>1, <1>5 DEF Context!TimerFires
  <2>2. QED
    BY <1>1, <1>2, <1>5, <2>1, ContextClosing DEF Context!TimerFires
<1>6. ASSUME NEW s \in Sizes, Context!Resize(s) PROVE ContextInv'
  BY <1>1, <1>2, <1>6, ContextClosing DEF Context!Resize
<1>7. ASSUME NEW i \in 1..5, Context!run(i) PROVE ContextInv'
  BY <1>1, <1>2, <1>7, ContextClosing DEF Context!run
<1>8. QED
  BY <1>3, <1>4, <1>5, <1>6, <1>7

LEMMA ContextOtherSteps ==
    ASSUME Context!SizesAssumption, ContextInv,
           Context!RightDrag \/ Context!MoveEnds \/ Context!MetaArrives \/ Context!copy \/ Context!CopyEnds \/ Context!onKeyDown
    PROVE  ContextInv'
<1>1. UNCHANGED <<menu, size>>
  BY DEF Context!RightDrag, Context!MoveEnds, Context!MetaArrives,
         Context!copy, Context!CopyEnds, Context!onKeyDown
<1>2. ContextFlags /\ ContextCounts /\ ContextShown
  BY ContextParted DEF ContextInv
<1>3. ContextFlags'
  BY <1>2 DEF Context!RightDrag, Context!MoveEnds, Context!MetaArrives,
         Context!copy, Context!CopyEnds, Context!onKeyDown, ContextFlags
<1>4. /\ MaxCopies \in Nat /\ copies \in Nat /\ strays \in Nat
      /\ copies + strays <= MaxCopies /\ copies <= MaxCopies
  BY <1>2 DEF ContextInv, ContextCounts, Context!SizesAssumption
<1>5. ContextCounts' /\ copies' + strays' <= MaxCopies
  <2>1. CASE Context!RightDrag \/ Context!MoveEnds \/ Context!MetaArrives
    <3>1. UNCHANGED <<copies, strays, focus>> /\ down' \in {"none", "still", "moved"}
      BY <1>2, <2>1 DEF Context!RightDrag, Context!MoveEnds,
             Context!MetaArrives, ContextCounts
    <3>2. QED
      BY <1>1, <1>2, <1>4, <3>1 DEF ContextCounts
  <2>2. CASE Context!copy
    <3>1. copies + strays < MaxCopies /\ copies' = copies + 1 /\ UNCHANGED <<strays, focus, down>>
      BY <2>2 DEF Context!copy
    <3>2. QED
      BY <1>1, <1>2, <1>4, <3>1 DEF ContextCounts
  <2>3. CASE Context!CopyEnds
    <3>1. /\ copies > 0 /\ copies' = copies - 1 /\ UNCHANGED <<focus, down>>
          /\ strays' = strays \/ strays' = strays + 1
      BY <1>4, <2>3 DEF Context!CopyEnds
    <3>2. QED
      BY <1>1, <1>2, <1>4, <3>1 DEF ContextCounts
  <2>4. CASE Context!onKeyDown
    <3>1. Context!Items \in {5, 6} /\ focus \in 0..6
      BY <1>2 DEF Context!Items, ContextCounts
    <3>2. focus' \in 0..6 /\ UNCHANGED <<copies, strays, down>>
      BY <2>4, <3>1 DEF Context!onKeyDown
    <3>3. QED
      BY <1>1, <1>2, <1>4, <3>2 DEF ContextCounts
  <2>5. QED
    BY <2>1, <2>2, <2>3, <2>4
<1>6. ContextShown'
  BY <1>1, <1>2, ContextSameMenu
<1>7. strays' >= 0
  BY <1>5 DEF ContextCounts
<1>8. QED
  BY <1>3, <1>5, <1>6, <1>7, ContextJoined

(***************************************************************************)
(* However the window changes and copies and timers overlap, a menu on the *)
(* screen is within the canvas and leaves its point free, on each side     *)
(* that has room before and behind the point: for any sizes and clicks.    *)
(***************************************************************************)
THEOREM ContextCorrect ==
    ASSUME Context!SizesAssumption PROVE Context!Spec => [](Context!TypeOK /\ Context!MenuInside)
<1>1. Context!Init => ContextInv
  <2> SUFFICES ASSUME Context!Init PROVE ContextInv
    OBVIOUS
  <2>1. ContextFlags
    BY DEF Context!Init, ContextFlags
  <2>2. menu = None /\ copies = 0 /\ strays = 0 /\ size \in Sizes /\ focus = 0 /\ down = "none"
    BY DEF Context!Init
  <2>3. ContextCounts
    BY <2>2 DEF ContextCounts, Context!SizesAssumption
  <2>4. ContextShown
    BY <2>2 DEF ContextShown, Context!MenuInside
  <2>5. QED
    BY <2>1, <2>2, <2>3, <2>4, ContextParted
       DEF ContextInv, Context!SizesAssumption
<1>2. ContextInv /\ [Context!Next]_Context!vars => ContextInv'
  <2> SUFFICES ASSUME ContextInv, [Context!Next]_Context!vars PROVE ContextInv'
    OBVIOUS
  <2>1. CASE UNCHANGED Context!vars
    <3>1. ContextFlags /\ ContextCounts /\ ContextShown
      BY ContextParted DEF ContextInv
    <3>2. ContextFlags' /\ ContextCounts' /\ ContextShown'
      BY <2>1, <3>1, ContextSameMenu
         DEF Context!vars, ContextFlags, ContextCounts
    <3>3. QED
      BY <2>1, <3>2, ContextJoined DEF Context!vars, ContextInv
  <2>2. CASE Context!Next
    BY <2>2, ContextContextStep, ContextClosingSteps, ContextOtherSteps
       DEF Context!Next
  <2>3. QED
    BY <2>1, <2>2
<1>3. ContextInv => Context!TypeOK /\ Context!MenuInside
  BY DEF ContextInv
<1>4. QED
  BY <1>1, <1>2, <1>3, PTL DEF Context!Spec

-----------------------------------------------------------------------------
(* The sheet (MobileChrome).                                             *)
-----------------------------------------------------------------------------
(***************************************************************************)
(* The sheet of a narrow window (MobileChrome).  A drag ends with onUp,    *)
(* which forgets its height; a window that is high enough for the handle   *)
(* is higher than every state of the sheet.                                *)
(***************************************************************************)
ChromeInv ==
    /\ Chrome!TypeOK
    /\ drag = None => dragH = None

LEMMA ChromeHeightInt ==
    ASSUME Chrome!HeightsAssumption, NEW v \in Heights, NEW s \in Chrome!SheetState
    PROVE  Chrome!heights(v)[s] \in Int
<1>1. v \in Nat
  BY DEF Chrome!HeightsAssumption
<1>2. (v + 1) \div 2 \in Int
  BY <1>1
<1>3. QED
  BY <1>1, <1>2 DEF Chrome!heights, Chrome!SheetState, Chrome!PEEK_PX,
         Chrome!FULL_GAP_PX

\* There is a nearest state: of three, one is not further than the others.
LEMMA ChromeNearestState ==
    ASSUME Chrome!HeightsAssumption, vh \in Heights, NEW px \in Int
    PROVE  Chrome!nearest(px) \in Chrome!SheetState
<1> DEFINE far(s) == Chrome!Abs(px - Chrome!heights(vh)[s])
           least(s) == \A t \in Chrome!SheetState : \/ far(s) < far(t)
                                                    \/ far(s) = far(t) /\ Chrome!Rank[s] <= Chrome!Rank[t]
<1>1. \A s \in Chrome!SheetState : far(s) \in Int
  BY ChromeHeightInt DEF Chrome!Abs
<1>2. Chrome!Rank["peek"] = 1 /\ Chrome!Rank["half"] = 2 /\ Chrome!Rank["full"] = 3
  BY DEF Chrome!Rank, Chrome!SheetState
<1>3. \E s \in Chrome!SheetState : least(s)
  <2> HIDE DEF far
  <2>1. far("peek") \in Int /\ far("half") \in Int /\ far("full") \in Int
    BY <1>1 DEF Chrome!SheetState
  <2>2. CASE far("peek") <= far("half") /\ far("peek") <= far("full")
    BY <1>2, <2>1, <2>2 DEF Chrome!SheetState
  <2>3. CASE far("half") < far("peek") /\ far("half") <= far("full")
    BY <1>2, <2>1, <2>3 DEF Chrome!SheetState
  <2>4. CASE far("full") < far("peek") /\ far("full") < far("half")
    BY <1>2, <2>1, <2>4 DEF Chrome!SheetState
  <2>5. QED
    BY <2>1, <2>2, <2>3, <2>4
<1>4. Chrome!nearest(px) = CHOOSE s \in Chrome!SheetState : least(s)
  BY DEF Chrome!nearest
<1>5. QED
  <2> HIDE DEF least
  <2>1. QED
    BY <1>3, <1>4

LEMMA ChromeTyped ==
    ASSUME Chrome!HeightsAssumption, ChromeInv
    PROVE  /\ Chrome!h \in Int
           /\ \A px \in Int : Chrome!Clamped(px) \in Int
<1>1. vh \in Heights /\ sheet \in Chrome!SheetState /\ dragH \in Int \cup {None}
  BY DEF ChromeInv, Chrome!TypeOK
<1>2. Chrome!heights(vh)[sheet] \in Int /\ Chrome!heights(vh)["full"] \in Int
  BY <1>1, ChromeHeightInt DEF Chrome!SheetState
<1>3. Chrome!h \in Int
  BY <1>1, <1>2 DEF Chrome!h
<1>4. \A px \in Int : Chrome!Clamped(px) \in Int
  BY <1>2 DEF Chrome!Clamped, Chrome!PEEK_PX
<1>5. QED
  BY <1>3, <1>4

LEMMA ChromeDownStep ==
    ASSUME Chrome!HeightsAssumption, ChromeInv, NEW y \in Fingers, Chrome!onDown(y) PROVE ChromeInv'
<1>1. Chrome!h \in Int
  BY ChromeTyped
<1>2. drag' = [y |-> y, h |-> Chrome!h, moved |-> FALSE] /\ UNCHANGED <<vh, sheet, dragH, sheetMode>>
  BY DEF Chrome!onDown
<1>3. drag' \in [y: Fingers, h: Int, moved: BOOLEAN]
  BY <1>1, <1>2
<1>4. None \notin [y: Fingers, h: Int, moved: BOOLEAN]
  BY DEF Chrome!HeightsAssumption
<1>5. QED
  BY <1>2, <1>3, <1>4 DEF ChromeInv, Chrome!TypeOK
LEMMA ChromeMoveStep ==
    ASSUME Chrome!HeightsAssumption, ChromeInv, NEW y \in Fingers, Chrome!onMove(y) PROVE ChromeInv'
<1>1. /\ drag # None /\ drag' = [drag EXCEPT !.moved = @ \/ Chrome!Abs(drag.y - y) > 5]
      /\ dragH' = IF drag'.moved THEN Chrome!Clamped(drag.h + drag.y - y) ELSE dragH
      /\ UNCHANGED <<vh, sheet, sheetMode>>
  BY DEF Chrome!onMove
<1>2. drag \in [y: Fingers, h: Int, moved: BOOLEAN] /\ y \in Int /\ drag.y \in Int
  BY <1>1 DEF ChromeInv, Chrome!TypeOK, Chrome!HeightsAssumption
<1>3. (drag.moved \/ Chrome!Abs(drag.y - y) > 5) \in BOOLEAN
  OBVIOUS
<1>4. drag' \in [y: Fingers, h: Int, moved: BOOLEAN] /\ drag' # None
  BY <1>1, <1>2, <1>3 DEF Chrome!HeightsAssumption
<1>5. dragH' \in Int \cup {None}
  <2>1. drag.h + drag.y - y \in Int /\ dragH \in Int \cup {None}
    BY <1>2 DEF ChromeInv, Chrome!TypeOK
  <2>2. QED
    BY <1>1, <2>1, ChromeTyped
<1>6. QED
  BY <1>1, <1>4, <1>5 DEF ChromeInv, Chrome!TypeOK

LEMMA ChromeUpStep == ASSUME Chrome!HeightsAssumption, ChromeInv, Chrome!onUp PROVE ChromeInv'
<1>1. /\ drag # None /\ drag' = None /\ dragH' = None /\ UNCHANGED <<vh, sheetMode>>
      /\ sheet' = IF drag.moved
                  THEN Chrome!nearest(IF dragH # None THEN dragH ELSE drag.h)
                  ELSE Chrome!Toggled
  BY DEF Chrome!onUp
<1>2. (IF dragH # None THEN dragH ELSE drag.h) \in Int /\ vh \in Heights
  BY <1>1 DEF ChromeInv, Chrome!TypeOK
<1>3. Chrome!nearest(IF dragH # None THEN dragH ELSE drag.h) \in Chrome!SheetState
  BY <1>2, ChromeNearestState
<1>4. sheet' \in Chrome!SheetState
  BY <1>1, <1>3 DEF Chrome!Toggled, Chrome!SheetState
<1>5. QED
  BY <1>1, <1>4 DEF ChromeInv, Chrome!TypeOK

LEMMA ChromeOtherSteps ==
    ASSUME ChromeInv,
           \/ Chrome!HandleKey \/ Chrome!MenuButton \/ Chrome!onRoute \/ Chrome!RulerButton
           \/ Chrome!FocusSearch \/ Chrome!PickResult \/ Chrome!SelectPlace
           \/ \E v \in Heights : Chrome!onResize(v)
    PROVE  ChromeInv'
BY DEF Chrome!HandleKey, Chrome!MenuButton, Chrome!onRoute, Chrome!RulerButton,
       Chrome!FocusSearch, Chrome!PickResult,
       Chrome!SelectPlace, Chrome!onResize, Chrome!changeMode, Chrome!Toggled, ChromeInv, Chrome!TypeOK, Chrome!SheetState

\* Half a window is lower than the whole of it without the gap.
LEMMA ChromeSettles == ASSUME Chrome!HeightsAssumption, ChromeInv PROVE Chrome!SheetSettles
<1>1. SUFFICES ASSUME drag = None, vh - Chrome!FULL_GAP_PX >= Chrome!PEEK_PX
               PROVE  Chrome!h <= vh - Chrome!FULL_GAP_PX
  BY DEF ChromeInv, Chrome!SheetSettles
<1>2. vh \in Nat /\ vh >= 220 /\ sheet \in {"peek", "half", "full"}
  BY <1>1 DEF ChromeInv, Chrome!TypeOK, Chrome!HeightsAssumption,
         Chrome!FULL_GAP_PX, Chrome!PEEK_PX, Chrome!SheetState
<1>3. Chrome!h = Chrome!heights(vh)[sheet]
  BY <1>1 DEF ChromeInv, Chrome!h
<1>4. CASE sheet = "peek"
  BY <1>1, <1>3, <1>4 DEF Chrome!heights, Chrome!SheetState
<1>5. CASE sheet = "half"
  <2>1. Chrome!h = (vh + 1) \div 2
    BY <1>3, <1>5 DEF Chrome!heights, Chrome!SheetState
  <2>2. (vh + 1) \div 2 <= vh - 64
    BY <1>2
  <2>3. QED
    BY <2>1, <2>2 DEF Chrome!FULL_GAP_PX
<1>6. CASE sheet = "full"
  BY <1>2, <1>3, <1>6 DEF Chrome!heights, Chrome!SheetState, Chrome!FULL_GAP_PX
<1>7. QED
  BY <1>2, <1>4, <1>5, <1>6

(***************************************************************************)
(* However fingers, turns of the window and calls of the page follow one   *)
(* another, a sheet that no finger holds has the height of its state, and  *)
(* its handle is on the screen: for any heights and places of a finger.    *)
(***************************************************************************)
THEOREM ChromeCorrect ==
    ASSUME Chrome!HeightsAssumption PROVE Chrome!Spec => [](Chrome!TypeOK /\ Chrome!SheetSettles)
<1>1. Chrome!Init => ChromeInv
  BY DEF Chrome!Init, ChromeInv, Chrome!TypeOK, Chrome!SheetState
<1>2. ChromeInv /\ [Chrome!Next]_Chrome!vars => ChromeInv'
  <2> SUFFICES ASSUME ChromeInv, [Chrome!Next]_Chrome!vars PROVE ChromeInv'
    OBVIOUS
  <2>1. CASE UNCHANGED Chrome!vars
    BY <2>1 DEF Chrome!vars, ChromeInv, Chrome!TypeOK
  <2>2. CASE Chrome!Next
    BY <2>2, ChromeDownStep, ChromeMoveStep, ChromeUpStep, ChromeOtherSteps
       DEF Chrome!Next
  <2>3. QED
    BY <2>1, <2>2
<1>3. ChromeInv => Chrome!TypeOK /\ Chrome!SheetSettles
  BY ChromeSettles DEF ChromeInv
<1>4. QED
  BY <1>1, <1>2, <1>3, PTL DEF Chrome!Spec

-----------------------------------------------------------------------------
(* The buttons of the map (MapControls).                                 *)
-----------------------------------------------------------------------------
(***************************************************************************)
(* The compass and the place of the user (MapControls).  The compass is a  *)
(* matter of the direction alone, the button and the message of the        *)
(* control of the library.                                                 *)
(***************************************************************************)
ControlsCompass == mounted => (showCompass <=> Controls!Abs(bearing) >= Controls!COMPASS_MIN)

ControlsFollowing ==
    /\ {turning, showCompass, tracking, mounted} \subseteq BOOLEAN
    /\ control \in Controls!States
    /\ {toast, toastTimer} \subseteq Controls!Messages \cup {None}
    /\ tracking => control \in {"waiting", "active"}
    /\ toastTimer = toast

ControlsInv == bearing \in Bearings /\ ControlsCompass /\ ControlsFollowing

LEMMA ControlsInitInv == ASSUME Controls!BearingsAssumption, Controls!Init PROVE ControlsInv
<1>1. bearing \in Bearings /\ ControlsFollowing
  BY DEF Controls!Init, ControlsFollowing, Controls!States,
         Controls!BearingsAssumption
<1>2. ControlsCompass
  <2>1. bearing = 0 /\ showCompass = FALSE
    BY DEF Controls!Init
  <2>2. ~(Controls!Abs(bearing) >= Controls!COMPASS_MIN)
    BY <2>1 DEF Controls!Abs, Controls!COMPASS_MIN
  <2>3. QED
    BY <2>1, <2>2, Zenon DEF ControlsCompass
<1>3. QED
  BY <1>1, <1>2 DEF ControlsInv

LEMMA ControlsKept ==
    ASSUME ControlsInv, UNCHANGED <<bearing, showCompass, mounted>>
    PROVE  bearing' \in Bearings /\ ControlsCompass'
BY Zenon DEF ControlsInv, ControlsCompass

LEMMA ControlsRotateStep ==
    ASSUME ControlsInv, NEW b \in Bearings, Controls!Rotate(b) PROVE ControlsInv'
<1>1. bearing' = b /\ turning' = FALSE /\ mounted' = mounted
      /\ UNCHANGED <<control, tracking, toast, toastTimer>>
  BY DEF Controls!Rotate
<1>2. showCompass' = IF mounted THEN Controls!Abs(b) >= Controls!COMPASS_MIN ELSE showCompass
  BY DEF Controls!Rotate
<1>3. ControlsCompass'
  <2>1. Controls!Abs(bearing)' = Controls!Abs(b)
    BY <1>1 DEF Controls!Abs
  <2>2. QED
    BY <1>1, <1>2, <2>1, Zenon DEF ControlsCompass
<1>4. showCompass' \in BOOLEAN
  <2>1. showCompass \in BOOLEAN
    BY DEF ControlsInv, ControlsFollowing
  <2>2. (Controls!Abs(b) >= Controls!COMPASS_MIN) \in BOOLEAN
    OBVIOUS
  <2>3. QED
    BY <1>2, <2>1, <2>2, Zenon
<1>5. ControlsFollowing'
  BY <1>1, <1>4 DEF ControlsInv, ControlsFollowing
<1>6. QED
  BY <1>1, <1>3, <1>5 DEF ControlsInv

LEMMA ControlsRemountStep ==
    ASSUME ControlsInv, Controls!Remount PROVE ControlsInv'
<1>1. /\ control' = "off" /\ tracking' = FALSE /\ toast' = None
      /\ toastTimer' = None /\ bearing' = bearing /\ turning' = turning
  BY DEF Controls!Remount
<1>2. mounted' = ~mounted
  BY DEF Controls!Remount
<1>3. showCompass' = (Controls!Abs(bearing) >= Controls!COMPASS_MIN)
  BY DEF Controls!Remount
<1>4. ControlsCompass'
  <2>1. Controls!Abs(bearing)' = Controls!Abs(bearing)
    BY <1>1 DEF Controls!Abs
  <2>2. QED
    BY <1>3, <2>1, Zenon DEF ControlsCompass
<1>5. mounted' \in BOOLEAN /\ showCompass' \in BOOLEAN
  <2>1. (Controls!Abs(bearing) >= Controls!COMPASS_MIN) \in BOOLEAN
    OBVIOUS
  <2>2. mounted \in BOOLEAN
    BY DEF ControlsInv, ControlsFollowing
  <2>3. mounted' \in BOOLEAN
    BY <1>2, <2>2, SMT
  <2>4. showCompass' \in BOOLEAN
    BY <1>3, <2>1, Zenon
  <2>5. QED
    BY <2>3, <2>4
<1>6. ControlsFollowing'
  BY <1>1, <1>5 DEF ControlsInv, ControlsFollowing, Controls!States
<1>7. QED
  BY <1>1, <1>4, <1>6 DEF ControlsInv

LEMMA ControlsOtherSteps ==
    ASSUME ControlsInv,
           \/ Controls!CompassButton \/ Controls!locate \/ Controls!Located \/ Controls!MoveAway \/ Controls!TimerFires
           \/ \E m \in {"refused", "failed"} : Controls!LocateFails(m)
    PROVE  ControlsInv'
<1>1. UNCHANGED <<bearing, showCompass, mounted>>
  BY DEF Controls!CompassButton, Controls!locate, Controls!Located,
         Controls!MoveAway, Controls!TimerFires, Controls!LocateFails
<1>2. CASE Controls!CompassButton
  BY <1>1, <1>2, ControlsKept
     DEF Controls!CompassButton, ControlsInv, ControlsFollowing
<1>3. CASE Controls!locate
  <2>1. ControlsFollowing'
    BY <1>1, <1>3 DEF Controls!locate, Controls!setToast, ControlsInv,
           ControlsFollowing, Controls!States, Controls!Messages
  <2>2. QED
    BY <1>1, <2>1, ControlsKept DEF ControlsInv
<1>4. CASE Controls!Located
  <2>1. ControlsFollowing'
    BY <1>1, <1>4 DEF Controls!Located, Controls!Found, ControlsInv,
           ControlsFollowing, Controls!States
  <2>2. QED
    BY <1>1, <2>1, ControlsKept DEF ControlsInv
<1>5. CASE Controls!MoveAway
  <2>1. ControlsFollowing'
    BY <1>1, <1>5 DEF Controls!MoveAway, ControlsInv, ControlsFollowing,
           Controls!States
  <2>2. QED
    BY <1>1, <2>1, ControlsKept DEF ControlsInv
<1>6. CASE Controls!TimerFires
  <2>1. ControlsFollowing'
    BY <1>1, <1>6 DEF Controls!TimerFires, ControlsInv, ControlsFollowing
  <2>2. QED
    BY <1>1, <2>1, ControlsKept DEF ControlsInv
<1>7. ASSUME NEW m \in {"refused", "failed"}, Controls!LocateFails(m) PROVE ControlsInv'
  <2>1. ControlsFollowing'
    BY <1>1, <1>7 DEF Controls!LocateFails, Controls!setToast, Controls!Lost,
           ControlsInv, ControlsFollowing, Controls!States, Controls!Messages
  <2>2. QED
    BY <1>1, <2>1, ControlsKept DEF ControlsInv
<1>8. QED
  BY <1>2, <1>3, <1>4, <1>5, <1>6, <1>7

(***************************************************************************)
(* However turns, answers of the browser and changes of the window follow  *)
(* one another: the compass shows whenever the map is turned, the button   *)
(* is lit only while the map looks for the user or follows, and a message  *)
(* has a timer of its own: for any directions.                             *)
(***************************************************************************)
THEOREM ControlsCorrect ==
    ASSUME Controls!BearingsAssumption PROVE Controls!Spec => [](Controls!TypeOK /\ Controls!ControlsRight)
<1>1. Controls!Init => ControlsInv
  BY ControlsInitInv
<1>2. ControlsInv /\ [Controls!Next]_Controls!vars => ControlsInv'
  <2> SUFFICES ASSUME ControlsInv, [Controls!Next]_Controls!vars PROVE ControlsInv'
    OBVIOUS
  <2>1. CASE UNCHANGED Controls!vars
    <3>1. ControlsFollowing'
      BY <2>1 DEF Controls!vars, ControlsInv, ControlsFollowing
    <3>2. QED
      BY <2>1, <3>1, ControlsKept DEF Controls!vars, ControlsInv
  <2>2. CASE Controls!Next
    BY <2>2, ControlsRotateStep, ControlsRemountStep, ControlsOtherSteps
       DEF Controls!Next
  <2>3. QED
    BY <2>1, <2>2
<1>3. ControlsInv => Controls!TypeOK /\ Controls!ControlsRight
  BY DEF ControlsInv, ControlsCompass, ControlsFollowing, Controls!TypeOK,
         Controls!ControlsRight
<1>4. QED
  BY <1>1, <1>2, <1>3, PTL DEF Controls!Spec

-----------------------------------------------------------------------------
(* The working hours (WorkHours).                                        *)
-----------------------------------------------------------------------------
(***************************************************************************)
(* The text of the working hours (WorkHours).  formatDays walks over the   *)
(* week from its end: what it writes of the days from i on is read as the  *)
(* days from i on that are chosen.                                         *)
(***************************************************************************)
HoursTextParts ==
    [kind: {"days", "Har kuni", "kun bo'yi", "time", "tanaffus"},
     from: Int \cup {None}, to: Int \cup {None}]

\* What formatDays writes for the days from i on, f[k] being what it writes
\* for those from k on.
HoursRun(on, i) ==
    IF Hours!RunEnd(on, i) - i >= 2 THEN <<Hours!Part("days", i, Hours!RunEnd(on, i))>>
    ELSE [k \in 1..(Hours!RunEnd(on, i) - i + 1) |->
             Hours!Part("days", i + k - 1, i + k - 1)]
HoursFrom(on, f, i) ==
    IF i = 8 THEN <<>>
    ELSE IF i \notin on THEN f[i + 1]
    ELSE HoursRun(on, i) \o f[Hours!RunEnd(on, i) + 1]

HoursEndsRun(on, i, j) == j \in i..7 /\ i..j \subseteq on /\ j + 1 \notin on

\* A run has an end: the day itself, or the end of the run of the next day.
LEMMA HoursRunStep ==
    ASSUME NEW on \in SUBSET Hours!Days, NEW i \in 1..7, i \in on,
           \/ i + 1 \notin on
           \/ \E j \in Int : HoursEndsRun(on, i + 1, j)
    PROVE  \E j \in Int : HoursEndsRun(on, i, j)
<1>1. CASE i + 1 \notin on
  <2>1. HoursEndsRun(on, i, i)
    BY <1>1 DEF HoursEndsRun
  <2>2. QED
    BY <2>1
<1>2. ASSUME NEW j \in Int, HoursEndsRun(on, i + 1, j) PROVE HoursEndsRun(on, i, j)
  BY <1>2 DEF HoursEndsRun
<1>3. QED
  BY <1>1, <1>2

LEMMA HoursRunEnds ==
    ASSUME NEW on \in SUBSET Hours!Days, NEW i \in on
    PROVE  /\ Hours!RunEnd(on, i) \in i..7
           /\ i..Hours!RunEnd(on, i) \subseteq on
           /\ Hours!RunEnd(on, i) + 1 \notin on
<1> DEFINE Ends(k) == k \in on => \E j \in Int : HoursEndsRun(on, k, j)
<1>1. \A k \in 1..7 : (k = 7 \/ Ends(k + 1)) => Ends(k)
  <2>1. 8 \notin on
    BY DEF Hours!Days
  <2>2. QED
    BY <2>1, HoursRunStep
<1> HIDE DEF Ends
<1>2. Ends(7)
  BY <1>1
<1>3. Ends(6)
  BY <1>1, <1>2
<1>4. Ends(5)
  BY <1>1, <1>3
<1>5. Ends(4)
  BY <1>1, <1>4
<1>6. Ends(3)
  BY <1>1, <1>5
<1>7. Ends(2)
  BY <1>1, <1>6
<1>8. Ends(1)
  BY <1>1, <1>7
<1>9. Ends(i)
  BY <1>2, <1>3, <1>4, <1>5, <1>6, <1>7, <1>8 DEF Hours!Days
<1>10. PICK j \in Int : HoursEndsRun(on, i, j)
  BY <1>9 DEF Ends
<1>11. \E j2 \in i..7 : i..j2 \subseteq on /\ j2 + 1 \notin on
  BY <1>10 DEF HoursEndsRun
<1>12. QED
  BY <1>11 DEF Hours!RunEnd

\* What is written of the days from n on needs only what is written of later
\* ones, so the equation of parts has a solution.
LEMMA HoursLater ==
    ASSUME NEW on \in SUBSET Hours!Days, NEW i \in 1..7, NEW f, NEW g,
           \A k \in (i + 1)..8 : g[k] = f[k]
    PROVE  HoursFrom(on, g, i) = HoursFrom(on, f, i)
<1>1. CASE i \notin on
  BY <1>1 DEF HoursFrom
<1>2. CASE i \in on
  <2>1. Hours!RunEnd(on, i) + 1 \in (i + 1)..8
    BY <1>2, HoursRunEnds
  <2>2. QED
    BY <1>2, <2>1 DEF HoursFrom
<1>3. QED
  BY <1>1, <1>2

HoursSolved(on, n) == \E f : f = [i \in n..8 |-> HoursFrom(on, f, i)]

LEMMA HoursSolveStep ==
    ASSUME NEW on \in SUBSET Hours!Days, NEW n \in 1..7, HoursSolved(on, n + 1)
    PROVE  HoursSolved(on, n)
<1>1. PICK f : f = [i \in (n + 1)..8 |-> HoursFrom(on, f, i)]
  BY DEF HoursSolved
<1> DEFINE g == [i \in n..8 |-> IF i = n THEN HoursFrom(on, f, n) ELSE f[i]]
<1>2. \A k \in (n + 1)..8 : g[k] = f[k]
  OBVIOUS
<1>3. g[n] = HoursFrom(on, f, n)
  OBVIOUS
<1>4. \A k \in (n + 1)..8 : f[k] = HoursFrom(on, f, k)
  BY <1>1
<1>5. \A h \in {g} : h = [i \in n..8 |-> h[i]]
  OBVIOUS
<1> HIDE DEF g
<1>6. ASSUME NEW i \in n..8 PROVE g[i] = HoursFrom(on, g, i)
  <2>1. CASE i = 8
    BY <1>2, <1>4, <2>1 DEF HoursFrom
  <2>2. CASE i \in 1..7
    <3>1. \A k \in (i + 1)..8 : g[k] = f[k]
      BY <1>2, <2>2
    <3>2. HoursFrom(on, g, i) = HoursFrom(on, f, i)
      BY <2>2, <3>1, HoursLater
    <3>3. g[i] = HoursFrom(on, f, i)
      BY <1>2, <1>3, <1>4, <2>2
    <3>4. QED
      BY <3>2, <3>3
  <2>3. QED
    BY <2>1, <2>2
<1>7. g = [i \in n..8 |-> HoursFrom(on, g, i)]
  BY <1>5, <1>6
<1>8. QED
  BY <1>7 DEF HoursSolved

LEMMA HoursFormatSolved ==
    ASSUME NEW on \in SUBSET Hours!Days, on # Hours!Days
    PROVE  \E f : /\ \A i \in 1..8 : f[i] = HoursFrom(on, f, i)
                  /\ Hours!formatDays(on) = f[1]
<1>1. HoursSolved(on, 8)
  <2> DEFINE f == [i \in 8..8 |-> <<>>]
  <2>1. f = [i \in 8..8 |-> HoursFrom(on, f, i)]
    BY DEF HoursFrom
  <2>2. QED
    BY <2>1 DEF HoursSolved
<1>2. HoursSolved(on, 1)
  <2>1. HoursSolved(on, 7)
    BY <1>1, HoursSolveStep
  <2>2. HoursSolved(on, 6)
    BY <2>1, HoursSolveStep
  <2>3. HoursSolved(on, 5)
    BY <2>2, HoursSolveStep
  <2>4. HoursSolved(on, 4)
    BY <2>3, HoursSolveStep
  <2>5. HoursSolved(on, 3)
    BY <2>4, HoursSolveStep
  <2>6. HoursSolved(on, 2)
    BY <2>5, HoursSolveStep
  <2>7. QED
    BY <2>6, HoursSolveStep
<1> DEFINE f == CHOOSE f : f = [i \in 1..8 |-> HoursFrom(on, f, i)]
<1>3. f = [i \in 1..8 |-> HoursFrom(on, f, i)]
  BY <1>2 DEF HoursSolved
<1>4. Hours!formatDays(on) = f[1]
  BY DEF Hours!formatDays, HoursFrom, HoursRun
<1> HIDE DEF f
<1>5. \A i \in 1..8 : f[i] = HoursFrom(on, f, i)
  BY <1>3
<1>6. QED
  BY <1>4, <1>5

\* Reading is part by part.
LEMMA HoursReadEmpty == Hours!Read(<<>>) = {}
BY DEF Hours!Read

LEMMA HoursReadJoined ==
    ASSUME NEW S, NEW s \in Seq(S), NEW t \in Seq(S)
    PROVE  Hours!Read(s \o t) = Hours!Read(s) \cup Hours!Read(t)
<1> DEFINE n == Len(s)
           m == Len(t)
           r == s \o t
<1>1. /\ n \in Nat /\ m \in Nat /\ DOMAIN s = 1..n /\ DOMAIN t = 1..m
      /\ DOMAIN r = 1..(n + m)
      /\ \A i \in 1..n : r[i] = s[i]
      /\ \A i \in 1..m : r[n + i] = t[i]
  OBVIOUS
<1> HIDE DEF n, m, r
<1>2. ASSUME NEW d \in Hours!Read(s) PROVE d \in Hours!Read(r)
  <2>1. PICK i \in 1..n : d \in Hours!Means(s[i])
    BY <1>1 DEF Hours!Read
  <2>2. i \in DOMAIN r /\ r[i] = s[i]
    BY <1>1
  <2>3. QED
    BY <2>1, <2>2 DEF Hours!Read
<1>3. ASSUME NEW d \in Hours!Read(t) PROVE d \in Hours!Read(r)
  <2>1. PICK i \in 1..m : d \in Hours!Means(t[i])
    BY <1>1 DEF Hours!Read
  <2>2. n + i \in DOMAIN r /\ r[n + i] = t[i]
    BY <1>1
  <2>3. QED
    BY <2>1, <2>2 DEF Hours!Read
<1>4. ASSUME NEW d \in Hours!Read(r) PROVE d \in Hours!Read(s) \cup Hours!Read(t)
  <2>1. PICK i \in 1..(n + m) : d \in Hours!Means(r[i])
    BY <1>1 DEF Hours!Read
  <2>2. CASE i \in 1..n
    BY <1>1, <2>1, <2>2 DEF Hours!Read
  <2>3. CASE i \notin 1..n
    <3>1. i - n \in 1..m /\ n + (i - n) = i
      BY <1>1, <2>3
    <3>2. r[i] = t[i - n]
      BY <1>1, <3>1
    <3>3. QED
      BY <1>1, <2>1, <3>1, <3>2 DEF Hours!Read
  <2>4. QED
    BY <2>2, <2>3
<1>5. QED
  BY <1>2, <1>3, <1>4 DEF r

\* A run is read as its days, and something is written of it.
LEMMA HoursReadRun ==
    ASSUME NEW on \in SUBSET Hours!Days, NEW i \in on
    PROVE  /\ HoursRun(on, i) \in Seq(HoursTextParts)
           /\ Hours!Read(HoursRun(on, i)) = i..Hours!RunEnd(on, i)
<1> DEFINE j == Hours!RunEnd(on, i)
<1>1. i \in 1..7 /\ j \in i..7
  BY HoursRunEnds DEF Hours!Days
<1> HIDE DEF j
<1>2. CASE j - i >= 2
  <2> DEFINE p == Hours!Part("days", i, j)
  <2>1. HoursRun(on, i) = <<p>>
    BY <1>2 DEF HoursRun, j
  <2>2. p \in HoursTextParts /\ p.kind = "days" /\ p.from = i /\ p.to = j
    BY <1>1 DEF Hours!Part, HoursTextParts, Hours!Days
  <2>3. Hours!Means(p) = i..j
    BY <2>2 DEF Hours!Means
  <2> HIDE DEF p
  <2>4. DOMAIN <<p>> = {1} /\ <<p>>[1] = p
    OBVIOUS
  <2>5. Hours!Read(<<p>>) = Hours!Means(p)
    BY <2>4 DEF Hours!Read
  <2>6. QED
    BY <2>1, <2>2, <2>3, <2>5 DEF j
<1>3. CASE ~(j - i >= 2)
  <2> DEFINE n == j - i + 1
             s == [k \in 1..n |-> Hours!Part("days", i + k - 1, i + k - 1)]
  <2>1. HoursRun(on, i) = s
    BY <1>3 DEF HoursRun, j
  <2>2. n \in Nat
    BY <1>1
  <2>3. \A k \in 1..n : /\ s[k] \in HoursTextParts /\ s[k].kind = "days"
                        /\ s[k].from = i + k - 1 /\ s[k].to = i + k - 1
    BY <1>1 DEF Hours!Part, HoursTextParts, Hours!Days
  <2>4. s \in Seq(HoursTextParts) /\ DOMAIN s = 1..n
    BY <2>2, <2>3
  <2> HIDE DEF s
  <2>5. \A k \in 1..n : Hours!Means(s[k]) = (i + k - 1)..(i + k - 1)
    BY <2>3 DEF Hours!Means
  <2>6. ASSUME NEW d \in i..j PROVE d \in Hours!Read(s)
    <3>1. d - i + 1 \in 1..n /\ d = i + (d - i + 1) - 1
      BY <1>1
    <3>2. d \in Hours!Means(s[d - i + 1])
      BY <1>1, <2>5, <3>1
    <3>3. QED
      BY <2>4, <3>1, <3>2 DEF Hours!Read
  <2>7. ASSUME NEW d \in Hours!Read(s) PROVE d \in i..j
    <3>1. PICK k \in 1..n : d \in Hours!Means(s[k])
      BY <2>4, <2>7 DEF Hours!Read
    <3>2. QED
      BY <1>1, <2>5, <3>1
  <2>8. QED
    BY <2>1, <2>4, <2>6, <2>7 DEF j
<1>4. QED
  BY <1>2, <1>3

HoursWrites(on, f, i) == f[i] \in Seq(HoursTextParts) /\ Hours!Read(f[i]) = on \cap (i..7)

LEMMA HoursWriteStep ==
    ASSUME NEW on \in SUBSET Hours!Days, NEW f, NEW i \in 1..7,
           f[i] = HoursFrom(on, f, i), \A k \in (i + 1)..8 : HoursWrites(on, f, k)
    PROVE  HoursWrites(on, f, i)
<1>1. CASE i \notin on
  <2>1. f[i] = f[i + 1] /\ HoursWrites(on, f, i + 1)
    BY <1>1 DEF HoursFrom
  <2>2. on \cap (i..7) = on \cap ((i + 1)..7)
    BY <1>1 DEF Hours!Days
  <2>3. QED
    BY <2>1, <2>2 DEF HoursWrites
<1>2. CASE i \in on
  <2> DEFINE j == Hours!RunEnd(on, i)
  <2>1. j \in i..7 /\ i..j \subseteq on /\ j + 1 \notin on
    BY <1>2, HoursRunEnds
  <2>2. HoursRun(on, i) \in Seq(HoursTextParts) /\ Hours!Read(HoursRun(on, i)) = i..j
    BY <1>2, HoursReadRun
  <2>3. f[i] = HoursRun(on, i) \o f[j + 1]
    BY <1>2 DEF HoursFrom
  <2> HIDE DEF j
  <2>4. HoursWrites(on, f, j + 1)
    BY <2>1
  <2>5. f[i] \in Seq(HoursTextParts) /\ Hours!Read(f[i]) = (i..j) \cup (on \cap ((j + 1)..7))
    <3> DEFINE r == HoursRun(on, i)
               t == f[j + 1]
    <3>1. r \in Seq(HoursTextParts) /\ Hours!Read(r) = i..j
      BY <2>2
    <3>2. t \in Seq(HoursTextParts) /\ Hours!Read(t) = on \cap ((j + 1)..7)
      BY <2>4 DEF HoursWrites
    <3>3. f[i] = r \o t
      BY <2>3
    <3> HIDE DEF r, t
    <3>4. r \o t \in Seq(HoursTextParts)
      BY <3>1, <3>2
    <3>5. Hours!Read(r \o t) = Hours!Read(r) \cup Hours!Read(t)
      BY <3>1, <3>2, HoursReadJoined
    <3>6. QED
      BY <3>1, <3>2, <3>3, <3>4, <3>5
  <2>6. (i..j) \cup (on \cap ((j + 1)..7)) = on \cap (i..7)
    BY <2>1 DEF Hours!Days
  <2>7. QED
    BY <2>5, <2>6 DEF HoursWrites
<1>3. QED
  BY <1>1, <1>2

(***************************************************************************)
(* The text of the days is read as the days that are chosen, and is empty  *)
(* only if there are none.                                                 *)
(***************************************************************************)
LEMMA HoursDaysRead ==
    ASSUME NEW on \in SUBSET Hours!Days
    PROVE  /\ Hours!Read(Hours!formatDays(on)) = on
           /\ Hours!formatDays(on) \in Seq(HoursTextParts)
           /\ on # {} => Hours!formatDays(on) # <<>>
<1>1. CASE on = Hours!Days
  <2> DEFINE p == Hours!Part("Har kuni", None, None)
  <2>1. Hours!formatDays(on) = <<p>>
    BY <1>1 DEF Hours!formatDays
  <2>2. p \in HoursTextParts /\ Hours!Means(p) = Hours!Days
    BY DEF Hours!Part, Hours!Means, HoursTextParts
  <2> HIDE DEF p
  <2>3. DOMAIN <<p>> = {1} /\ <<p>>[1] = p /\ Len(<<p>>) = 1
    OBVIOUS
  <2>4. Hours!Read(<<p>>) = Hours!Days
    BY <2>2, <2>3 DEF Hours!Read
  <2>5. <<p>> # <<>>
    BY <2>3
  <2>6. QED
    BY <1>1, <2>1, <2>2, <2>4, <2>5
<1>2. CASE on # Hours!Days
  <2>1. PICK f : /\ \A i \in 1..8 : f[i] = HoursFrom(on, f, i)
                 /\ Hours!formatDays(on) = f[1]
    BY <1>2, HoursFormatSolved
  <2>2. HoursWrites(on, f, 8)
    <3>1. f[8] = <<>> /\ on \cap (8..7) = {}
      BY <2>1 DEF HoursFrom
    <3>2. QED
      BY <3>1, HoursReadEmpty DEF HoursWrites
  <2>3. HoursWrites(on, f, 7)
    BY <2>1, <2>2, HoursWriteStep
  <2>4. HoursWrites(on, f, 6)
    BY <2>1, <2>2, <2>3, HoursWriteStep
  <2>5. HoursWrites(on, f, 5)
    BY <2>1, <2>2, <2>3, <2>4, HoursWriteStep
  <2>6. HoursWrites(on, f, 4)
    BY <2>1, <2>2, <2>3, <2>4, <2>5, HoursWriteStep
  <2>7. HoursWrites(on, f, 3)
    BY <2>1, <2>2, <2>3, <2>4, <2>5, <2>6, HoursWriteStep
  <2>8. HoursWrites(on, f, 2)
    BY <2>1, <2>2, <2>3, <2>4, <2>5, <2>6, <2>7, HoursWriteStep
  <2>9. HoursWrites(on, f, 1)
    BY <2>1, <2>2, <2>3, <2>4, <2>5, <2>6, <2>7, <2>8, HoursWriteStep
  <2>10. Hours!formatDays(on) \in Seq(HoursTextParts) /\ Hours!Read(Hours!formatDays(on)) = on
    BY <2>1, <2>9 DEF HoursWrites, Hours!Days
  <2>11. on # {} => Hours!formatDays(on) # <<>>
    BY <2>10, HoursReadEmpty
  <2>12. QED
    BY <2>10, <2>11
<1>3. QED
  BY <1>1, <1>2

HoursHoursRecord ==
    [days: Hours!DAYS_OPTIONS, custom: SUBSET Hours!Days, time: {"allday", "range"},
     brk: {"none", "range"}]
HoursInv ==
    /\ hours \in HoursHoursRecord
    /\ set \in [Hours!Fields -> 0..1439 \cup {None}]

LEMMA HoursFlagged == ASSUME HoursInv PROVE Hours!daysFlags \in SUBSET Hours!Days
<1>1. hours.days \in {"none", "daily", "weekdays", "sixdays", "weekend", "custom"}
      /\ hours.custom \in SUBSET Hours!Days
  BY DEF HoursInv, HoursHoursRecord, Hours!DAYS_OPTIONS
<1>2. Hours!PRESET_DAYS["daily"] = 1..7 /\ Hours!PRESET_DAYS["weekdays"] = 1..5
      /\ Hours!PRESET_DAYS["sixdays"] = 1..6 /\ Hours!PRESET_DAYS["weekend"] = 6..7
  BY DEF Hours!PRESET_DAYS
<1>3. CASE hours.days \in {"none", "custom"}
  BY <1>1, <1>3 DEF Hours!daysFlags
<1>4. CASE hours.days \notin {"none", "custom"}
  <2>1. Hours!daysFlags = Hours!PRESET_DAYS[hours.days]
    BY <1>4 DEF Hours!daysFlags
  <2>2. QED
    BY <1>1, <1>2, <1>4, <2>1 DEF Hours!Days
<1>5. QED
  BY <1>3, <1>4

LEMMA HoursTextEmpty ==
    ASSUME HoursInv PROVE Hours!formatHours = <<>> <=> hours.days = "none" \/ Hours!hoursProblem
<1>1. CASE hours.days = "none" \/ Hours!hoursProblem
  BY <1>1 DEF Hours!formatHours
<1>2. CASE ~(hours.days = "none" \/ Hours!hoursProblem)
  <2> DEFINE d == Hours!formatDays(Hours!daysFlags)
             t == IF hours.time = "allday" THEN <<Hours!Part("kun bo'yi", None, None)>>
                  ELSE <<Hours!Part("time", set.from, set.to)>> \o
                       (IF hours.brk = "range"
                        THEN <<Hours!Part("tanaffus", set.breakFrom, set.breakTo)>>
                        ELSE <<>>)
  <2>1. Hours!daysFlags # {}
    BY <1>2 DEF Hours!hoursProblem
  <2>2. d \in Seq(HoursTextParts) /\ d # <<>>
    BY <2>1, HoursFlagged, HoursDaysRead
  <2>3. \A f \in Hours!Fields : set[f] \in Int \cup {None}
    BY DEF HoursInv
  <2>4. /\ set.from \in Int \cup {None} /\ set.to \in Int \cup {None}
        /\ set.breakFrom \in Int \cup {None} /\ set.breakTo \in Int \cup {None}
    BY <2>3 DEF Hours!Fields, Hours!DefaultTimes
  <2>5. t \in Seq(HoursTextParts)
    <3> DEFINE P == HoursTextParts
               p == Hours!Part("kun bo'yi", None, None)
               q == Hours!Part("time", set.from, set.to)
               r == Hours!Part("tanaffus", set.breakFrom, set.breakTo)
    <3>1. p \in P /\ q \in P /\ r \in P
      BY <2>4 DEF Hours!Part, HoursTextParts
    <3>2. t = IF hours.time = "allday" THEN <<p>>
              ELSE <<q>> \o (IF hours.brk = "range" THEN <<r>> ELSE <<>>)
      OBVIOUS
    <3> HIDE DEF t, P, p, q, r
    <3>3. <<p>> \in Seq(P) /\ <<q>> \in Seq(P) /\ <<r>> \in Seq(P) /\ <<>> \in Seq(P)
      BY <3>1
    <3>4. t \in Seq(P)
      BY <3>2, <3>3
    <3>5. QED
      BY <3>4 DEF P
  <2>6. Hours!formatHours = d \o t
    BY <1>2 DEF Hours!formatHours
  <2> HIDE DEF d, t
  <2>7. Len(d) > 0 /\ Len(t) \in Nat /\ Len(d) \in Nat
    BY <2>2, <2>5
  <2>8. Len(d \o t) = Len(d) + Len(t)
    BY <2>2, <2>5
  <2>9. d \o t # <<>>
    BY <2>7, <2>8
  <2>10. QED
    BY <1>2, <2>6, <2>9
<1>3. QED
  BY <1>1, <1>2

LEMMA HoursRight == ASSUME Hours!HoursAssumption, HoursInv PROVE Hours!HoursRight
<1>1. Hours!Read(Hours!formatDays(Hours!daysFlags)) = Hours!daysFlags
  BY HoursFlagged, HoursDaysRead
<1>2. ASSUME Hours!formatHours # <<>>, Hours!timed
      PROVE  /\ None \notin {set.from, set.to}
             /\ hours.brk = "range" /\ set.from < set.to =>
                   set.breakFrom..set.breakTo \subseteq set.from..set.to
  <2>1. ~Hours!hoursProblem /\ hours.days # "none" /\ hours.time = "range"
    BY <1>2, HoursTextEmpty DEF Hours!timed
  <2>2. set.from # None /\ set.to # None
    BY <2>1 DEF Hours!hoursProblem, Hours!isTime
  <2>3. \A f \in Hours!Fields : set[f] \in Int \cup {None}
    BY DEF HoursInv
  <2>4. /\ set.from \in Int \cup {None} /\ set.to \in Int \cup {None}
        /\ set.breakFrom \in Int \cup {None} /\ set.breakTo \in Int \cup {None}
    BY <2>3 DEF Hours!Fields, Hours!DefaultTimes
  <2>5. ASSUME hours.brk = "range", set.from < set.to
        PROVE  set.breakFrom..set.breakTo \subseteq set.from..set.to
    <3>1. /\ set.breakFrom # None /\ set.breakTo # None
          /\ ~(set.breakFrom < set.from) /\ ~(set.breakTo > set.to)
      BY <2>1, <2>5 DEF Hours!hoursProblem, Hours!isTime, Hours!breakOutside
    <3>2. QED
      BY <2>2, <2>4, <3>1
  <2>6. QED
    BY <2>2, <2>5
<1>3. QED
  BY <1>1, <1>2, HoursTextEmpty DEF Hours!HoursRight

LEMMA HoursFieldStep ==
    ASSUME Hours!HoursAssumption, HoursInv, Hours!Next PROVE HoursInv'
<1>1. hours \in HoursHoursRecord /\ set \in [Hours!Fields -> 0..1439 \cup {None}]
  BY DEF HoursInv
<1>2. ASSUME NEW v \in Hours!DAYS_OPTIONS, Hours!SetDays(v) PROVE HoursInv'
  BY <1>1, <1>2 DEF Hours!SetDays, HoursInv, HoursHoursRecord
<1>3. ASSUME NEW d \in Clickable, Hours!ToggleDay(d) PROVE HoursInv'
  <2>1. d \in Hours!Days
    BY DEF Hours!HoursAssumption, Hours!Days
  <2>2. QED
    BY <1>1, <1>3, <2>1 DEF Hours!ToggleDay, HoursInv, HoursHoursRecord
<1>4. ASSUME NEW v \in {"allday", "range"}, Hours!SetTime(v) PROVE HoursInv'
  BY <1>1, <1>4 DEF Hours!SetTime, HoursInv, HoursHoursRecord
<1>5. ASSUME NEW v \in {"none", "range"}, Hours!SetBreak(v) PROVE HoursInv'
  BY <1>1, <1>5 DEF Hours!SetBreak, HoursInv, HoursHoursRecord
<1>6. ASSUME NEW f \in Hours!Fields, NEW t \in Times \cup {None}, Hours!TypeTime(f, t) PROVE HoursInv'
  <2>1. t \in 0..1439 \cup {None}
    BY DEF Hours!HoursAssumption
  <2>2. QED
    BY <1>1, <1>6, <2>1 DEF Hours!TypeTime, HoursInv
<1>7. QED
  BY <1>2, <1>3, <1>4, <1>5, <1>6 DEF Hours!Next

(***************************************************************************)
(* Whatever was set before and is disabled now, the text of the hours is   *)
(* empty exactly when there is nothing to say or something to correct, a   *)
(* reader learns the days that are chosen, and a break lies in the hours:  *)
(* for any days and times.                                                 *)
(***************************************************************************)
THEOREM HoursCorrect ==
    ASSUME Hours!HoursAssumption PROVE Hours!Spec => [](Hours!TypeOK /\ Hours!HoursRight)
<1>1. Hours!Init => HoursInv
  BY DEF Hours!Init, HoursInv, HoursHoursRecord, Hours!DEFAULT_HOURS,
         Hours!DefaultTimes, Hours!Fields, Hours!DAYS_OPTIONS, Hours!Days
<1>2. HoursInv /\ [Hours!Next]_Hours!vars => HoursInv'
  <2> SUFFICES ASSUME HoursInv, [Hours!Next]_Hours!vars PROVE HoursInv'
    OBVIOUS
  <2>1. CASE UNCHANGED Hours!vars
    BY <2>1 DEF Hours!vars, HoursInv
  <2>2. CASE Hours!Next
    BY <2>2, HoursFieldStep
  <2>3. QED
    BY <2>1, <2>2
<1>3. HoursInv => Hours!TypeOK /\ Hours!HoursRight
  <2> SUFFICES ASSUME HoursInv PROVE Hours!TypeOK
    BY HoursRight
  <2>1. QED
    BY DEF HoursInv, HoursHoursRecord, Hours!TypeOK
<1>4. QED
  BY <1>1, <1>2, <1>3, PTL DEF Hours!Spec

-----------------------------------------------------------------------------
(* Contacts (Contacts).                                                  *)
-----------------------------------------------------------------------------
(***************************************************************************)
(* The address in a field (Contacts).  What is kept is what the server     *)
(* made of the address that is still in the field, and took.               *)
(***************************************************************************)
LinksInv ==
    /\ Links!TypeOK
    /\ kept # None =>
          /\ contact # None /\ contact \in Links!Contacts
          /\ Links!Takes(field, contact) /\ contact.host # "punycode1a"
          /\ kept = Links!Clean(contact)

\* What the server stores has a scheme, and nothing else of it is changed.
LEMMA LinksCleaned ==
    ASSUME Links!LengthsAssumption, NEW c \in Links!Contacts, Links!cleanWebURL(c)
    PROVE  LET k == Links!Clean(c) IN
           /\ k.scheme \in {"http", "https"}
           /\ k.user = c.user /\ k.host = c.host /\ k.port = c.port
           /\ k.path = c.path /\ k.nested = c.nested
           /\ k.length \in 1..MaxLength
<1>1. c.scheme \in {"none", "http", "https"} /\ c.length \in Nat \ {0}
      /\ Links!Clean(c).length <= MaxLength /\ MaxLength \in Nat
  BY DEF Links!cleanWebURL, Links!Contacts, Links!LengthsAssumption
<1>2. CASE c.scheme = "none"
  <2>1. Links!Clean(c) = [c EXCEPT !.scheme = "https", !.length = @ + Links!PrefixLength]
    BY <1>2 DEF Links!Clean
  <2>2. /\ Links!Clean(c).scheme = "https" /\ Links!Clean(c).length = c.length + 8
        /\ Links!Clean(c).user = c.user /\ Links!Clean(c).host = c.host
        /\ Links!Clean(c).port = c.port /\ Links!Clean(c).path = c.path
        /\ Links!Clean(c).nested = c.nested
    BY <2>1 DEF Links!Contacts, Links!PrefixLength
  <2>3. QED
    BY <1>1, <2>2
<1>3. CASE c.scheme # "none"
  BY <1>1, <1>3 DEF Links!Clean
<1>4. QED
  BY <1>2, <1>3

\* What the server takes and stores, both take again as it is.
LEMMA LinksTakenAgain ==
    ASSUME Links!LengthsAssumption, NEW f \in {"site", "social"}, NEW c \in Links!Contacts,
           Links!Takes(f, c)
    PROVE  LET k == Links!Clean(c) IN
           /\ Links!safeHref(k)
           /\ f = "social" => Links!socialName(k) # "none"
           /\ Links!Takes(f, k) /\ Links!Clean(k) = k
<1> DEFINE k == Links!Clean(c)
<1>1. /\ Links!cleanWebURL(c)
      /\ f = "social" => c.host \in Links!Networks /\ c.path = "account"
  BY DEF Links!Takes, Links!cleanSocial
<1>2. /\ k.scheme \in {"http", "https"}
      /\ k.user = c.user /\ k.host = c.host /\ k.port = c.port
      /\ k.path = c.path /\ k.length \in 1..MaxLength
  BY <1>1, LinksCleaned
<1> HIDE DEF k
<1>3. Links!Clean(k) = k
  BY <1>2 DEF Links!Clean
<1>4. k.length <= MaxLength /\ Links!Clean(k).length <= MaxLength
  BY <1>2, <1>3 DEF Links!LengthsAssumption
<1>5. Links!cleanWebURL(k)
  <2>1. ~k.user /\ Links!publicHostname(k.host) /\ k.port \in {"none", "some"}
    BY <1>1, <1>2 DEF Links!cleanWebURL
  <2>2. k.scheme \in {"none", "http", "https"} /\ (k.scheme = "none" => ~k.nested)
    BY <1>2
  <2>3. QED
    BY <1>4, <2>1, <2>2 DEF Links!cleanWebURL
<1>6. f = "social" => k.host \in Links!Networks /\ k.path = "account"
  BY <1>1, <1>2
<1>7. Links!Takes(f, k)
  BY <1>5, <1>6 DEF Links!Takes, Links!cleanSocial
<1>8. Links!safeHref(k) /\ (f = "social" => Links!socialName(k) # "none")
  BY <1>2, <1>6 DEF Links!safeHref, Links!socialName
<1>9. QED
  BY <1>3, <1>7, <1>8 DEF k

\* The page refuses nothing the server takes, punycode1a apart.
LEMMA LinksNotRefused ==
    ASSUME NEW f \in {"site", "social"}, NEW c, c.host # "punycode1a", Links!Takes(f, c)
    PROVE  ~Links!Problem(f, c)
<1>1. /\ Links!cleanWebURL(c)
      /\ f = "social" => c.host \in Links!Networks /\ c.path = "account"
  BY DEF Links!Takes, Links!cleanSocial
<1>2. Links!checkWebUrl(c)
  BY <1>1 DEF Links!cleanWebURL, Links!checkWebUrl, Links!publicHostname,
         Links!Networks
<1>3. c.length <= MaxLength
  BY <1>1 DEF Links!cleanWebURL
<1>4. QED
  BY <1>1, <1>2, <1>3 DEF Links!Problem, Links!siteProblem, Links!socialProblem

LEMMA LinksRight == ASSUME Links!LengthsAssumption, LinksInv PROVE Links!ContactsRight
<1>1. field \in {"site", "social"} /\ contact \in Links!Contacts \cup {None}
  BY DEF LinksInv, Links!TypeOK
<1>2. ASSUME contact # None, contact.host # "punycode1a", Links!Takes(field, contact)
      PROVE  ~Links!Problem(field, contact)
  BY <1>1, <1>2, LinksNotRefused
<1>3. ASSUME kept # None
      PROVE  /\ Links!safeHref(kept)
             /\ field = "social" => Links!socialName(kept) # "none"
             /\ Links!Takes(field, kept) /\ Links!Clean(kept) = kept
             /\ ~Links!Problem(field, kept)
  <2>1. /\ contact \in Links!Contacts /\ Links!Takes(field, contact)
        /\ contact.host # "punycode1a" /\ kept = Links!Clean(contact)
    BY <1>3 DEF LinksInv
  <2>2. /\ Links!safeHref(kept)
        /\ field = "social" => Links!socialName(kept) # "none"
        /\ Links!Takes(field, kept) /\ Links!Clean(kept) = kept
    BY <1>1, <2>1, LinksTakenAgain
  <2>3. kept.host # "punycode1a"
    <3>1. Links!cleanWebURL(contact)
      BY <2>1 DEF Links!Takes, Links!cleanSocial
    <3>2. QED
      BY <2>1, <3>1, LinksCleaned
  <2>4. ~Links!Problem(field, kept)
    BY <1>1, <2>2, <2>3, LinksNotRefused
  <2>5. QED
    BY <2>2, <2>4
<1>4. QED
  BY <1>2, <1>3 DEF Links!ContactsRight

LEMMA LinksSendStep == ASSUME Links!LengthsAssumption, LinksInv, Links!Send PROVE LinksInv'
<1>1. /\ contact # None /\ kept = None /\ ~Links!Problem(field, contact)
      /\ UNCHANGED <<field, contact>>
      /\ IF Links!Takes(field, contact)
         THEN kept' = Links!Clean(contact) /\ UNCHANGED refused
         ELSE refused' = TRUE /\ UNCHANGED kept
  BY DEF Links!Send
<1>2. field \in {"site", "social"} /\ contact \in Links!Contacts /\ refused \in BOOLEAN
  BY <1>1 DEF LinksInv, Links!TypeOK
<1>3. refused' \in BOOLEAN
  BY <1>1, <1>2
<1>4. CASE Links!Takes(field, contact)
  <2>1. Links!cleanWebURL(contact) /\ kept' = Links!Clean(contact)
    BY <1>1, <1>4 DEF Links!Takes, Links!cleanSocial
  <2>2. kept'.length \in 1..MaxLength
    BY <1>2, <2>1, LinksCleaned
  <2>3. contact.host # "punycode1a"
    <3>1. Links!checkWebUrl(contact)
      BY <1>1, <1>2 DEF Links!Problem, Links!siteProblem, Links!socialProblem
    <3>2. QED
      BY <3>1 DEF Links!checkWebUrl
  <2>4. Links!Takes(field, contact)'
    BY <1>1, <1>4
  <2>5. QED
    BY <1>1, <1>2, <1>3, <2>1, <2>2, <2>3, <2>4 DEF LinksInv, Links!TypeOK
<1>5. CASE ~Links!Takes(field, contact)
  BY <1>1, <1>2, <1>3, <1>5 DEF LinksInv, Links!TypeOK
<1>6. QED
  BY <1>4, <1>5

(***************************************************************************)
(* The page refuses nothing that the server would take, punycode1a apart,  *)
(* and what the server keeps is a link, has the name of its network and    *)
(* would be taken again as it is: for any lengths and any limit.           *)
(***************************************************************************)
THEOREM LinksCorrect ==
    ASSUME Links!LengthsAssumption PROVE Links!Spec => [](Links!TypeOK /\ Links!ContactsRight)
<1>1. Links!Init => LinksInv
  BY DEF Links!Init, LinksInv, Links!TypeOK
<1>2. LinksInv /\ [Links!Next]_Links!vars => LinksInv'
  <2> SUFFICES ASSUME LinksInv, [Links!Next]_Links!vars PROVE LinksInv'
    OBVIOUS
  <2>1. CASE UNCHANGED Links!vars
    <3>1. UNCHANGED <<field, contact, refused, kept>>
      BY <2>1 DEF Links!vars
    <3>2. Links!Takes(field, contact)' <=> Links!Takes(field, contact)
      BY <3>1
    <3>3. QED
      BY <3>1, <3>2 DEF LinksInv, Links!TypeOK
  <2>2. ASSUME NEW c \in Links!Contacts, Links!Type(c) PROVE LinksInv'
    BY <2>2 DEF Links!Type, LinksInv, Links!TypeOK
  <2>3. CASE Links!ClearField
    BY <2>3 DEF Links!ClearField, LinksInv, Links!TypeOK
  <2>4. CASE Links!Send
    BY <2>4, LinksSendStep
  <2>5. QED
    BY <2>1, <2>2, <2>3, <2>4 DEF Links!Next
<1>3. LinksInv => Links!TypeOK /\ Links!ContactsRight
  BY LinksRight DEF LinksInv
<1>4. QED
  BY <1>1, <1>2, <1>3, PTL DEF Links!Spec

-----------------------------------------------------------------------------
(* The addresses of the pages (CityRoutes).                              *)
-----------------------------------------------------------------------------
(***************************************************************************)
(* The addresses of the map (CityRoutes).  An address is the one that was  *)
(* opened, or the one of its city it was redirected to, from which there   *)
(* is no further way.                                                      *)
(***************************************************************************)
RoutesSlugged == {"city", "sputnik"}
RoutesViewOf(a) == a.query \cap {"ll", "z"}

RoutesLed ==
    /\ routeAddress \in Routes!Addresses /\ routeAddress.kind \in RoutesSlugged
    /\ routeAddress.id = CityOf[first.id] /\ routeAddress.slug = routeAddress.id
    /\ routeAddress.id \in RouteCities
    /\ first.kind \in RoutesSlugged =>
          routeAddress.kind = first.kind /\ RoutesViewOf(routeAddress) = RoutesViewOf(first)
    /\ routeAddress.kind = "sputnik" => first.kind = "sputnik"

RoutesInv ==
    /\ Routes!TypeOK
    /\ answer # "none" => first \in Routes!Addresses
    /\ answer = "redirect" => hops = 0 /\ RoutesLed
    /\ answer \in {"asked", "page", "notFound", "error"} =>
          \/ hops = 0 /\ routeAddress = first
          \/ hops = 1 /\ RoutesLed
    /\ hops <= 1
    /\ answer = "page" /\ first.kind \in RoutesSlugged =>
          /\ page.city = CityOf[first.id]
          /\ page.canonical = Routes!cityPath(page.city, first.kind = "sputnik")
    /\ answer = "notFound" =>
          \/ CityOf[first.id] = None
          \/ first.kind = "sputnik" /\ source = "unset"

LEMMA RoutesRight == ASSUME RoutesInv PROVE Routes!RoutesRight
<1>1. ASSUME answer = "page", first.kind \in RoutesSlugged
      PROVE  RoutesViewOf(routeAddress) = RoutesViewOf(first)
  BY <1>1 DEF RoutesInv, RoutesLed
<1>2. QED
  BY <1>1 DEF RoutesInv, Routes!RoutesRight, RoutesViewOf, RoutesSlugged

\* What an address is asked for, once it is known which.
LEMMA RoutesAnswerDue ==
    ASSUME Routes!CitiesAssumption, RoutesInv, answer = "asked"
    PROVE  /\ routeAddress \in Routes!Addresses /\ first \in Routes!Addresses
           /\ CityOf[routeAddress.id] = CityOf[first.id]
           /\ hops \in {0, 1} /\ (hops = 0 => routeAddress = first) /\ (hops = 1 => RoutesLed)
BY DEF RoutesInv, RoutesLed, Routes!Addresses, Routes!CitiesAssumption

LEMMA RoutesRedirectStep ==
    ASSUME Routes!CitiesAssumption, RoutesInv, answer = "asked", Routes!Known # None,
           NEW a \in Routes!Addresses, a.kind \in RoutesSlugged, a.id = Routes!Known, a.slug = Routes!Known,
           routeAddress.kind \in RoutesSlugged => a.kind = routeAddress.kind /\ RoutesViewOf(a) = RoutesViewOf(routeAddress),
           a.kind = "sputnik" => routeAddress.kind = "sputnik",
           hops = 0, Routes!permanentRedirect(a), UNCHANGED <<source, first, hops>>
    PROVE  RoutesInv'
<1>1. routeAddress = first /\ first \in Routes!Addresses
  BY RoutesAnswerDue
<1>2. Routes!Known \in RouteCities /\ Routes!Known = CityOf[first.id]
  BY <1>1 DEF Routes!Known, Routes!Addresses, Routes!CitiesAssumption
<1>3. routeAddress' = a /\ answer' = "redirect" /\ page' = page
  BY DEF Routes!permanentRedirect
<1>4. RoutesLed'
  BY <1>1, <1>2, <1>3 DEF RoutesLed
<1>5. QED
  BY <1>1, <1>3, <1>4 DEF RoutesInv, Routes!TypeOK

LEMMA RoutesNotFoundStep ==
    ASSUME Routes!CitiesAssumption, RoutesInv, answer = "asked", Routes!notFound,
           \/ Routes!Known = None
           \/ routeAddress.kind = "sputnik" /\ source = "unset" /\ routeAddress.slug = Routes!Known,
           UNCHANGED <<source, first, hops>>
    PROVE  RoutesInv'
<1>1. UNCHANGED <<routeAddress, page>> /\ answer' = "notFound"
  BY DEF Routes!notFound
<1>2. RoutesLed' <=> RoutesLed
  BY <1>1 DEF RoutesLed
<1>3. \/ CityOf[first.id] = None
      \/ first.kind = "sputnik" /\ source = "unset"
  <2>1. Routes!Known = CityOf[first.id]
    BY RoutesAnswerDue DEF Routes!Known
  <2>2. routeAddress.kind = "sputnik" => first.kind = "sputnik"
    BY RoutesAnswerDue DEF RoutesLed
  <2>3. QED
    BY <2>1, <2>2
<1>4. first \in Routes!Addresses /\ hops <= 1
  BY RoutesAnswerDue
<1>5. \/ hops = 0 /\ routeAddress = first
      \/ hops = 1 /\ RoutesLed
  BY RoutesAnswerDue
<1>6. QED
  BY <1>1, <1>2, <1>3, <1>4, <1>5 DEF RoutesInv, Routes!TypeOK

\* A page is of the address that is asked for, and of the one that was opened.
LEMMA RoutesPageStep ==
    ASSUME Routes!CitiesAssumption, RoutesInv, answer = "asked",
           answer' = "page", UNCHANGED <<source, routeAddress, first, hops>>,
           routeAddress.kind \in RoutesSlugged =>
               /\ page'.city = Routes!Known
               /\ page'.canonical = Routes!cityPath(Routes!Known, routeAddress.kind = "sputnik")
    PROVE  RoutesInv'
<1>1. RoutesLed' <=> RoutesLed
  BY DEF RoutesLed
<1>2. ASSUME first.kind \in RoutesSlugged
      PROVE  /\ page'.city = CityOf[first.id]
             /\ page'.canonical = Routes!cityPath(page'.city, first.kind = "sputnik")
  <2>1. routeAddress.kind = first.kind /\ Routes!Known = CityOf[first.id]
    BY <1>2, RoutesAnswerDue DEF RoutesLed, Routes!Known
  <2>2. QED
    BY <1>2, <2>1
<1>3. QED
  BY <1>1, <1>2, RoutesAnswerDue DEF RoutesInv, Routes!TypeOK

LEMMA RoutesNoneKnown ==
    ASSUME Routes!CitiesAssumption, RoutesInv, answer = "asked"
    PROVE  /\ Routes!Known \in RouteCities \cup {None}
           /\ hops = 1 => Routes!Known # None /\ routeAddress.slug = Routes!Known
<1>1. Routes!Known \in RouteCities \cup {None}
  BY RoutesAnswerDue DEF Routes!Known, Routes!Addresses, Routes!CitiesAssumption
<1>2. ASSUME hops = 1 PROVE Routes!Known # None /\ routeAddress.slug = Routes!Known
  BY <1>2, RoutesAnswerDue DEF Routes!Known, RoutesLed, Routes!CitiesAssumption
<1>3. QED
  BY <1>1, <1>2

LEMMA RoutesPathRight ==
    ASSUME Routes!CitiesAssumption, NEW c \in RouteCities, NEW s \in BOOLEAN,
           NEW q \in SUBSET Params
    PROVE  LET a == [Routes!cityPath(c, s) EXCEPT !.query = q] IN
           /\ a \in Routes!Addresses /\ Routes!cityPath(c, s) \in Routes!Addresses
           /\ a.kind = (IF s THEN "sputnik" ELSE "city")
           /\ Routes!cityPath(c, s).kind = (IF s THEN "sputnik" ELSE "city")
           /\ a.id = c /\ a.slug = c /\ a.query = q
           /\ Routes!cityPath(c, s).id = c /\ Routes!cityPath(c, s).slug = c
<1>1. c \in RouteIds
  BY DEF Routes!CitiesAssumption
<1>2. QED
  BY <1>1 DEF Routes!cityPath, Routes!Addresses, Routes!Kinds

LEMMA RoutesRedirectedStep ==
    ASSUME Routes!CitiesAssumption, RoutesInv, answer = "asked", Routes!Known # None,
           NEW s \in BOOLEAN, routeAddress.slug # Routes!Known,
           routeAddress.kind = IF s THEN "sputnik" ELSE "city",
           Routes!Redirected(s), UNCHANGED <<source, first, hops>>
    PROVE  RoutesInv'
<1> DEFINE q == Routes!preservedQuery(routeAddress.query)
           a == [Routes!cityPath(Routes!Known, s) EXCEPT !.query = q]
<1>1. Routes!Known \in RouteCities /\ hops = 0 /\ routeAddress \in Routes!Addresses
  BY RoutesNoneKnown, RoutesAnswerDue
<1>2. q \in SUBSET Params /\ RoutesViewOf(a) = q \cap {"ll", "z"}
      /\ RoutesViewOf(routeAddress) = q
  BY <1>1 DEF Routes!Addresses, Routes!preservedQuery, RoutesViewOf,
         Routes!cityPath
<1>3. /\ a \in Routes!Addresses /\ a.kind = routeAddress.kind /\ a.id = Routes!Known /\ a.slug = Routes!Known
  BY <1>1, <1>2, RoutesPathRight
<1>4. RoutesViewOf(a) = RoutesViewOf(routeAddress)
  BY <1>2 DEF Routes!preservedQuery
<1>5. Routes!permanentRedirect(a)
  BY DEF Routes!Redirected
<1>6. a.kind \in RoutesSlugged
  BY <1>3 DEF RoutesSlugged
<1> HIDE DEF a
<1>7. QED
  BY <1>1, <1>3, <1>4, <1>5, <1>6, RoutesRedirectStep

LEMMA RoutesAnswerStep ==
    ASSUME Routes!CitiesAssumption, RoutesInv, Routes!Answer PROVE RoutesInv'
<1>1. answer = "asked" /\ UNCHANGED <<source, first, hops>>
  BY DEF Routes!Answer
<1>2. CASE Routes!Home
  BY <1>1, <1>2, RoutesPageStep DEF Routes!Home, Routes!CityPage, RoutesSlugged
<1>3. CASE Routes!MapsIndex
  BY <1>1, <1>3, RoutesPageStep DEF Routes!MapsIndex, RoutesSlugged
<1>4. CASE Routes!IdPage
  <2>1. CASE Routes!Known = None
    BY <1>1, <1>4, <2>1, RoutesNotFoundStep DEF Routes!IdPage
  <2>2. CASE Routes!Known # None
    <3> DEFINE a == Routes!cityPath(Routes!Known, FALSE)
    <3>1. Routes!Known \in RouteCities /\ routeAddress.kind = "id" /\ Routes!permanentRedirect(a)
      BY <1>1, <1>4, <2>2, RoutesNoneKnown DEF Routes!IdPage
    <3>2. a \in Routes!Addresses /\ a.kind = "city" /\ a.id = Routes!Known /\ a.slug = Routes!Known
      BY <3>1, RoutesPathRight
    <3>3. hops = 0 /\ routeAddress.kind \notin RoutesSlugged /\ a.kind \in RoutesSlugged
      BY <1>1, <3>1, <3>2, RoutesAnswerDue DEF RoutesSlugged, RoutesLed
    <3> HIDE DEF a
    <3>4. QED
      BY <1>1, <2>2, <3>1, <3>2, <3>3, RoutesRedirectStep
  <2>3. QED
    BY <2>1, <2>2
<1>5. CASE Routes!SlugPage
  <2>1. CASE Routes!Known = None
    BY <1>1, <1>5, <2>1, RoutesNotFoundStep DEF Routes!SlugPage
  <2>2. CASE Routes!Known # None /\ routeAddress.slug # Routes!Known
    BY <1>1, <1>5, <2>2, RoutesRedirectedStep DEF Routes!SlugPage
  <2>3. CASE Routes!Known # None /\ routeAddress.slug = Routes!Known
    <3>1. Routes!CityPage(Routes!Known, FALSE, FALSE) /\ routeAddress.kind = "city"
      BY <1>5, <2>3 DEF Routes!SlugPage
    <3>2. page'.city = Routes!Known /\ page'.canonical = Routes!cityPath(Routes!Known, FALSE)
          /\ answer' = "page" /\ UNCHANGED routeAddress
      BY <3>1 DEF Routes!CityPage
    <3>3. (routeAddress.kind = "sputnik") = FALSE
      BY <3>1
    <3>4. QED
      BY <1>1, <3>2, <3>3, RoutesPageStep
  <2>4. QED
    BY <2>1, <2>2, <2>3
<1>6. CASE Routes!SputnikPage
  <2>1. CASE Routes!Known = None
    BY <1>1, <1>6, <2>1, RoutesNotFoundStep DEF Routes!SputnikPage
  <2>2. CASE Routes!Known # None /\ routeAddress.slug # Routes!Known
    BY <1>1, <1>6, <2>2, RoutesRedirectedStep DEF Routes!SputnikPage
  <2>3. CASE Routes!Known # None /\ routeAddress.slug = Routes!Known
    <3>1. Routes!SputnikServed /\ routeAddress.kind = "sputnik"
      BY <1>6, <2>3 DEF Routes!SputnikPage
    <3>2. CASE source = "set"
      <4>a. Routes!CityPage(Routes!Known, TRUE, TRUE)
        BY <3>1, <3>2 DEF Routes!SputnikServed
      <4>1. page'.city = Routes!Known /\ page'.canonical = Routes!cityPath(Routes!Known, TRUE)
            /\ answer' = "page" /\ UNCHANGED routeAddress
        BY <4>a DEF Routes!CityPage
      <4>2. page'.canonical = Routes!cityPath(Routes!Known, routeAddress.kind = "sputnik")
        BY <3>1, <4>1
      <4>3. QED
        BY <1>1, <4>1, <4>2, RoutesPageStep
    <3>3. CASE source = "unset"
      BY <1>1, <2>3, <3>1, <3>3, RoutesNotFoundStep DEF Routes!SputnikServed
    <3>4. CASE source = "down"
      <4>1. answer' = "error" /\ UNCHANGED <<routeAddress, page>>
        BY <3>1, <3>4 DEF Routes!SputnikServed
      <4>2. RoutesLed' <=> RoutesLed
        BY <1>1, <4>1 DEF RoutesLed
      <4>3. /\ first \in Routes!Addresses
            /\ \/ hops = 0 /\ routeAddress = first
               \/ hops = 1 /\ RoutesLed
        BY <1>1, RoutesAnswerDue
      <4>4. QED
        BY <1>1, <4>1, <4>2, <4>3 DEF RoutesInv, Routes!TypeOK
    <3>5. source \in {"set", "unset", "down"}
      BY DEF RoutesInv, Routes!TypeOK
    <3>6. QED
      BY <3>2, <3>3, <3>4, <3>5
  <2>4. QED
    BY <2>1, <2>2, <2>3
<1>7. QED
  BY <1>2, <1>3, <1>4, <1>5, <1>6 DEF Routes!Answer

LEMMA RoutesOtherSteps ==
    ASSUME Routes!CitiesAssumption, RoutesInv,
           (\E a \in Routes!Addresses : Routes!Open(a)) \/ Routes!Follow \/ Routes!SourceChanges
    PROVE  RoutesInv'
<1>1. ASSUME NEW a \in Routes!Addresses, Routes!Open(a) PROVE RoutesInv'
  BY <1>1 DEF Routes!Open, RoutesInv, Routes!TypeOK
<1>2. CASE Routes!Follow
  <2>1. /\ answer = "redirect" /\ answer' = "asked" /\ hops' = hops + 1
        /\ UNCHANGED <<source, routeAddress, first, page>>
    BY <1>2 DEF Routes!Follow
  <2>2. RoutesLed' /\ hops' = 1
    BY <2>1 DEF RoutesLed, RoutesInv
  <2>3. QED
    BY <2>1, <2>2 DEF RoutesInv, Routes!TypeOK
<1>3. CASE Routes!SourceChanges
  <2>1. source' \in {"set", "unset", "down"} /\ UNCHANGED <<routeAddress, first, hops>>
    BY <1>3 DEF Routes!SourceChanges
  <2>2. RoutesLed' <=> RoutesLed
    BY <2>1 DEF RoutesLed
  <2>3. CASE answer \in {"page", "notFound", "error"}
    BY <1>3, <2>1, <2>3 DEF Routes!SourceChanges, RoutesInv, Routes!TypeOK
  <2>4. CASE answer \notin {"page", "notFound", "error"}
    BY <1>3, <2>1, <2>2, <2>4 DEF Routes!SourceChanges, RoutesInv, Routes!TypeOK
  <2>5. QED
    BY <2>3, <2>4
<1>4. QED
  BY <1>1, <1>2, <1>3

(***************************************************************************)
(* Whatever address is opened, there is one redirect at most, which keeps  *)
(* the view of an address with a name in it, a page is of the city of its  *)
(* identifier and names the one address of it, and a city is not found     *)
(* only if there is none or its pictures are missing: for any cities and   *)
(* any way to write them.                                                  *)
(***************************************************************************)
THEOREM RoutesCorrect ==
    ASSUME Routes!CitiesAssumption PROVE Routes!Spec => [](Routes!TypeOK /\ Routes!RoutesRight)
<1>1. Routes!Init => RoutesInv
  BY DEF Routes!Init, RoutesInv, Routes!TypeOK
<1>2. RoutesInv /\ [Routes!Next]_Routes!vars => RoutesInv'
  <2> SUFFICES ASSUME RoutesInv, [Routes!Next]_Routes!vars PROVE RoutesInv'
    OBVIOUS
  <2>1. CASE UNCHANGED Routes!vars
    <3>1. UNCHANGED <<source, routeAddress, first, answer, page, hops>>
      BY <2>1 DEF Routes!vars
    <3>2. RoutesLed' <=> RoutesLed
      BY <3>1 DEF RoutesLed
    <3>3. QED
      BY <3>1, <3>2 DEF RoutesInv, Routes!TypeOK
  <2>2. CASE Routes!Next
    BY <2>2, RoutesAnswerStep, RoutesOtherSteps DEF Routes!Next
  <2>3. QED
    BY <2>1, <2>2
<1>3. RoutesInv => Routes!TypeOK /\ Routes!RoutesRight
  BY RoutesRight DEF RoutesInv
<1>4. QED
  BY <1>1, <1>2, <1>3, PTL DEF Routes!Spec

-----------------------------------------------------------------------------
(* The categories (Categories).                                          *)
\* No two categories have a key, a class, a name of organizations or a kind in
\* common.
LEMMA SidebarOneOwner ==
  ASSUME NEW c \in Sidebar!ALL_CATEGORIES, NEW d \in Sidebar!ALL_CATEGORIES,
         \/ c.key = d.key
         \/ \E x : x \in c.classes /\ x \in d.classes
         \/ \E x : x \in c.orgCategories /\ x \in d.orgCategories
         \/ \E x : x \in c.kinds /\ x \in d.kinds
  PROVE c = d
  BY DEF Sidebar!ALL_CATEGORIES, Sidebar!CATEGORIES, Sidebar!MORE_CATEGORIES,
         Sidebar!Cat

\* The names a category has are known to the server.
LEMMA SidebarKnown ==
  ASSUME NEW c \in Sidebar!ALL_CATEGORIES
  PROVE /\ c.orgCategories \subseteq Sidebar!ServerCategories
        /\ c.kinds \subseteq Sidebar!PlacedKinds \ {"organization", "entrance"}
  BY DEF Sidebar!ALL_CATEGORIES, Sidebar!CATEGORIES, Sidebar!MORE_CATEGORIES,
         Sidebar!Cat, Sidebar!ServerCategories,
         Sidebar!PlacedKinds, Sidebar!Kinds

\* The pin of a button is one the map has for it.
LEMMA SidebarPinned ==
  ASSUME NEW c \in Sidebar!ALL_CATEGORIES, c.pngIcon # None
  PROVE /\ \E o \in c.orgCategories : Sidebar!ORG_CATEGORY_ICON(o) = c.pngIcon
        /\ \E class \in c.classes : Sidebar!PNG_ICON(class) = c.pngIcon
  <1>1. CASE c \in Sidebar!CATEGORIES
    BY <1>1 DEF Sidebar!CATEGORIES, Sidebar!Cat, Sidebar!ORG_CATEGORY_ICON,
           Sidebar!PNG_ICON
  <1>2. CASE c \in Sidebar!MORE_CATEGORIES
    BY <1>2 DEF Sidebar!MORE_CATEGORIES, Sidebar!Cat,
           Sidebar!ORG_CATEGORY_ICON, Sidebar!PNG_ICON
  <1>q. QED
    BY <1>1, <1>2 DEF Sidebar!ALL_CATEGORIES

\* Every category of the server but "Boshqa" is of a category and of a tier.
LEMMA SidebarListed ==
  ASSUME NEW o \in Sidebar!ServerCategories \ {"Boshqa"}
  PROVE /\ \E c \in Sidebar!ALL_CATEGORIES : o \in c.orgCategories
        /\ \E t \in Sidebar!TIERS : o \in Sidebar!ORG_CATEGORY_TIER[t]
  <1>1. \E c \in Sidebar!ALL_CATEGORIES : o \in c.orgCategories
    BY DEF Sidebar!ALL_CATEGORIES, Sidebar!CATEGORIES, Sidebar!MORE_CATEGORIES,
           Sidebar!Cat, Sidebar!ServerCategories
  <1>2. \E t \in {1, 2, 3, 4} : o \in Sidebar!ORG_CATEGORY_TIER[t]
    BY DEF Sidebar!ORG_CATEGORY_TIER, Sidebar!ServerCategories
  <1>q. QED
    BY <1>1, <1>2 DEF Sidebar!TIERS

LEMMA SidebarClasses == Sidebar!POI_DEFS = UNION {Sidebar!StyleClasses[t] : t \in Sidebar!TIERS}
  <1>1. ASSUME NEW x \in Sidebar!POI_DEFS PROVE \E t \in {1, 2, 3, 4} : x \in Sidebar!StyleClasses[t]
    BY DEF Sidebar!POI_DEFS, Sidebar!StyleClasses
  <1>2. ASSUME NEW t \in {1, 2, 3, 4}, NEW x \in Sidebar!StyleClasses[t] PROVE x \in Sidebar!POI_DEFS
    BY DEF Sidebar!POI_DEFS, Sidebar!StyleClasses
  <1>3. Sidebar!TIERS = {1, 2, 3, 4}
    BY DEF Sidebar!TIERS
  <1>q. QED
    BY <1>1, <1>2, <1>3

LEMMA SidebarAnchors ==
  ASSUME Sidebar!NamesAssumption, NEW t \in Sidebar!TIERS
  PROVE Sidebar!StyleAnchors[t] = {c \in Sidebar!StyleClasses[t] : Sidebar!PNG_ICON(c) # None}
  <1>1. t \in {1, 2, 3, 4}
    BY DEF Sidebar!TIERS
  <1>2. ASSUME NEW x \in Sidebar!StyleAnchors[t] PROVE x \in Sidebar!StyleClasses[t] /\ Sidebar!PNG_ICON(x) # None
    <2>1. x # None /\ "hotel" # None
      <3>1. "hotel" \in Sidebar!Keys(Sidebar!ALL_CATEGORIES)
        <4>1. Sidebar!Cat("hotel", {"lodging"}, {"Mehmonxona"}, {}, "hotel") \in Sidebar!ALL_CATEGORIES
          BY DEF Sidebar!ALL_CATEGORIES, Sidebar!CATEGORIES
        <4>2. Sidebar!Cat("hotel", {"lodging"}, {"Mehmonxona"}, {}, "hotel").key = "hotel"
          BY DEF Sidebar!Cat
        <4>q. QED
          BY <4>1, <4>2 DEF Sidebar!Keys
      <3>2. x \in UNION {Sidebar!StyleAnchors[s] : s \in 1..4}
        BY <1>1, <1>2
      <3>q. QED
        BY <3>1, <3>2 DEF Sidebar!NamesAssumption
    <2>q. QED
      BY <1>1, <1>2, <2>1
         DEF Sidebar!StyleAnchors, Sidebar!StyleClasses, Sidebar!PNG_ICON
  <1>3. ASSUME NEW x \in Sidebar!StyleClasses[t], Sidebar!PNG_ICON(x) # None PROVE x \in Sidebar!StyleAnchors[t]
    BY <1>1, <1>3 DEF Sidebar!StyleAnchors, Sidebar!StyleClasses,
           Sidebar!PNG_ICON
  <1>q. QED
    BY <1>2, <1>3

LEMMA SidebarTiersApart ==
  ASSUME NEW t \in Sidebar!TIERS, NEW u \in Sidebar!TIERS, t < u
  PROVE /\ Sidebar!TIER_MINZOOM[t] < Sidebar!TIER_MINZOOM[u]
        /\ Sidebar!TIER_SORT_BASE[t] < Sidebar!TIER_SORT_BASE[u]
        /\ Sidebar!StyleClasses[t] \cap Sidebar!StyleClasses[u] = {}
        /\ Sidebar!ORG_CATEGORY_TIER[t] \cap Sidebar!ORG_CATEGORY_TIER[u] = {}
  <1>1. t \in {1, 2, 3, 4} /\ u \in {1, 2, 3, 4}
    BY DEF Sidebar!TIERS
  <1>2. Sidebar!TIER_MINZOOM[t] < Sidebar!TIER_MINZOOM[u] /\ Sidebar!TIER_SORT_BASE[t] < Sidebar!TIER_SORT_BASE[u]
    BY <1>1 DEF Sidebar!TIER_MINZOOM, Sidebar!TIER_SORT_BASE
  <1>3. ASSUME NEW x, x \in Sidebar!StyleClasses[t], x \in Sidebar!StyleClasses[u] PROVE FALSE
    BY <1>1, <1>3 DEF Sidebar!StyleClasses
  <1>4. ASSUME NEW x, x \in Sidebar!ORG_CATEGORY_TIER[t], x \in Sidebar!ORG_CATEGORY_TIER[u] PROVE FALSE
    BY <1>1, <1>4 DEF Sidebar!ORG_CATEGORY_TIER
  <1>q. QED
    BY <1>2, <1>3, <1>4

LEMMA SidebarTables == ASSUME Sidebar!NamesAssumption PROVE Sidebar!TablesAgree
  <1>1. ASSUME NEW c \in Sidebar!ALL_CATEGORIES, NEW d \in Sidebar!ALL_CATEGORIES \ {c}
        PROVE /\ c.key # d.key
              /\ c.orgCategories \cap d.orgCategories = {}
              /\ c.classes \cap d.classes = {}
              /\ c.kinds \cap d.kinds = {}
    BY SidebarOneOwner
  <1>2. Sidebar!KIND_UI = Sidebar!Kinds
    BY DEF Sidebar!KIND_UI, Sidebar!Kinds
  <1>3. \A t \in Sidebar!TIERS :
           Sidebar!StyleAnchors[t] = {c \in Sidebar!StyleClasses[t] : Sidebar!PNG_ICON(c) # None}
    BY SidebarAnchors
  <1>q. QED
    BY <1>1, <1>2, <1>3, SidebarKnown, SidebarPinned, SidebarListed,
       SidebarClasses, SidebarTiersApart
    DEF Sidebar!TablesAgree

\* An object is of one tier.
LEMMA SidebarOneTier == ASSUME NEW o PROVE Sidebar!placeTier(o) \in Sidebar!TIERS
  <1>1. ASSUME NEW table, NEW x, NEW default \in Sidebar!TIERS
        PROVE Sidebar!TierIn(table, x, default) \in Sidebar!TIERS
    BY DEF Sidebar!TierIn
  <1>2. 3 \in Sidebar!TIERS /\ 4 \in Sidebar!TIERS
    BY DEF Sidebar!TIERS
  <1>q. QED
    BY <1>1, <1>2 DEF Sidebar!placeTier
-----------------------------------------------------------------------------
\* The layers are as the map has them until they are filtered, and then as
\* what is chosen asks for.
SidebarFiltered ==
    /\ places = [t \in Sidebar!TIERS |->
          [category |-> chosen,
           from |-> IF chosen = None THEN Sidebar!TIER_MINZOOM[t] ELSE 0]]
    /\ poi = [t \in Sidebar!TIERS |->
          IF chosen = None
          THEN [classes |-> None, from |-> Sidebar!TIER_MINZOOM[t]]
          ELSE [classes |-> Sidebar!findCategory(chosen).classes, from |-> 0]]
SidebarInv ==
    /\ chosen \in Sidebar!Keys(Sidebar!ALL_CATEGORIES) \cup {None}
    /\ {expanded, narrow, layered} \subseteq BOOLEAN
    /\ ~layered => Sidebar!Fresh
    /\ layered => SidebarFiltered

LEMMA SidebarFound == ASSUME NEW key \in Sidebar!Keys(Sidebar!ALL_CATEGORIES) PROVE Sidebar!findCategory(key) \in Sidebar!ALL_CATEGORIES
  BY DEF Sidebar!Keys, Sidebar!findCategory

LEMMA SidebarZooms == ASSUME NEW t \in Sidebar!TIERS PROVE Sidebar!TIER_MINZOOM[t] \in 0..240
  BY DEF Sidebar!TIERS, Sidebar!TIER_MINZOOM

LEMMA SidebarInitInv == Sidebar!Init => SidebarInv
  BY DEF Sidebar!Init, SidebarInv, Sidebar!Fresh

LEMMA SidebarFiltering ==
  ASSUME NEW key, Sidebar!Filter(key), chosen' = key
  PROVE SidebarFiltered'
  BY DEF Sidebar!Filter, SidebarFiltered

LEMMA SidebarStepInv == SidebarInv /\ [Sidebar!Next]_Sidebar!vars => SidebarInv'
  <1> SUFFICES ASSUME SidebarInv, [Sidebar!Next]_Sidebar!vars PROVE SidebarInv'
    OBVIOUS
  <1>1. CASE Sidebar!Ready
    <2>1. SidebarFiltered'
      BY <1>1, SidebarFiltering DEF Sidebar!Ready
    <2>q. QED
      BY <1>1, <2>1 DEF Sidebar!Ready, SidebarInv
  <1>2. ASSUME NEW key \in Sidebar!Keys(Sidebar!ALL_CATEGORIES), Sidebar!setActive(key) PROVE SidebarInv'
    <2>1. layered => SidebarFiltered'
      BY <1>2, SidebarFiltering DEF Sidebar!setActive
    <2>2. ~layered => Sidebar!Fresh'
      BY <1>2 DEF Sidebar!setActive, SidebarInv, Sidebar!Fresh
    <2>3. chosen' \in Sidebar!Keys(Sidebar!ALL_CATEGORIES) \cup {None}
      BY <1>2 DEF Sidebar!setActive
    <2>q. QED
      BY <1>2, <2>1, <2>2, <2>3 DEF Sidebar!setActive, SidebarInv
  <1>3. CASE Sidebar!setExpanded
    <2>1. expanded' \in BOOLEAN
      BY <1>3 DEF Sidebar!setExpanded
    <2>q. QED
      BY <1>3, <2>1 DEF Sidebar!setExpanded, SidebarInv, SidebarFiltered,
             Sidebar!Fresh
  <1>4. CASE Sidebar!Resize
    <2>1. narrow' \in BOOLEAN
      BY <1>4 DEF Sidebar!Resize
    <2>q. QED
      BY <1>4, <2>1 DEF Sidebar!Resize, SidebarInv, SidebarFiltered,
             Sidebar!Fresh
  <1>5. CASE UNCHANGED Sidebar!vars
    BY <1>5 DEF Sidebar!vars, SidebarInv, SidebarFiltered, Sidebar!Fresh
  <1>q. QED
    BY <1>1, <1>2, <1>3, <1>4, <1>5 DEF Sidebar!Next

LEMMA SidebarTyped == SidebarInv => Sidebar!TypeOK
  <1> SUFFICES ASSUME SidebarInv PROVE Sidebar!TypeOK
    OBVIOUS
  <1>1. ASSUME NEW t \in Sidebar!TIERS, layered PROVE
           /\ places[t].category \in Sidebar!Keys(Sidebar!ALL_CATEGORIES) \cup {None}
           /\ {places[t].from, poi[t].from} \subseteq 0..240
    BY <1>1, SidebarZooms DEF SidebarInv, SidebarFiltered
  <1>2. ASSUME NEW t \in Sidebar!TIERS, ~layered PROVE
           /\ places[t].category \in Sidebar!Keys(Sidebar!ALL_CATEGORIES) \cup {None}
           /\ {places[t].from, poi[t].from} \subseteq 0..240
    BY <1>2, SidebarZooms DEF SidebarInv, Sidebar!Fresh
  <1>q. QED
    BY <1>1, <1>2 DEF Sidebar!TypeOK, SidebarInv

LEMMA SidebarTiered == SidebarInv => Sidebar!EachInItsTier
  <1> SUFFICES ASSUME SidebarInv, layered, NEW o \in Sidebar!Objects
      PROVE LET in == {t \in Sidebar!TIERS : Sidebar!withCategory(t, places[t].category, o)}
                belongs == \/ chosen = None
                           \/ Sidebar!Within(Sidebar!findCategory(chosen), o)
            IN  IF o.kind # "entrance" /\ belongs
                THEN /\ in = {Sidebar!placeTier(o)}
                     /\ places[Sidebar!placeTier(o)].from =
                           IF chosen = None THEN Sidebar!TIER_MINZOOM[Sidebar!placeTier(o)] ELSE 0
                ELSE in = {}
    BY DEF Sidebar!EachInItsTier
  <1> DEFINE belongs == \/ chosen = None
                        \/ Sidebar!Within(Sidebar!findCategory(chosen), o)
  <1>1. ASSUME NEW t \in Sidebar!TIERS
        PROVE Sidebar!withCategory(t, places[t].category, o)
                 <=> o.kind # "entrance" /\ Sidebar!placeTier(o) = t /\ belongs
    BY DEF SidebarInv, SidebarFiltered, Sidebar!withCategory,
           Sidebar!tierPointFilter
  <1>2. Sidebar!placeTier(o) \in Sidebar!TIERS
    BY SidebarOneTier
  <1>3. places[Sidebar!placeTier(o)].from =
           IF chosen = None THEN Sidebar!TIER_MINZOOM[Sidebar!placeTier(o)] ELSE 0
    BY <1>2 DEF SidebarInv, SidebarFiltered
  <1>q. QED
    BY <1>1, <1>2, <1>3

LEMMA SidebarNarrowed == SidebarInv => Sidebar!OsmNarrowed
  BY DEF SidebarInv, SidebarFiltered, Sidebar!OsmNarrowed

THEOREM SidebarCorrect == ASSUME Sidebar!NamesAssumption PROVE Sidebar!Spec => [](Sidebar!TypeOK /\ Sidebar!CategoriesRight)
  <1>1. SidebarInv => Sidebar!TypeOK /\ Sidebar!CategoriesRight
    BY SidebarTyped, SidebarTiered, SidebarNarrowed, SidebarTables
       DEF Sidebar!CategoriesRight
  <1>q. QED
    BY SidebarInitInv, SidebarStepInv, <1>1, PTL DEF Sidebar!Spec

-----------------------------------------------------------------------------
(* The base map of the staff pages (BaseMap).                            *)
-----------------------------------------------------------------------------
(***************************************************************************)
(* The map of the staff's pages (BaseMap): while the map moves without     *)
(* having been tilted, the button says what a click does where it goes.    *)
(***************************************************************************)
StaffInv ==
    /\ Staff!TypeOK /\ Staff!BaseMapRight
    /\ easing # None /\ ~tilted => (label = "2D" <=> easing >= 10)
    /\ loading => buildings = None

LEMMA StaffInitInv == ASSUME Staff!ConstantsAssumption, Staff!Init PROVE StaffInv
<1>1. basePitch \in Nat /\ None \notin BaseModes
  BY DEF Staff!Init, Staff!ConstantsAssumption
<1>2. QED
  BY <1>1 DEF Staff!Init, StaffInv, Staff!TypeOK, Staff!BaseMapRight, Staff!Flat

LEMMA StaffStyleSteps ==
    ASSUME Staff!ConstantsAssumption, StaffInv,
           Staff!StyleLoad \/ \E m \in BaseModes : Staff!setBasemap(m)
    PROVE  StaffInv'
<1>1. UNCHANGED <<basePitch, easing, label, tilted>>
  BY DEF Staff!StyleLoad, Staff!setBasemap, Staff!dim
<1>2. CASE Staff!StyleLoad
  BY <1>1, <1>2 DEF Staff!StyleLoad, Staff!add3D, StaffInv, Staff!TypeOK,
         Staff!BaseMapRight, Staff!Flat,
                    Staff!ConstantsAssumption
<1>3. ASSUME NEW m \in BaseModes, Staff!setBasemap(m) PROVE StaffInv'
  BY <1>1, <1>3 DEF Staff!setBasemap, StaffInv, Staff!TypeOK,
         Staff!BaseMapRight, Staff!Flat
<1>4. QED
  BY <1>2, <1>3

LEMMA StaffTiltSteps ==
    ASSUME Staff!ConstantsAssumption, StaffInv, Staff!toggleDim \/ Staff!Ease \/ Staff!Tilt PROVE StaffInv'
<1>1. UNCHANGED <<baseMode, lit, loading, buildings, own>>
  BY DEF Staff!toggleDim, Staff!Ease, Staff!Tilt, Staff!styled
<1>2. /\ None \notin Pitches /\ Pitches \subseteq Nat /\ basePitch \in Nat /\ easing \in Nat \cup {None}
      /\ 0 \in Pitches /\ pitch3d \in Pitches /\ pitch3d >= 10
  BY DEF Staff!ConstantsAssumption, StaffInv, Staff!TypeOK
<1>3. CASE Staff!toggleDim
  <2>1. /\ tilted' = FALSE /\ basePitch' = basePitch
        /\ \/ basePitch < 10 /\ easing' = pitch3d /\ label' = "2D"
           \/ ~(basePitch < 10) /\ easing' = 0 /\ label' = "3D"
    BY <1>3 DEF Staff!toggleDim, Staff!Flat
  <2>2. easing' # None /\ (label' = "2D" <=> easing' >= 10)
    BY <1>2, <2>1
  <2>3. Staff!TypeOK'
    BY <1>1, <1>2, <2>1 DEF StaffInv, Staff!TypeOK
  <2>4. QED
    BY <1>1, <2>2, <2>3 DEF StaffInv, Staff!BaseMapRight
<1>4. CASE Staff!Ease
  <2>1. PICK p \in Pitches :
            /\ \/ basePitch <= p /\ p <= easing
               \/ easing <= p /\ p <= basePitch
            /\ basePitch' = p
            /\ easing' = IF p = easing THEN None ELSE easing
    BY <1>4 DEF Staff!Ease
  <2>2. easing # None /\ UNCHANGED <<label, tilted>>
    BY <1>4 DEF Staff!Ease
  <2>3. QED
    BY <1>1, <1>2, <2>1, <2>2
       DEF StaffInv, Staff!TypeOK, Staff!BaseMapRight, Staff!Flat
<1>5. CASE Staff!Tilt
  BY <1>1, <1>2, <1>5
     DEF Staff!Tilt, StaffInv, Staff!TypeOK, Staff!BaseMapRight, Staff!Flat
<1>6. QED
  BY <1>3, <1>4, <1>5

(***************************************************************************)
(* However fast the base maps are switched, a map whose style is there has *)
(* the layers of the page and the buildings of that base map, and both     *)
(* buttons say what is so: for any base maps and pitches.                  *)
(***************************************************************************)
THEOREM StaffCorrect ==
    ASSUME Staff!ConstantsAssumption PROVE Staff!Spec => [](Staff!TypeOK /\ Staff!BaseMapRight)
<1>1. Staff!Init => StaffInv
  BY StaffInitInv
<1>2. StaffInv /\ [Staff!Next]_Staff!vars => StaffInv'
  <2> SUFFICES ASSUME StaffInv, [Staff!Next]_Staff!vars PROVE StaffInv'
    OBVIOUS
  <2>1. CASE UNCHANGED Staff!vars
    BY <2>1 DEF Staff!vars, Staff!styled, Staff!dim, StaffInv, Staff!TypeOK,
           Staff!BaseMapRight, Staff!Flat
  <2>2. CASE Staff!Next
    BY <2>2, StaffStyleSteps, StaffTiltSteps DEF Staff!Next
  <2>3. QED
    BY <2>1, <2>2
<1>3. StaffInv => Staff!TypeOK /\ Staff!BaseMapRight
  BY DEF StaffInv
<1>4. QED
  BY <1>1, <1>2, <1>3, PTL DEF Staff!Spec

-----------------------------------------------------------------------------
(***************************************************************************)
(* The parts side by side, as the run explores them: a step of one is one  *)
(* the others do not see, so that what a part keeps of its own the page    *)
(* keeps, whichever of them moves.                                         *)
(***************************************************************************)

\* The page takes the steps of Form and no other one with its variables.
LEMMA FormSteps == PageSpec => Form!Spec
<1>1. PageInit => Form!Init
  BY DEF PageInit
<1>2. [PageNext]_pageVars => [Form!Next]_Form!vars
  <2>1. UNCHANGED addVars => UNCHANGED Form!vars
    BY DEF addVars, Form!vars, Form!mark, Form!form, Form!seen
  <2>2. AddStep => Form!Next
    BY DEF AddStep
  <2>3. ASSUME PageNext, ~AddStep PROVE UNCHANGED addVars
    BY <2>3 DEF PageNext, AddStep, ProviderStep, ThemeStep, ObjectsStep,
                IconsStep, SearchStep, HeaderStep,
                ContextStep, SheetStep, ControlsStep,
                HoursStep, LinksStep, RoutesStep,
                SidebarStep, StaffStep, Only
  <2>4. UNCHANGED pageVars => UNCHANGED addVars
    BY DEF pageVars
  <2>5. QED
    BY <2>1, <2>2, <2>3, <2>4
<1>3. QED
  BY <1>1, <1>2, PTL DEF PageSpec, Form!Spec

\* The page takes the steps of Provider and no other one with its variables.
LEMMA ProviderSteps == PageSpec => Provider!Spec
<1>1. PageInit => Provider!Init
  BY DEF PageInit
<1>2. [PageNext]_pageVars => [Provider!Next]_Provider!vars
  <2>1. UNCHANGED providerVars => UNCHANGED Provider!vars
    BY DEF providerVars, Provider!vars, Provider!loads, Provider!tilts,
           Provider!sats, Provider!moves, Provider!shown
  <2>2. ProviderStep => Provider!Next
    BY DEF ProviderStep
  <2>3. ASSUME PageNext, ~ProviderStep PROVE UNCHANGED providerVars
    BY <2>3 DEF PageNext, AddStep, ProviderStep, ThemeStep, ObjectsStep,
                IconsStep, SearchStep, HeaderStep,
                ContextStep, SheetStep, ControlsStep,
                HoursStep, LinksStep, RoutesStep,
                SidebarStep, StaffStep, Only
  <2>4. UNCHANGED pageVars => UNCHANGED providerVars
    BY DEF pageVars
  <2>5. QED
    BY <2>1, <2>2, <2>3, <2>4
<1>3. QED
  BY <1>1, <1>2, PTL DEF PageSpec, Provider!Spec

\* The page takes the steps of Theme and no other one with its variables.
LEMMA ThemeSteps == PageSpec => Theme!Spec
<1>1. PageInit => Theme!Init
  BY DEF PageInit
<1>2. [PageNext]_pageVars => [Theme!Next]_Theme!vars
  <2>1. UNCHANGED themeVars => UNCHANGED Theme!vars
    BY DEF themeVars, Theme!vars
  <2>2. ThemeStep => Theme!Next
    BY DEF ThemeStep
  <2>3. ASSUME PageNext, ~ThemeStep PROVE UNCHANGED themeVars
    BY <2>3 DEF PageNext, AddStep, ProviderStep, ThemeStep, ObjectsStep,
                IconsStep, SearchStep, HeaderStep,
                ContextStep, SheetStep, ControlsStep,
                HoursStep, LinksStep, RoutesStep,
                SidebarStep, StaffStep, Only
  <2>4. UNCHANGED pageVars => UNCHANGED themeVars
    BY DEF pageVars
  <2>5. QED
    BY <2>1, <2>2, <2>3, <2>4
<1>3. QED
  BY <1>1, <1>2, PTL DEF PageSpec, Theme!Spec

\* The page takes the steps of Objects and no other one with its variables.
LEMMA ObjectsSteps == PageSpec => Objects!Spec
<1>1. PageInit => Objects!Init
  BY DEF PageInit
<1>2. [PageNext]_pageVars => [Objects!Next]_Objects!vars
  <2>1. UNCHANGED objectVars => UNCHANGED Objects!vars
    BY DEF objectVars, Objects!vars, Objects!layer, Objects!panel
  <2>2. ObjectsStep => Objects!Next
    BY DEF ObjectsStep
  <2>3. ASSUME PageNext, ~ObjectsStep PROVE UNCHANGED objectVars
    BY <2>3 DEF PageNext, AddStep, ProviderStep, ThemeStep, ObjectsStep,
                IconsStep, SearchStep, HeaderStep,
                ContextStep, SheetStep, ControlsStep,
                HoursStep, LinksStep, RoutesStep,
                SidebarStep, StaffStep, Only
  <2>4. UNCHANGED pageVars => UNCHANGED objectVars
    BY DEF pageVars
  <2>5. QED
    BY <2>1, <2>2, <2>3, <2>4
<1>3. QED
  BY <1>1, <1>2, PTL DEF PageSpec, Objects!Spec

\* The page takes the steps of Icons and no other one with its variables.
LEMMA IconsSteps == PageSpec => Icons!Spec
<1>1. PageInit => Icons!Init
  BY DEF PageInit
<1>2. [PageNext]_pageVars => [Icons!Next]_Icons!vars
  <2>1. UNCHANGED iconVars => UNCHANGED Icons!vars
    BY DEF iconVars, Icons!vars
  <2>2. IconsStep => Icons!Next
    BY DEF IconsStep
  <2>3. ASSUME PageNext, ~IconsStep PROVE UNCHANGED iconVars
    BY <2>3 DEF PageNext, AddStep, ProviderStep, ThemeStep, ObjectsStep,
                IconsStep, SearchStep, HeaderStep,
                ContextStep, SheetStep, ControlsStep,
                HoursStep, LinksStep, RoutesStep,
                SidebarStep, StaffStep, Only
  <2>4. UNCHANGED pageVars => UNCHANGED iconVars
    BY DEF pageVars
  <2>5. QED
    BY <2>1, <2>2, <2>3, <2>4
<1>3. QED
  BY <1>1, <1>2, PTL DEF PageSpec, Icons!Spec

\* The page takes the steps of Search and no other one with its variables.
LEMMA SearchSteps == PageSpec => Search!Spec
<1>1. PageInit => Search!Init
  BY DEF PageInit
<1>2. [PageNext]_pageVars => [Search!Next]_Search!vars
  <2>1. UNCHANGED searchVars => UNCHANGED Search!vars
    BY DEF searchVars, Search!vars, Search!search, Search!page
  <2>2. SearchStep => Search!Next
    BY DEF SearchStep
  <2>3. ASSUME PageNext, ~SearchStep PROVE UNCHANGED searchVars
    BY <2>3 DEF PageNext, AddStep, ProviderStep, ThemeStep, ObjectsStep,
                IconsStep, SearchStep, HeaderStep,
                ContextStep, SheetStep, ControlsStep,
                HoursStep, LinksStep, RoutesStep,
                SidebarStep, StaffStep, Only
  <2>4. UNCHANGED pageVars => UNCHANGED searchVars
    BY DEF pageVars
  <2>5. QED
    BY <2>1, <2>2, <2>3, <2>4
<1>3. QED
  BY <1>1, <1>2, PTL DEF PageSpec, Search!Spec

\* The page takes the steps of Header and no other one with its variables.
LEMMA HeaderSteps == PageSpec => Header!Spec
<1>1. PageInit => Header!Init
  BY DEF PageInit
<1>2. [PageNext]_pageVars => [Header!Next]_Header!vars
  <2>1. UNCHANGED headerVars => UNCHANGED Header!vars
    BY DEF headerVars, Header!vars
  <2>2. HeaderStep => Header!Next
    BY DEF HeaderStep
  <2>3. ASSUME PageNext, ~HeaderStep PROVE UNCHANGED headerVars
    BY <2>3 DEF PageNext, AddStep, ProviderStep, ThemeStep, ObjectsStep,
                IconsStep, SearchStep, HeaderStep,
                ContextStep, SheetStep, ControlsStep,
                HoursStep, LinksStep, RoutesStep,
                SidebarStep, StaffStep, Only
  <2>4. UNCHANGED pageVars => UNCHANGED headerVars
    BY DEF pageVars
  <2>5. QED
    BY <2>1, <2>2, <2>3, <2>4
<1>3. QED
  BY <1>1, <1>2, PTL DEF PageSpec, Header!Spec

\* The page takes the steps of Context and no other one with its variables.
LEMMA ContextSteps == PageSpec => Context!Spec
<1>1. PageInit => Context!Init
  BY DEF PageInit
<1>2. [PageNext]_pageVars => [Context!Next]_Context!vars
  <2>1. UNCHANGED contextVars => UNCHANGED Context!vars
    BY DEF contextVars, Context!vars
  <2>2. ContextStep => Context!Next
    BY DEF ContextStep
  <2>3. ASSUME PageNext, ~ContextStep PROVE UNCHANGED contextVars
    BY <2>3 DEF PageNext, AddStep, ProviderStep, ThemeStep, ObjectsStep,
                IconsStep, SearchStep, HeaderStep,
                ContextStep, SheetStep, ControlsStep,
                HoursStep, LinksStep, RoutesStep,
                SidebarStep, StaffStep, Only
  <2>4. UNCHANGED pageVars => UNCHANGED contextVars
    BY DEF pageVars
  <2>5. QED
    BY <2>1, <2>2, <2>3, <2>4
<1>3. QED
  BY <1>1, <1>2, PTL DEF PageSpec, Context!Spec

\* The page takes the steps of Chrome and no other one with its variables.
LEMMA ChromeSteps == PageSpec => Chrome!Spec
<1>1. PageInit => Chrome!Init
  BY DEF PageInit
<1>2. [PageNext]_pageVars => [Chrome!Next]_Chrome!vars
  <2>1. UNCHANGED sheetVars => UNCHANGED Chrome!vars
    BY DEF sheetVars, Chrome!vars
  <2>2. SheetStep => Chrome!Next
    BY DEF SheetStep
  <2>3. ASSUME PageNext, ~SheetStep PROVE UNCHANGED sheetVars
    BY <2>3 DEF PageNext, AddStep, ProviderStep, ThemeStep, ObjectsStep,
                IconsStep, SearchStep, HeaderStep,
                ContextStep, SheetStep, ControlsStep,
                HoursStep, LinksStep, RoutesStep,
                SidebarStep, StaffStep, Only
  <2>4. UNCHANGED pageVars => UNCHANGED sheetVars
    BY DEF pageVars
  <2>5. QED
    BY <2>1, <2>2, <2>3, <2>4
<1>3. QED
  BY <1>1, <1>2, PTL DEF PageSpec, Chrome!Spec

\* The page takes the steps of Controls and no other one with its variables.
LEMMA ControlsSteps == PageSpec => Controls!Spec
<1>1. PageInit => Controls!Init
  BY DEF PageInit
<1>2. [PageNext]_pageVars => [Controls!Next]_Controls!vars
  <2>1. UNCHANGED controlVars => UNCHANGED Controls!vars
    BY DEF controlVars, Controls!vars
  <2>2. ControlsStep => Controls!Next
    BY DEF ControlsStep
  <2>3. ASSUME PageNext, ~ControlsStep PROVE UNCHANGED controlVars
    BY <2>3 DEF PageNext, AddStep, ProviderStep, ThemeStep, ObjectsStep,
                IconsStep, SearchStep, HeaderStep,
                ContextStep, SheetStep, ControlsStep,
                HoursStep, LinksStep, RoutesStep,
                SidebarStep, StaffStep, Only
  <2>4. UNCHANGED pageVars => UNCHANGED controlVars
    BY DEF pageVars
  <2>5. QED
    BY <2>1, <2>2, <2>3, <2>4
<1>3. QED
  BY <1>1, <1>2, PTL DEF PageSpec, Controls!Spec

\* The page takes the steps of Hours and no other one with its variables.
LEMMA HoursSteps == PageSpec => Hours!Spec
<1>1. PageInit => Hours!Init
  BY DEF PageInit
<1>2. [PageNext]_pageVars => [Hours!Next]_Hours!vars
  <2>1. UNCHANGED hourVars => UNCHANGED Hours!vars
    BY DEF hourVars, Hours!vars
  <2>2. HoursStep => Hours!Next
    BY DEF HoursStep
  <2>3. ASSUME PageNext, ~HoursStep PROVE UNCHANGED hourVars
    BY <2>3 DEF PageNext, AddStep, ProviderStep, ThemeStep, ObjectsStep,
                IconsStep, SearchStep, HeaderStep,
                ContextStep, SheetStep, ControlsStep,
                HoursStep, LinksStep, RoutesStep,
                SidebarStep, StaffStep, Only
  <2>4. UNCHANGED pageVars => UNCHANGED hourVars
    BY DEF pageVars
  <2>5. QED
    BY <2>1, <2>2, <2>3, <2>4
<1>3. QED
  BY <1>1, <1>2, PTL DEF PageSpec, Hours!Spec

\* The page takes the steps of Links and no other one with its variables.
LEMMA LinksSteps == PageSpec => Links!Spec
<1>1. PageInit => Links!Init
  BY DEF PageInit
<1>2. [PageNext]_pageVars => [Links!Next]_Links!vars
  <2>1. UNCHANGED linkVars => UNCHANGED Links!vars
    BY DEF linkVars, Links!vars
  <2>2. LinksStep => Links!Next
    BY DEF LinksStep
  <2>3. ASSUME PageNext, ~LinksStep PROVE UNCHANGED linkVars
    BY <2>3 DEF PageNext, AddStep, ProviderStep, ThemeStep, ObjectsStep,
                IconsStep, SearchStep, HeaderStep,
                ContextStep, SheetStep, ControlsStep,
                HoursStep, LinksStep, RoutesStep,
                SidebarStep, StaffStep, Only
  <2>4. UNCHANGED pageVars => UNCHANGED linkVars
    BY DEF pageVars
  <2>5. QED
    BY <2>1, <2>2, <2>3, <2>4
<1>3. QED
  BY <1>1, <1>2, PTL DEF PageSpec, Links!Spec

\* The page takes the steps of Routes and no other one with its variables.
LEMMA RoutesSteps == PageSpec => Routes!Spec
<1>1. PageInit => Routes!Init
  BY DEF PageInit
<1>2. [PageNext]_pageVars => [Routes!Next]_Routes!vars
  <2>1. UNCHANGED routeVars => UNCHANGED Routes!vars
    BY DEF routeVars, Routes!vars
  <2>2. RoutesStep => Routes!Next
    BY DEF RoutesStep
  <2>3. ASSUME PageNext, ~RoutesStep PROVE UNCHANGED routeVars
    BY <2>3 DEF PageNext, AddStep, ProviderStep, ThemeStep, ObjectsStep,
                IconsStep, SearchStep, HeaderStep,
                ContextStep, SheetStep, ControlsStep,
                HoursStep, LinksStep, RoutesStep,
                SidebarStep, StaffStep, Only
  <2>4. UNCHANGED pageVars => UNCHANGED routeVars
    BY DEF pageVars
  <2>5. QED
    BY <2>1, <2>2, <2>3, <2>4
<1>3. QED
  BY <1>1, <1>2, PTL DEF PageSpec, Routes!Spec

\* The page takes the steps of Sidebar and no other one with its variables.
LEMMA SidebarSteps == PageSpec => Sidebar!Spec
<1>1. PageInit => Sidebar!Init
  BY DEF PageInit
<1>2. [PageNext]_pageVars => [Sidebar!Next]_Sidebar!vars
  <2>1. UNCHANGED sidebarVars => UNCHANGED Sidebar!vars
    BY DEF sidebarVars, Sidebar!vars
  <2>2. SidebarStep => Sidebar!Next
    BY DEF SidebarStep
  <2>3. ASSUME PageNext, ~SidebarStep PROVE UNCHANGED sidebarVars
    BY <2>3 DEF PageNext, AddStep, ProviderStep, ThemeStep, ObjectsStep,
                IconsStep, SearchStep, HeaderStep,
                ContextStep, SheetStep, ControlsStep,
                HoursStep, LinksStep, RoutesStep,
                SidebarStep, StaffStep, Only
  <2>4. UNCHANGED pageVars => UNCHANGED sidebarVars
    BY DEF pageVars
  <2>5. QED
    BY <2>1, <2>2, <2>3, <2>4
<1>3. QED
  BY <1>1, <1>2, PTL DEF PageSpec, Sidebar!Spec

\* The page takes the steps of Staff and no other one with its variables.
LEMMA StaffSteps == PageSpec => Staff!Spec
<1>1. PageInit => Staff!Init
  BY DEF PageInit
<1>2. [PageNext]_pageVars => [Staff!Next]_Staff!vars
  <2>1. UNCHANGED staffVars => UNCHANGED Staff!vars
    BY DEF staffVars, Staff!vars, Staff!styled, Staff!dim
  <2>2. StaffStep => Staff!Next
    BY DEF StaffStep
  <2>3. ASSUME PageNext, ~StaffStep PROVE UNCHANGED staffVars
    BY <2>3 DEF PageNext, AddStep, ProviderStep, ThemeStep, ObjectsStep,
                IconsStep, SearchStep, HeaderStep,
                ContextStep, SheetStep, ControlsStep,
                HoursStep, LinksStep, RoutesStep,
                SidebarStep, StaffStep, Only
  <2>4. UNCHANGED pageVars => UNCHANGED staffVars
    BY DEF pageVars
  <2>5. QED
    BY <2>1, <2>2, <2>3, <2>4
<1>3. QED
  BY <1>1, <1>2, PTL DEF PageSpec, Staff!Spec

\* The constants of every part are what that part takes.
LEMMA PageConstants ==
    /\ FormAssumptions
    /\ Provider!SpotsAssumption
    /\ Theme!AreasAssumption
    /\ Objects!ViewsAssumption
    /\ Icons!PicturesAssumption
    /\ Search!TextsAssumption
    /\ Header!CitiesAssumption
    /\ Context!SizesAssumption
    /\ Chrome!HeightsAssumption
    /\ Controls!BearingsAssumption
    /\ Hours!HoursAssumption
    /\ Links!LengthsAssumption
    /\ Routes!CitiesAssumption
    /\ Sidebar!NamesAssumption
    /\ Staff!ConstantsAssumption
BY PageAssumption DEF FormAssumptions

(***************************************************************************)
(* Every variable of the part that moves keeps its type: for any kinds,    *)
(* spots, areas, objects, images, texts, cities, sizes, directions, times, *)
(* lengths, addresses and categories.                                      *)
(***************************************************************************)
THEOREM TypesCorrect == PageSpec => []TypesOK
<1>1. PageSpec => []Form!TypeOK
  BY PageConstants, FormSteps, FormCorrect, PTL
<1>2. PageSpec => []Provider!TypeOK
  BY PageConstants, ProviderSteps, ProviderCorrect, PTL
<1>3. PageSpec => []Theme!TypeOK
  BY PageConstants, ThemeSteps, ThemeCorrect, PTL
<1>4. PageSpec => []Objects!TypeOK
  BY PageConstants, ObjectsSteps, ObjectsCorrect, PTL
<1>5. PageSpec => []Icons!TypeOK
  BY PageConstants, IconsSteps, IconsCorrect, PTL
<1>6. PageSpec => []Search!TypeOK
  BY PageConstants, SearchSteps, SearchCorrect, PTL
<1>7. PageSpec => []Header!TypeOK
  BY PageConstants, HeaderSteps, HeaderCorrect, PTL
<1>8. PageSpec => []Context!TypeOK
  BY PageConstants, ContextSteps, ContextCorrect, PTL
<1>9. PageSpec => []Chrome!TypeOK
  BY PageConstants, ChromeSteps, ChromeCorrect, PTL
<1>10. PageSpec => []Controls!TypeOK
  BY PageConstants, ControlsSteps, ControlsCorrect, PTL
<1>11. PageSpec => []Hours!TypeOK
  BY PageConstants, HoursSteps, HoursCorrect, PTL
<1>12. PageSpec => []Links!TypeOK
  BY PageConstants, LinksSteps, LinksCorrect, PTL
<1>13. PageSpec => []Routes!TypeOK
  BY PageConstants, RoutesSteps, RoutesCorrect, PTL
<1>14. PageSpec => []Sidebar!TypeOK
  BY PageConstants, SidebarSteps, SidebarCorrect, PTL
<1>15. PageSpec => []Staff!TypeOK
  BY PageConstants, StaffSteps, StaffCorrect, PTL
<1>16.
  /\ Form!TypeOK /\ Provider!TypeOK /\ Theme!TypeOK
  /\ Objects!TypeOK /\ Icons!TypeOK /\ Search!TypeOK
  /\ Header!TypeOK /\ Context!TypeOK /\ Chrome!TypeOK
  /\ Controls!TypeOK /\ Hours!TypeOK /\ Links!TypeOK
  /\ Routes!TypeOK /\ Sidebar!TypeOK /\ Staff!TypeOK
  => TypesOK
  BY DEF TypesOK
<1>17. QED
  BY <1>1, <1>2, <1>3, <1>4, <1>5, <1>6, <1>7, <1>8, <1>9, <1>10, <1>11,
     <1>12, <1>13, <1>14, <1>15, <1>16, PTL

(***************************************************************************)
(* What is sent to the server is what it takes: a line within the rule of  *)
(* its kind, thanks only for what is stored, and an object URL for every   *)
(* photo that is shown and for no other one, however answers and files     *)
(* overlap (AddObjectPanel.tsx, useAddLine.ts).                            *)
(***************************************************************************)
THEOREM SentAsShownCorrect == PageSpec => []SentAsShown
<1>1. PageSpec => [](/\ Form!UrlsRight /\ Form!LineInRule
                     /\ Form!SentRight)
  BY PageConstants, FormSteps, FormCorrect, PTL
<1>2.
  /\ Form!UrlsRight /\ Form!LineInRule /\ Form!SentRight
  => SentAsShown
  BY DEF SentAsShown
<1>3. QED
  BY <1>1, <1>2, PTL

(***************************************************************************)
(* However the styles load and whatever was saved, what the buttons say of *)
(* the view is what the map shows: satellite, buildings, tilt, the place   *)
(* and the address of the page (MapProvider.tsx, useUrlSync.ts), and the   *)
(* base map of the staff pages.                                            *)
(***************************************************************************)
THEOREM ViewCorrect == PageSpec => []ViewRight
<1>1. PageSpec => [](/\ Provider!SatelliteRight /\ Provider!BuildingsRight
                     /\ Provider!TiltRight /\ Provider!AddressFollows)
  BY PageConstants, ProviderSteps, ProviderCorrect, PTL
<1>2. PageSpec => []Staff!BaseMapRight
  BY PageConstants, StaffSteps, StaffCorrect, PTL
<1>3.
  /\ Provider!SatelliteRight /\ Provider!BuildingsRight /\ Provider!TiltRight
  /\ Provider!AddressFollows /\ Staff!BaseMapRight
  => ViewRight
  BY DEF ViewRight
<1>4. QED
  BY <1>1, <1>2, <1>3, PTL

(***************************************************************************)
(* The layers show what was asked for last, in the colours of the theme,   *)
(* with every picture loaded and added once and each object in the layer   *)
(* of its tier, and the panel has the details of the object it names       *)
(* (theme.ts, usePlacesLayer.ts, poiIcons.ts, categories.tsx).             *)
(***************************************************************************)
THEOREM LayersCorrect == PageSpec => []LayersRight
<1>1. PageSpec => []Theme!ThemeRight
  BY PageConstants, ThemeSteps, ThemeCorrect, PTL
<1>2. PageSpec => [](/\ Objects!ObjectsRight /\ Objects!DetailsRight)
  BY PageConstants, ObjectsSteps, ObjectsCorrect, PTL
<1>3. PageSpec => []Icons!IconsRight
  BY PageConstants, IconsSteps, IconsCorrect, PTL
<1>4. PageSpec => []Sidebar!CategoriesRight
  BY PageConstants, SidebarSteps, SidebarCorrect, PTL
<1>5.
  /\ Theme!ThemeRight /\ Objects!ObjectsRight /\ Objects!DetailsRight
  /\ Icons!IconsRight /\ Sidebar!CategoriesRight
  => LayersRight
  BY DEF LayersRight
<1>6. QED
  BY <1>1, <1>2, <1>3, <1>4, <1>5, PTL

(***************************************************************************)
(* Around the map, results are of the text that is there, the temperature  *)
(* is of the city, hours make a timetable, a link that the server takes is *)
(* sent and shown, an address leads to one page, and sheet, menu and       *)
(* buttons end where they belong, however requests, timers and fingers     *)
(* interleave.                                                             *)
(***************************************************************************)
THEOREM FieldsCorrect == PageSpec => []FieldsRight
<1>1. PageSpec => []Search!SearchRight
  BY PageConstants, SearchSteps, SearchCorrect, PTL
<1>2. PageSpec => []Header!WeatherSettles
  BY PageConstants, HeaderSteps, HeaderCorrect, PTL
<1>3. PageSpec => []Context!MenuInside
  BY PageConstants, ContextSteps, ContextCorrect, PTL
<1>4. PageSpec => []Chrome!SheetSettles
  BY PageConstants, ChromeSteps, ChromeCorrect, PTL
<1>5. PageSpec => []Controls!ControlsRight
  BY PageConstants, ControlsSteps, ControlsCorrect, PTL
<1>6. PageSpec => []Hours!HoursRight
  BY PageConstants, HoursSteps, HoursCorrect, PTL
<1>7. PageSpec => []Links!ContactsRight
  BY PageConstants, LinksSteps, LinksCorrect, PTL
<1>8. PageSpec => []Routes!RoutesRight
  BY PageConstants, RoutesSteps, RoutesCorrect, PTL
<1>9.
  /\ Search!SearchRight /\ Header!WeatherSettles /\ Context!MenuInside
  /\ Chrome!SheetSettles /\ Controls!ControlsRight /\ Hours!HoursRight
  /\ Links!ContactsRight /\ Routes!RoutesRight
  => FieldsRight
  BY DEF FieldsRight
<1>10. QED
  BY <1>1, <1>2, <1>3, <1>4, <1>5, <1>6, <1>7, <1>8, <1>9, PTL
=============================================================================
