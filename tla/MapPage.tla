------------------------------- MODULE MapPage -------------------------------
(***************************************************************************)
(* The parts of the map pages that keep to themselves: the panel that adds *)
(* an object, the map and its layers, the fields and the chrome around it. *)
(* A part reaches another one through a callback that is an action of the  *)
(* other, and takes it at any time, so one run explores them side by side: *)
(* part says which of them moves.  What several of them share is MapStage. *)
(***************************************************************************)
EXTENDS Integers, Sequences

CONSTANTS
    None,
    \* AddObject
    PointKinds, LineKinds, Rule, MaxPhotos, MaxPlace, ClickAt, DragTo, MaxIds,
    MaxJobs, MaxOpened,
    \* MapProvider, Weather
    Spots, Cities, NearestCity, Near,
    \* MapTheme
    ThemeAreas, Others, MOBILE_DARK_THEME,
    \* PlacesLayer
    Views, Far, ObjectCategories, ObjectIds, LineObjects, ViewOfLine, PhotosOf,
    \* MapIcons
    Images, Pictures, PictureOf, MaxWaiting,
    \* SearchBar
    Texts, Short, ResultsOf, Mahallas, Unplaced, MaxBlurs,
    \* ContextMenu, MobileChrome, MapControls
    Sizes, Clicks(_), MaxCopies, Heights, Fingers, Bearings, Secure,
    \* WorkHours, Contacts
    Clickable, Times, Lengths, MaxLength,
    \* CityRoutes
    RouteIds, RouteCities, CityOf, DefaultCity, Params,
    \* BaseMap
    BaseModes, Composite, Pitches, pitch3d

VARIABLES
    part,
    addOpen, addMobile, addLine, step, values, photos, nextId, jobs, urls,
    addFlight, opened, leaked, dragged, thanked,
    style, config, tiles, pitch, goal, wasFlat, is3D, saved3D, visible, satLayer,
    satellite, wantSatellite, savedSatellite, restored, idled, center, moving,
    timer, url, place, tab, pressed, missed,
    themeStyle, areas, dark, paint, originals, themeFilter, themeSelected, themeError,
    ready, view, viewMoving, viewTimer, objectsAsked, data, category, filter,
    viewPlace, detail, loaded, zoom, lost,
    image, pinCache, waiting, added, fetched,
    text, searchTimer, pending, searchBusy, results, error, active, focused, input,
    blurs, marker, area,
    city, inCity, weatherUrl, request, weather, failed,
    size, hasAdd, down, menu, menuMoving, copies, note, menuTimer, strays, focus,
    vh, sheet, dragH, drag, sheetMode,
    bearing, turning, showCompass, control, tracking, toast, toastTimer, mounted,
    hours, set,
    field, contact, refused, kept,
    source, routeAddress, first, answer, page, hops,
    chosen, expanded, narrow, layered, places, poi,
    baseMode, lit, loading, buildings, own, basePitch, easing, label, tilted

Form == INSTANCE AddObject
    WITH add <- addOpen, mobile <- addMobile, flight <- addFlight
Provider == INSTANCE MapProvider
Theme == INSTANCE MapTheme
    WITH Areas <- ThemeAreas, style <- themeStyle, filter <- themeFilter,
         error <- themeError, selected <- themeSelected
Objects == INSTANCE PlacesLayer
    WITH Places <- ObjectIds, Categories <- ObjectCategories,
         Lines <- LineObjects, Photos <- PhotosOf, moving <- viewMoving,
         timer <- viewTimer, place <- viewPlace, asked <- objectsAsked
Icons == INSTANCE MapIcons WITH Ids <- Images
Search == INSTANCE SearchBar
    WITH Found <- ResultsOf, Areas <- Mahallas, timer <- searchTimer,
         busy <- searchBusy
Header == INSTANCE Weather WITH url <- weatherUrl
Context == INSTANCE ContextMenu WITH moving <- menuMoving, timer <- menuTimer
Chrome == INSTANCE MobileChrome WITH mode <- sheetMode
Controls == INSTANCE MapControls WITH timer <- toastTimer
Hours == INSTANCE WorkHours
Links == INSTANCE Contacts
Routes == INSTANCE CityRoutes
    WITH Ids <- RouteIds, Cities <- RouteCities, address <- routeAddress
Sidebar == INSTANCE Categories
    WITH active <- chosen, mobile <- narrow, ready <- layered
Staff == INSTANCE BaseMap
    WITH Modes <- BaseModes, mode <- baseMode, pitch <- basePitch

ASSUME PageAssumption ==
    /\ Form!KindsAssumption /\ Form!RuleAssumption /\ Form!BoundsAssumption
    /\ Provider!SpotsAssumption /\ Theme!AreasAssumption
    /\ Objects!ViewsAssumption /\ Icons!PicturesAssumption
    /\ Search!TextsAssumption /\ Header!CitiesAssumption
    /\ Context!SizesAssumption /\ Chrome!HeightsAssumption
    /\ Controls!BearingsAssumption /\ Hours!HoursAssumption
    /\ Links!LengthsAssumption /\ Routes!CitiesAssumption
    /\ Sidebar!NamesAssumption
    /\ Staff!ConstantsAssumption

-----------------------------------------------------------------------------
addVars == <<addOpen, addMobile, addLine, step, values, photos, nextId, jobs,
             urls, addFlight, opened, leaked, dragged, thanked>>
providerVars == <<style, config, tiles, pitch, goal, wasFlat, is3D, saved3D,
    visible, satLayer, satellite, wantSatellite, savedSatellite, restored,
    idled, center, moving, timer, url, place, tab, pressed, missed>>
themeVars == <<themeStyle, areas, dark, paint, originals, themeFilter, themeSelected,
               themeError>>
objectVars == <<ready, view, viewMoving, viewTimer, objectsAsked, data, category,
                filter, viewPlace, detail, loaded, zoom, lost>>
iconVars == <<image, pinCache, waiting, added, fetched>>
searchVars == <<text, searchTimer, pending, searchBusy, results, error, active,
                focused, input, blurs, marker, area>>
headerVars == <<city, inCity, weatherUrl, request, weather, failed>>
contextVars == <<size, hasAdd, down, menu, menuMoving, copies, note, menuTimer,
                 strays, focus>>
sheetVars == <<vh, sheet, dragH, drag, sheetMode>>
controlVars == <<bearing, turning, showCompass, control, tracking, toast,
                 toastTimer, mounted>>
hourVars == <<hours, set>>
linkVars == <<field, contact, refused, kept>>
routeVars == <<source, routeAddress, first, answer, page, hops>>
sidebarVars == <<chosen, expanded, narrow, layered, places, poi>>
staffVars == <<baseMode, lit, loading, buildings, own, basePitch, easing, label,
               tilted>>
pageVars == <<part, addVars, providerVars, themeVars, objectVars, iconVars,
              searchVars, headerVars, contextVars, sheetVars, controlVars,
              hourVars, linkVars, routeVars, sidebarVars, staffVars>>

Parts == {"add", "provider", "theme", "objects", "icons", "search", "header",
          "context", "sheet", "controls", "hours", "links", "routes", "sidebar", "staff"}

First(S) == CHOOSE x \in S : TRUE

\* The parts that do not move are in one of their initial states.
PageInit ==
    /\ part \in Parts
    /\ Form!Init
    /\ Provider!Init
    /\ part # "provider" =>
          center = First(Spots) /\ ~saved3D /\ ~savedSatellite /\ ~wantSatellite
    /\ Theme!Init
    /\ part # "theme" => ~dark
    /\ Objects!Init
    /\ part # "objects" => view = First(Views)
    /\ Icons!Init
    /\ Search!Init
    /\ Header!Init
    /\ part # "header" => city = First(Cities) /\ inCity /\ weatherUrl = "none"
    /\ Context!Init
    /\ part # "context" => size = First(Sizes) /\ hasAdd
    /\ Chrome!Init
    /\ part # "sheet" => vh = First(Heights)
    /\ Controls!Init
    /\ Hours!Init
    /\ Links!Init
    /\ part # "links" => field = "site"
    /\ Routes!Init
    /\ part # "routes" => source = "set"
    /\ Sidebar!Init
    /\ part # "sidebar" => narrow
    /\ Staff!Init
    /\ part # "staff" => baseMode = First(BaseModes) /\ basePitch = 0

\* Only part p moves.
Only(p) ==
    /\ part = p
    /\ UNCHANGED part
    /\ p # "add" => UNCHANGED addVars
    /\ p # "provider" => UNCHANGED providerVars
    /\ p # "theme" => UNCHANGED themeVars
    /\ p # "objects" => UNCHANGED objectVars
    /\ p # "icons" => UNCHANGED iconVars
    /\ p # "search" => UNCHANGED searchVars
    /\ p # "header" => UNCHANGED headerVars
    /\ p # "context" => UNCHANGED contextVars
    /\ p # "sheet" => UNCHANGED sheetVars
    /\ p # "controls" => UNCHANGED controlVars
    /\ p # "hours" => UNCHANGED hourVars
    /\ p # "links" => UNCHANGED linkVars
    /\ p # "routes" => UNCHANGED routeVars
    /\ p # "sidebar" => UNCHANGED sidebarVars
    /\ p # "staff" => UNCHANGED staffVars

AddStep == Only("add") /\ Form!Next
ProviderStep == Only("provider") /\ Provider!Next
ThemeStep == Only("theme") /\ Theme!Next
ObjectsStep == Only("objects") /\ Objects!Next
IconsStep == Only("icons") /\ Icons!Next
SearchStep == Only("search") /\ Search!Next
HeaderStep == Only("header") /\ Header!Next
ContextStep == Only("context") /\ Context!Next
SheetStep == Only("sheet") /\ Chrome!Next
ControlsStep == Only("controls") /\ Controls!Next
HoursStep == Only("hours") /\ Hours!Next
LinksStep == Only("links") /\ Links!Next
RoutesStep == Only("routes") /\ Routes!Next
SidebarStep == Only("sidebar") /\ Sidebar!Next
StaffStep == Only("staff") /\ Staff!Next

PageNext ==
    \/ AddStep \/ ProviderStep \/ ThemeStep \/ ObjectsStep \/ IconsStep
    \/ SearchStep \/ HeaderStep \/ ContextStep \/ SheetStep \/ ControlsStep
    \/ HoursStep \/ LinksStep \/ RoutesStep \/ SidebarStep \/ StaffStep

PageSpec == PageInit /\ [][PageNext]_pageVars

-----------------------------------------------------------------------------
\* Every variable of the part that moves has its type.
TypesOK ==
    /\ part = "add" => Form!TypeOK
    /\ part = "provider" => Provider!TypeOK
    /\ part = "theme" => Theme!TypeOK
    /\ part = "objects" => Objects!TypeOK
    /\ part = "icons" => Icons!TypeOK
    /\ part = "search" => Search!TypeOK
    /\ part = "header" => Header!TypeOK
    /\ part = "context" => Context!TypeOK
    /\ part = "sheet" => Chrome!TypeOK
    /\ part = "controls" => Controls!TypeOK
    /\ part = "hours" => Hours!TypeOK
    /\ part = "links" => Links!TypeOK
    /\ part = "routes" => Routes!TypeOK
    /\ part = "sidebar" => Sidebar!TypeOK
    /\ part = "staff" => Staff!TypeOK

(***************************************************************************)
(* What is sent to the server is what it takes: a line within its rule,    *)
(* thanks only for what it has stored, and an object URL for every photo   *)
(* that is shown and for no other one, however answers and files overlap.  *)
(***************************************************************************)
SentAsShown ==
    part = "add" => Form!UrlsRight /\ Form!LineInRule /\ Form!SentRight

(***************************************************************************)
(* However the styles load and whatever was saved, what the buttons say of *)
(* the view is what the map shows: satellite, buildings, tilt, the place   *)
(* and the address of the page, and the base map of the staff pages.       *)
(***************************************************************************)
ViewRight ==
    /\ part = "provider" =>
          /\ Provider!SatelliteRight /\ Provider!BuildingsRight
          /\ Provider!TiltRight /\ Provider!AddressFollows
    /\ part = "staff" => Staff!BaseMapRight

(***************************************************************************)
(* The layers show what was asked for last, in the colours of the theme,   *)
(* with every picture loaded and added once and each object in the layer   *)
(* of its tier, and the panel the details of the object it names.          *)
(***************************************************************************)
LayersRight ==
    /\ part = "theme" => Theme!ThemeRight
    /\ part = "objects" => Objects!ObjectsRight /\ Objects!DetailsRight
    /\ part = "icons" => Icons!IconsRight
    /\ part = "sidebar" => Sidebar!CategoriesRight

(***************************************************************************)
(* The fields around the map: results are of the text that is there, the   *)
(* temperature is of the city, working hours make a timetable, a link that *)
(* the server takes is sent and shown, an address leads to one page, and   *)
(* sheet, menu and buttons end where they belong.                          *)
(***************************************************************************)
FieldsRight ==
    /\ part = "search" => Search!SearchRight
    /\ part = "header" => Header!WeatherSettles
    /\ part = "context" => Context!MenuInside
    /\ part = "sheet" => Chrome!SheetSettles
    /\ part = "controls" => Controls!ControlsRight
    /\ part = "hours" => Hours!HoursRight
    /\ part = "links" => Links!ContactsRight
    /\ part = "routes" => Routes!RoutesRight
=============================================================================
