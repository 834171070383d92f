# OnDexMaps: a TLA+ model of its services and of its pages

OnDexMaps is a map of Uzbekistan: Go services over PostgreSQL/PostGIS and R2
object storage, with two Next.js front ends (the public map, the developer
console) and a map widget shared by the staff's pages. These modules model the
parts of this code that keep state while other things happen, on the server and
in the browser, check them with TLC on small instances, and prove the central
properties of the server and of the pages that wait for its answers with TLAPS for
every instance.

Paths below are relative to the repository (`src/` is its root here); `map/`,
`panels/`, `places/` and `mobile/` are directories of `web/src/components`.

## 1. The system and its parts

### The services

| part | code | state | operations | status |
|---|---|---|---|---|
| usage meter | `internal/devplatform/meter.go`, `pgstore.go` | `pending` and `touched` usage, one month counter per account, table `api_usage_daily` | `Record`, `MonthUsed`, `Flush`, `Run` | modelled: `Meter`, `Ledger` |
| token bucket limiter | `internal/devplatform/limiter.go` (and its twin `internal/httpapi/ratelimit.go`) | map of buckets | `Allow`, `gc` | modelled: `Limiter` |
| key resolver | `internal/devplatform/resolver.go` | positive and negative cache; tables `api_keys`, `dev_accounts` | `Resolve`; key and account changes | modelled: `Resolver` |
| /v2 gateway | `internal/devplatform/platform.go`, `limiter.go` (`AuthFailGuard`), `internal/httpapi/routes_v2.go` | buckets of wrong keys, places for routing | `Authorize`, `Blocked`, `Fail`, `v2Directions` | partly: `Gateway` (not the rules for origins, addresses and APIs) |
| billing | `internal/adminapi/devstaff.go`, `devstaff_pg.go` | `dev_accounts`, `billing_invoices` | hourly job, switches, payment, void | partly: `Billing` (not suspension, audit rows) |
| submissions and moderation | `internal/httpapi/routes_places.go`, `internal/storage/submitter.go`, `places.go` | `place_submissions`, `places`, photo tables, R2 objects | submit, approve, reject, delete | partly: `Submissions` (not text, geometry) |
| satellite tile cache | `internal/httpapi/satellite_cache.go`, `routes_satellite.go` | files, a byte counter | `get`, `put`, `sweep`, scan at start | partly: `TileCache` (not the provider; the proxy's rate limit is a twin of `Limiter`) |
| developer console, server | `internal/console` | `dev_otps`, `dev_sessions`, `api_keys`, subscription requests | sign-in, sessions, purge; keys; billing views | partly: `SignIn`, `Sessions`, `KeysPage`, `ConsolePages` (not the limits per network address, audit rows) |
| contacts of an object | `internal/places/contacts.go` | none | `NormalizeWebsite`, social accounts | `Contacts`; other validation is not modelled |
| geodata, imports, commands, grants, deployment | see `PROJECT.json` | none that outlives a statement, or run by hand | | not modelled |

### The pages

| part | code | state | modelled in |
|---|---|---|---|
| tools of the map page | `map/MapStage.tsx`, `useMapTools.ts`, `panels/RoutePanel.tsx`, `ToolBar.tsx` | mode, ends of a route with labels, the route, measured points, an address, open panels | `MapStage` (all of it) |
| adding an object | `places/AddObjectPanel.tsx`, `useAddLine.ts`, `useAddMarker.ts` | the form, the line, photos being prepared, object URLs, a submission | `AddObject` (all of it) |
| view of the map | `map/MapProvider.tsx`, `useUrlSync.ts`, `lib/mapUrl.ts`, `cities.ts`, `prefs.ts` | style, satellite, tilt, buildings, saved choices, the address | `MapProvider` |
| colours and mahallas | `map/theme.ts`, `MapProvider.tsx` | paint, its originals, the chosen mahalla | `MapTheme` |
| objects on the map | `places/usePlacesLayer.ts`, `PlaceDetails.tsx` | objects of a view, the panel of one of them | `PlacesLayer` |
| symbols | `map/poiIcons.ts`, `markerBadge.ts`, `places/kindUi.tsx` | images, pictures being loaded | `MapIcons` |
| categories and tiers | `panels/categories.tsx`, `CategoryGrid.tsx`, `mobile/CategoryChips.tsx`, `map/importance.ts`, `internal/places/kinds.go`, `style-chust.json` | the chosen category, filters of eight layers | `Categories` |
| search, weather, context menu, sheet, controls, working hours | `panels/SearchBar.tsx`, `CityHeader.tsx`, `map/MapContextMenu.tsx`, `mobile/MobileChrome.tsx`, `map/MapControls.tsx`, `useGeolocate.ts`, `places/WorkHoursField.tsx` | what is typed and asked, timers, positions | `SearchBar`, `Weather`, `ContextMenu`, `MobileChrome`, `MapControls`, `WorkHours` |
| addresses of cities | `web/src/app`, `lib/cities.ts`, `lib/sputnik.ts` | the page an address leads to, what it says of itself | `CityRoutes` |
| the widget of the staff's pages | `internal/mapui/assets/ondexmap.js` | base map, buildings, tilt | `BaseMap` |
| console in the browser | `console/src/app/login/page.tsx`, `lib/useMe.ts`, `lib/api.ts`, `components/Shell.tsx` | per tab: who is signed in, its token; per browser: the cookie | `ConsoleClient` |
| pages of the console | `console/src/app/(app)`, `components/UsageChart.tsx` | lists, ranges, forms, requests under way | `KeysPage`, `ConsolePages` |
| documentation | `console/src/components/docs` | the menu, what is open, search, copy buttons | `DocsNav` |

How they interact. One `cmd/api` process serves the public map and `/v2`. For
`/v2`, `Platform.Authorize` asks the guard against wrong keys, then the resolver
(which reads the keys and accounts the console and the staff panel change), then
the limiter, then, for the free plan, `Meter.MonthUsed`; after the handler a
deferred `Record` adds usage to the meter, whose goroutine `Run` flushes it to
the database every ten seconds and once more on shutdown. The staff panel is
another process: it switches subscriptions (which changes the plan `Authorize`
sees) and runs the billing job. Visitors' submissions go through `cmd/api` too,
into a moderation queue emptied by the staff panel; their photos lie in R2,
outside every transaction. The console is a third process; developers sign in to
it with codes sent by e-mail, and an hourly goroutine of it deletes old codes and
sessions. In the browser, the map page is one tree of components around one
MapLibre map: components reach one another through callbacks and the map's
events, and every answer of the server arrives between two events of the user.

What is hard, per part, and what makes it correct:

* **Meter.** Two mutexes taken one after the other, a month read before a mutex,
  a swap-write-merge flush, a database error that may hide a commit, and a
  process that ends. Correct: no usage lost or billed twice; the in-memory month
  counter and the recorded requests agree; the cap holds.
* **Limiter, gateway.** The clock is read before the mutex, so a bucket sees times
  out of order; buckets are forgotten; the guard looks and counts in two critical
  sections with a lookup between. Correct: never more than burst plus refill over
  *any* interval; `Retry-After` is a promise; only wrong keys block an address;
  every place for routing comes back (which the code's `defer` gives by itself).
* **Resolver.** The database is read outside the mutex and the answer cached
  afterwards, possibly over a newer one. Correct: bounded staleness of
  acceptances and refusals, also after revocation; bounded memory.
* **Billing.** READ COMMITTED statements that interleave. Correct: disjoint
  periods, bounded debt, no invoice for an account that is off, what is due is
  issued.
* **Submissions.** Limits checked long before the insert, uploads before the
  transaction, deletions after it. Correct: tables and R2 agree; one place per
  submission; limits overrun by less than the handlers under way.
* **Sign-in and sessions.** Every limit is read in one statement and enforced in
  a later one; `last_seen_at` is written seldom, late and out of order. Correct:
  limits on codes and guesses overrun by less than the handlers under way; one
  session per code; nobody thrown out early, nobody let back in after a logout.
* **Tile cache.** A counter kept beside the files, overwritten by every walk over
  them, while puts go on. Correct: counter and disk stay close, the disk bounded.
* **Console in the browser.** Several tabs share a cookie and not the token that
  goes with it; lists overtake each other. Correct: a tab shows the account whose
  token it sends; a page at rest shows what the server has.
* **Map page.** Answers that come after the mode, the point, the object, the city
  or the text they were asked for; a map that loads and moves on its own time;
  photos prepared in the background; saved choices that arrive before the map
  can take them. Correct: what is shown belongs to what is chosen *now*, the
  buttons tell the truth, what is sent is what was shown, nothing of one mode is
  left in the next.

`PROJECT.json` lists every hazard at its line, with the properties about it.

## 2. Modules and their relation to the code

Each component module holds state, `Init`, one action per step the code can be
interrupted at, `Next`, `Spec` and the properties; its header names its files and
what it abstracts. `MC<module>` gives it a small instance, `<module>Proofs` its
theorems. An operator marked `(mutant)` is a deliberately wrong version of the
definition that follows it; no behaviour of the specification uses it. It
documents which error a property detects.

### Meter
Requests are followed by identity instead of being summed: `pending` and
`batch` are sets of requests, `db[r]` counts how often `r` was added to
`api_usage_daily`, `counter[a]` is the month counter with its `ready` flag and
its month. A request runs `new -> authorize -> running -> finished -> pended ->
done`; `over` is every end without usage. `ArriveCapped`/`ArriveUncapped` are
`Authorize` with and without a monthly cap in the plan it sees (the plan can
change at any time and is up to 15 s old); `MonthUsedCached`/`Loads`/`Fails` are
the three ways through `MonthUsed` (its `ms`, the captured month, is fixed on
arrival, as the code fixes it before the mutex). `Finish`, `RecordPending` and
`RecordCounter` are the handler's end and the two critical sections of `Record`.
`FlushTakes` is the swap; `WriteCommits`, `WriteFails` and `WriteAmbiguous` the
outcomes of `WriteUsage`; `MergeBack` the merge; `FlushTouches` the second
statement. `Terminate`, `Drained`, `FlushLast`/`NothingLeft`, `Crash` and
`Restart` are `cmd/api`'s `main`.

Observations, which no guard reads: `mine` (what the process recorded) and
`drift` (what a load of a counter missed or saw twice).

`Ledger` is what the bill is promised: a request is noted once, what is owed is
added to the table once, in doubt only if a commit was reported as a failure, and
forgotten only by a process that does not end well. `Meter` implements it
(`ImplementsLedger`), with `owed` standing for `pending \cup batch`, `noted` for the
requests past the first critical section of `Record`, and `doubts` for `ambiguous`.

### Limiter and Gateway
Integer ticks and tokens in fractions replace floats, so every product of the
code is exact; `Call` reads the clock, `AllowNew/Untracked/Grants/Denies` are
the critical section, `GcBegins`/`Gc` the sweep with its own, earlier, reading
of the clock. `load` is a leaky-bucket observer that makes "over every interval"
a state predicate; `promise` remembers `Retry-After`.

`Gateway` is one request on its way through `Authorize`: `Arrives` reads the clock,
`Passes`/`Blocked` is the critical section of `AuthFailGuard.Blocked`, `Invalid` the
refusal of the resolver, `Fail` the second critical section, `Refused` every other
no, `Granted` the yes. `TakesPlace` and `RouteEnds` are the semaphore of
`v2Directions`, `Serves` every other way a handler ends, the busy answer of
directions included. The resolver, the limiter and the meter may answer anything
here, because each is a module of its own. The table of the guard may be full of
other addresses at any time. `load` and `spent` observe the wrong keys of an address.

### Resolver
`pos` and `neg` are the two cache maps, `call[c]` a `Resolve` under way (captured
time, then the lookup's answer), `row` the database row of a key, changed by
the console (create, revoke, rotate with a grace period) and by the staff panel
(state of the account). `left` observes which rows a key had and until when.

### Billing
Days and months are small numbers. A staff operation locks the account first and
is one step; the job's `INSERT .. SELECT` is two (`JobReads`, `JobInserts`),
because its snapshot may be overtaken while it waits for a lock. `stale` observes
that this happened. `Due`, `NextStart` and `Insert` are the SQL statement.

### Submissions
A submission is a run of the handler: `CountRecent`, `CountPending`, `Upload`
(one photo at a time), `Commit`, or a failure and `Undo`. `UploadLies` and
`CommitLies` are calls that took effect and returned an error. `Approve` (with the
photos kept), `Reject` and `DeletePlace` are transactions; the deletion from R2
that follows is a step of its own (`Cleans`), which may be lost (`CleanupLost`).
`forgotten` observes what the code cannot repair.

### SignIn and Sessions
`codes` is `dev_otps` and `sessions` is `dev_sessions`; `task[h]` is the statement
a handler does next with what it has read, so that every two statements of two
handlers can interleave. `Ask`, `ReadLast`, `CountCodes`, `CreateOTP` are
`handleRequestCode`; `LatestOTP` to `CreateSession` are `handleVerify`. In `Sessions`,
`SessionByHash`, `Authenticated`/`Unauthenticated`, `TouchSession`/`EndSession` are the
middleware, `Login` the end of `handleVerify`, `Logout` the handler, and `Serve`
every other handler. `PurgeExpired` reads the clock in both modules;
`PurgeSessions` and `PurgeCodes` are its two statements. The two modules share no
state but the fact that a right code ends in `Login`, and everything in them is
about one address, because no statement relates two. The database's clock
(`created_at`, first `last_seen_at`) and the process's are taken to be one.
`wrong`, `signed`, `used`, `until`, `loggedOut` and `lax` observe.

### TileCache
`files` is the disk. A `put` holds `mu` through `CreateTemp`, `Stat`, `Rename`, `Add` and
`PutEnds` (which is `sweepIfNeeded`); the goroutine of `newTileCache` (`scan`) and the
one of `sweep` visit one path at a time, in the order of `WalkDir`, and store what
they summed up. `Init` has any files a process before may have left. `slack` observes
the bytes that went unnoticed. A temporary file is written in one step: half of
one counts less and is never renamed.

### The pages
In the modules of the pages an action is **one event of the browser**: a click, a
key, a timer, an event of the map, or an answer, with the handler it calls, the
render that follows and the effects of that render, since React and JavaScript let
nothing come between them. Answers are events of their own and come in any order
or not at all; a request that was aborted has none. What `MapLibre`, `Mapbox GL`
and the browser do is modelled by the events and calls the code uses.

* `MapStage`: `change` of mode, clicks per mode, the menu, swapping and clearing the
  ends of a route, labels (`LabelArrives`, ...), the route, distance, address, panels of
  the wide and the narrow layout. A click that hits a symbol, an object, the label
  of a mahalla, or a spot outside the service area is a different point. `twin`
  observes that both ends were once at one spot.
* `AddObject`: the steps of the panel, fields that are right or not, points of a line on
  a street, one job per choice of files which prepares photos one by one, the
  submission and the two ways its answer may be lost. `leaked` are URLs no one revokes.
  The length of a line is the number of its metres, `Metres`: for points on a street that
  is the sum of the stretches `pathLengthMeters` adds up (`MetresAddUp`, which TLC
  evaluates), and unlike a fold it can be reasoned about.
* `MapProvider`, `MapTheme`, `PlacesLayer`, `MapIcons`: `style.load`, `idle`, `moveend`,
  `pitchend`, `styleimagemissing` and the settings, tiles, mahallas and objects of the
  server in any order. `MapTheme` takes `MOBILE_DARK_THEME` of `lib/config.ts` as TRUE (it
  is off at present), so that the dark theme is reached on both layouts.
* `Categories` contains the tables of both front end and server, and checks that they
  agree, beside the buttons and the filters they lead to. In the server's names "_"
  stands for a space.
* `SearchBar`, `Weather`, `ContextMenu`, `MobileChrome`, `MapControls`, `WorkHours`,
  `CityRoutes`, `BaseMap`: one component each, with its timers and requests.
* `Contacts`: what the page and the server each say of an address, over everything the
  two tell apart.
* `ConsoleClient`: two tabs, one cookie; a response sets the cookie when it arrives.
  `retyped` observes that the address was edited while its code was asked for.
* `KeysPage`, `ConsolePages`: page and handler together; `keyRoom` and the insertion, and
  the look for an open request and its insertion, are two steps (`crowded` observes
  that two of them overlapped). Lists, usage and account are answered late.
* `DocsNav`: the order of pages, menu, drawer, headings, search, redirects, copying.

Modules whose parts share no state are explored side by side in one run (`MCLimiter`, `MCStores`,
`MCSignIn`, `MCConsolePages`, `MCMapPage`): `part` says which of them moves in this
behaviour, the others rest in an initial state, and a property of the run is the
conjunction of those of its parts. The parts of the map page are put together in
`MapPage`, with all their constants, and `MCMapPage` gives these their values; the others
are put together by the MC module itself. Their proofs are in one module too
(`LimiterProofs`, `StoresProofs`, `SignInProofs`, `ConsolePagesProofs`, `MapProofs`), one
component after the other. In the instances of `MapPage` the names are those of
`MapProofs`: `Form` is `AddObject`, `Provider` `MapProvider`, `Theme` `MapTheme`, `Objects`
`PlacesLayer`, `Icons` `MapIcons`, `Search` `SearchBar`, `Header` `Weather`, `Context`
`ContextMenu`, `Chrome` `MobileChrome`, `Controls` `MapControls`, `Hours` `WorkHours`, `Links`
`Contacts`, `Routes` `CityRoutes`, `Sidebar` `Categories`, `Staff` `BaseMap`.

## 3. Runs

| run | properties | instance |
|---|---|---|
| `meter` | `TypeOK`, `UsageExact`, `CounterConserved`, `CapEnforced`, `ImplementsLedger` | 3 requests, 2 keys of 1 account, cap 1, 2 months, 1 restart, 1 ambiguous commit |
| `meter_live` | `EventuallyWritten` | with `Run`'s ticker fair, usage reaches the table unless the process ends without a good last flush |
| `limiter` | `TypeOK`, `GrantsBounded`, `GateRight`, `RetriesRight` | `Limiter`: 2 callers with times out of order, 3 ids, room for 2 buckets. `Gateway`: 3 handlers, 1 address, 2 wrong keys at once, 1 place for routing |
| `resolver` | `TypeOK`, `AnswersRight`, `RevocationBounded`, `CacheBounded` | 2 callers, 2 keys, room for 2 entries, 2 changes of the database |
| `billing` | `TypeOK`, `PeriodsDisjoint`, `DebtBounded`, `NothingOwedWhenOff`, `DueIsIssued` | 1 account, 2 runs of the job, 4 switches, 5 days with months of 2 |
| `stores` | `TypesOK`, `PhotosKept`, `LimitsKept` | `Submissions`: 3 submissions of one submitter, 2 handlers, none or 2 photos, 1 lie. `TileCache`: 2 tiles, 2 temporary names, images of 1 or 2 units, room for 2, 2 puts, 1 file that cannot be removed, any contents at start |
| `signin` | `TypesOK`, `CodesRight`, `LoggedOutIsGone`, `ClientRight`, `KeptAlive` | `SignIn`: 2 handlers, 3 codes, 1 code a window, 2 attempts a code. `Sessions`: 2 handlers, 1 session, idle limit 6, touched every 2 ticks, lag 1. `ConsoleClient`: 2 tabs, 2 sessions |
| `console_pages` | `TypesOK`, `LimitsRight`, `ShownRight` | 3 keys, 2 slots with a limit of 2, 2 lists under way, ranges of 7, 30 and 90 days, 2 open requests; the documentation with 2 searches |
| `map_stage` | `TypeOK`, `LabelsRight`, `NothingLeftBehind`, `RouteDrawn`, `AddressRight` | 3 points (with nothing, a symbol, an area's label outside the service area), 2 measured points, 2 labels under way; deadlock checked |
| `map_page` | `TypesOK`, `SentAsShown`, `ViewRight`, `LayersRight`, `FieldsRight` | 15 parts, each with two or three of everything: cities, views, objects, images, texts, heights, times, addresses (`MCMapPage` says which and why) |

What the combined properties say, part by part:

* `GateRight`: the types of the gate and `FailuresBounded` (wrong keys over any interval).
  `RetriesRight`: `RetryHonoured` of the limiter and of the guard, and `BlockedEarned`
  (only wrong keys block, as `limiter.go:84` says).
* `PhotosKept`: `NoPhotoMissing` (what the tables name is in R2; otherwise its handler
  failed, and there are no more such submissions than answers lost), `NoOrphans`, `OnePlace`, `PhotosApart`. `LimitsKept`:
  `LimitsBounded`, `CounterBounded`, `DiskBounded`.
* `CodesRight`: `GuessesBounded`, `CodesBounded`, `OneSessionPerCode`. `ClientRight`:
  `TokenRight` (a tab shows the account whose token it sends), `CodeForEmail`.
* `LimitsRight`: `KeysBounded`, `OneRequest`. `ShownRight`: `ListRight`, `UsageRight`,
  `BillRight`: at rest, a page that shows the answer asked for last shows what the server
  has; and `MenuRight` of the documentation.
* `SentAsShown`: `UrlsRight` (an object URL for every photo shown, and no other),
  `LineInRule`, `SentRight` (thanks only for what was stored).
* `ViewRight`: `SatelliteRight`, `BuildingsRight`, `TiltRight`, `AddressFollows`,
  `BaseMapRight`. `LayersRight`: `ThemeRight`, `ObjectsRight`, `DetailsRight`, `IconsRight`,
  `CategoriesRight`. `FieldsRight`: `SearchRight`, `WeatherSettles`, `MenuInside`,
  `SheetSettles`, `ControlsRight`, `HoursRight`, `ContactsRight`, `RoutesRight`.

Two runs end in a counterexample, and each one refutes a sentence of the
repository:

* `meter_double_count` (`NeverCountedTwice`): `meter.go:33-35` says the counter
  counts nothing twice. A flush and a first load of the counter between the two
  critical sections of `Record` count a request twice. The error is conservative
  (a free account reaches its cap early) and lasts until the next load.
* `billing_off` (`OffMeansNoneOpen`): `devstaff_pg.go:63-64` says switching off
  makes unpaid invoices void. The job may insert one from an older snapshot.

More disagreements between the code and what it says of itself, and smaller faults
of the pages, were met while modelling; `PROJECT.json` lists them as findings, each
at its line. Where one can be stated of a model, the module has an operator that is
false, under a comment that says so, and putting it into the cfg of the run shows
it: `FirstInvoiceAtOnce` (`Billing`), `SolidLineIsRoute` (`MapStage`), `NothingFoundIsTrue`
(`SearchBar`), `PhotosBounded` (`AddObject`), `FlatIsFlat` (`MapProvider`),
`ZoomedPhotoExists` (`PlacesLayer`), `WeatherOfCity` (`Weather`), `CodeAlwaysForEmail` and
`SessionStays` (`ConsoleClient`), `CurrentOpen` (`DocsNav`), `OsmInItsTier`, `ClassesOccur`
and `ChosenHasButton` (`Categories`), `SameRules` (`Contacts`).

**Bounds and why they are enough.** Each hazard needs few actors: the two
critical sections of `Record` against one flush and one other request; two times
in the wrong order at one bucket while a third id fills the table; three requests
that pass the guard together; one answer that overtakes another; one switch between
the halves of a job; two handlers counting together and two moderators at one row;
two requests with one code or session; one put beside one sweep that another put
started; an answer for the point, view, object, city or text before. The bounds
allow each of these to happen at least twice over: four switches let both runs of the
job be overtaken, which leaves two invoices open, as many as `NothingOwedWhenOff` allows. Clocks (`MaxMonth`, `MaxClock`,
`MaxDay`) reach past every expiry in the model; `MaxRestarts`, `MaxAmbiguous`,
`MaxChanges`, `MaxSwitches`, `MaxStuck` and `MaxLies` limit how often the environment
interferes; `MaxLag` is how long a caller may sit between reading the clock and the
mutex, `MaxHandlers` how many submit handlers run at once; `MaxLabels`, `MaxLoads`,
`MaxWaiting`, `MaxJobs`, `MaxBlurs` and `MaxCopies` how many answers or timers are under
way together. For the modules of section 4 the theorems remove the bounds
altogether. Symmetry is used in runs without liveness only, over values that nothing
in the module tells apart. Where deadlock checking is off, clocks, requests or
submissions are finite: every behaviour ends by construction.

**Fairness and its justification.** `Meter`: weak fairness of `FlushTick` and
`FlushTouches` (the ticker of `Run` fires every ten seconds, nothing else runs in
its goroutine and both statements have a timeout), strong fairness of
`WriteCommits` (the database does not refuse every write for ever). `Billing`:
weak fairness of `JobReads` (an hourly ticker) and strong fairness of
`JobInserts`, for the same reason. Nothing is assumed of requests, staff, visitors,
clocks or restarts, nor of the answers and timers of the pages: their properties
are about what is shown once nothing is under way, whenever that is.

**Conditions inside properties.** Some properties hold only under a condition
that the model found, stated in the property instead of being left out of
the model:

* `CapEnforced` excludes counters loaded while usage was still unflushed
  (`drift < 0`): they start too low, by design (`meter.go` reads the table once).
* `GrantsBounded` is about plans that refill within the ten minutes after which
  a bucket is forgotten (`Refills`). All `/v2` plans do. The console's `otpreq`
  limit (5 an hour, `handlers_auth.go:92`) does not.
* `FailuresBounded` grants one wrong key more to every other handler, because only one
  of those that passed `Blocked` together pays in `Fail`, and it drains twice what is
  refilled: a failure that read the clock earlier sets the time of the bucket back, and
  the ticks between are refilled once more.
* `NoPhotoMissing` lets photos be missing that the tables name, of one submission for
  each commit that succeeded and whose answer was lost: the handler deletes them. Only
  a visitor who was told that it failed is concerned.
* `LimitsBounded` lets the handlers at work exceed the limits of the queue together
  (each counts before it uploads), where `routes_places.go:39-42` says never.
* `DiskBounded` adds what came in during the last sweep: a put that finds a sweep
  under way starts none, and its bytes may be lost from the counter.
* `CodesBounded` and `GuessesBounded` grant one code or guess too many to every
  other handler at work: `otpQuotaOK` and `checkOTP` compare before a later statement
  writes, so the "not more than 3 in 10 minutes" of the comment at
  `handlers_auth.go:125` is exact only for requests one after the other.
* `KeptAlive` is about sessions used at least every `Steady` ticks, which is the idle
  limit less `touchEvery` and twice the lag. One tick more is too much: a late
  touch of an older request may overwrite a newer one. It needs `2 * MaxLag <=
  TouchEvery`; in the code a statement ends within 3 seconds, `touchEvery` is 5 minutes.
* Three properties of `Billing` promise less for accounts that changed between the two
  halves of a job (`stale`): `PeriodsDisjoint` nothing; `DebtBounded` and
  `NothingOwedWhenOff` one open invoice more for every run of the job whose statement is
  over (`NotBilling`), since an overtaken snapshot is used once.
* `ListRight` and `UsageRight` are about a page that shows the answer to its last request
  (`fresh`). An overtaken answer that comes last is shown until the next one.
* `KeysBounded` and `OneRequest` except accounts with two requests that were checked
  together (`crowded`), `CodeForEmail` an address changed while its code was asked for
  (`retyped`), `LabelsRight` ends that were once at one spot (`twin`): both answers go
  to the first of them.

## 4. Proofs

| module | theorem | statement |
|---|---|---|
| `MeterProofs` | `TypeCorrect` | `Spec => []TypeOK` |
| | `UsageCorrect` | `Spec => []UsageExact` |
| | `CounterCorrect` | `Spec => []CounterConserved` |
| | `CapCorrect` | `Spec => CapEnforced` |
| | `LedgerCorrect` | `Spec => ImplementsLedger` |
| `LimiterProofs` | `TypeCorrect`, `GrantsCorrect`, `RetryCorrect` | `TypeOK`, `GrantsBounded`, `RetryHonoured` |
| `ResolverProofs` | `TypeCorrect`, `AnswersCorrect`, `RevocationCorrect`, `SizeCorrect` | `TypeOK`, `AnswersRight`, `RevocationBounded`, `CacheBounded` |
| `BillingProofs` | `TypeCorrect`, `PeriodsCorrect`, `DebtCorrect`, `OffCorrect` | `TypeOK`, `PeriodsDisjoint`, `DebtBounded`, `NothingOwedWhenOff` |
| `StoresProofs`, of `Submissions` | `PlaceCorrect`, `LimitsCorrect`, `PhotosCorrect` | `OnePlace`, `LimitsBounded`; `TypeOK`, `NoPhotoMissing`, `NoOrphans`, `PhotosApart` |
| of `TileCache` | `CacheInductive`, `CacheCorrect` | `CacheInv`; `TypeOK`, `CounterBounded`, `DiskBounded` |
| of the run `stores` | `TypesCorrect`, `PhotosKeptCorrect`, `LimitsKeptCorrect` | all properties of the run |
| `LimiterProofs`, of `Gateway` | `GateTypeCorrect`, `GateFailuresCorrect`, `GateRetryCorrect`, `GateEarnedCorrect` | its `TypeOK`, `FailuresBounded`, `RetryHonoured`, `BlockedEarned` |
| of the run `limiter` | `GateRightCorrect`, `RetriesRightCorrect` | `GateRight`, `RetriesRight` |
| `SignInProofs`, of `SignIn` | `CodeTypeCorrect`, `CodeGuessesCorrect`, `CodeSessionCorrect`, `CodeCodesCorrect` | its `TypeOK`, `GuessesBounded`, `OneSessionPerCode`, `CodesBounded` |
| of `Sessions` | `AccountTypeCorrect`, `AccountGoneCorrect`, `AccountKeptCorrect` | its `TypeOK`, `LoggedOutIsGone`, `KeptAlive` |
| of `ConsoleClient` | `ClientTypeCorrect`, `ClientTokenCorrect`, `ClientCodeCorrect` | its `TypeOK`, `TokenRight`, `CodeForEmail` |
| of the run `signin` | `TypesCorrect`, `CodesRightCorrect`, `LoggedOutCorrect`, `KeptAliveCorrect`, `ClientRightCorrect` | all properties of the run |
| `ConsolePagesProofs`, of `ConsolePages` | `ViewTypeCorrect`, `ViewRequestCorrect`, `ViewUsageCorrect`, `ViewBillCorrect` | its `TypeOK`, `OneRequest`, `UsageRight`, `BillRight` |
| of `KeysPage` | `KeyTypeCorrect`, `KeyLimitCorrect`, `KeyListCorrect` | its `TypeOK`, `KeysBounded`, `ListRight` |
| of `DocsNav` | `DocsTypeCorrect`, `DocsMenuCorrect` | its `TypeOK`, `MenuRight` |
| of the run `console_pages` | `TypesCorrect`, `LimitsCorrect`, `ShownCorrect` | all properties of the run |
| `MapProofs`, of `MapStage` | `StageTypeCorrect`, `LabelsCorrect`, `NothingLeftCorrect`, `RouteCorrect`, `AddressCorrect` | all properties of the run `map_stage` |
| of `AddObject` | `FormCorrect` | its `TypeOK`, `UrlsRight`, `LineInRule`, `SentRight` |
| of `MapProvider` | `ProviderCorrect` | its `TypeOK`, `SatelliteRight`, `BuildingsRight`, `TiltRight`, `AddressFollows` |
| of `MapTheme`, `PlacesLayer`, `MapIcons`, `Categories` | `ThemeCorrect`, `ObjectsCorrect`, `IconsCorrect`, `SidebarCorrect` | their `TypeOK`, `ThemeRight`, `ObjectsRight`, `DetailsRight`, `IconsRight`, `CategoriesRight` |
| of `SearchBar`, `Weather`, `ContextMenu`, `MobileChrome` | `SearchCorrect`, `HeaderCorrect`, `ContextCorrect`, `ChromeCorrect` | their `TypeOK`, `SearchRight`, `WeatherSettles`, `MenuInside`, `SheetSettles` |
| of `MapControls`, `WorkHours`, `Contacts`, `CityRoutes` | `ControlsCorrect`, `HoursCorrect`, `LinksCorrect`, `RoutesCorrect` | their `TypeOK`, `ControlsRight`, `HoursRight`, `ContactsRight`, `RoutesRight` |
| of `BaseMap` | `StaffCorrect` | its `TypeOK`, `BaseMapRight` |
| of the run `map_page` | `TypesCorrect`, `SentAsShownCorrect`, `ViewCorrect`, `LayersCorrect`, `FieldsCorrect` | all properties of the run |

They assume only the named assumptions on the constants, which the component modules
`ASSUME` or, where the module is instantiated, define, the theorem assumes and the module
of the run, in which TLC evaluates it, states.

*Meter.* `UsageExact` is not inductive: that a merge loses nothing needs to know
where units can be. `MemoryInv` says that memory is empty in a process that is
down, that a batch exists only while it is written, that the last flush runs after
the last request, and that a request not yet recorded has a unit nowhere. With it,
`UsageInv` is inductive, one step per action. `CounterConserved` needs in addition
that only usage reaches the second critical section (`PendedInv`); its proof is
a computation with cardinalities of `Counted` and `Half`, which grow and shrink
by one request at a time. `CapCorrect` follows from `CounterConserved` in the
state before the step. `LedgerCorrect` maps every step to a step of `Ledger` or to a
stutter; `MemoryInv` is needed again, to see that a clean end owes nothing.

*Limiter.* `LoadInv` is the idea: as long as the load of an id is not zero its
bucket exists, and load plus `Worth` (what the bucket would hold now if nothing
capped it) never exceeds `Ceiling`. Granting moves a unit from worth to load;
time moves `rate` from load to worth; capping only lowers worth. Forgetting a
bucket is sound because one idle for `TTL` has a worth so large that load must
be zero, which is where `Refills` and `MaxLag` enter. `BucketInv` keeps worth
non-negative although a caller with an old time removes tokens. `PromiseInv`
says a bucket can keep the promise made for it, from which `RetryHonoured`
follows.

*Resolver.* `AnswerInv` says that an entry, and an answer under way, is a row
its key had at the time the entry says or later, `ClockInv` that no such time lies
in the future. Both caches' ages and the grace of a rotated key give the
constants in the properties.

*Billing.* What a job has read stays useful although time passes: its start is still
the next one, or somebody has issued that invoice already, as long as `since` is what
it read, and `since` only grows. This gives disjoint periods; that every invoice of
an account ends by its next start is kept as an invariant of its own, because a
maximum over invoices would need induction. Debt is bounded because a job that
inserts finds that nothing was issued after its count, or has lost the start. When its
snapshot was overtaken it may insert all the same, but then it has done so: `LateInv` pays
for that invoice with the job, which bills the account no more until it has found it due
again, and an account that is off, or owes `MaxOpen`, is not due.

*Submissions.* Whoever has passed a check is counted from then on, as a row or as a
handler under way: `Queue` and `Quota` bound both together. A photo, a moderator and a
lie change no count. Of the photos, `PhotoInv` says where each may be at every point of
its handler and of moderation: in quarantine only while pending, in the gallery only when
approved, on the list to delete only when moderated, and never in two of them. `StoreInv`
adds the objects: what a handler has uploaded is there while it uploads, and what is left of
it when the handler clears up behind a commit it took for a failure is named, listed or
given up. Photos that are named and gone are of a handler that
was refused (`PhotosThere`) after a commit that did take effect, and of these there is one for
each answer lost (`LiedInv`). That the photos kept come to the gallery each once and in order
(`InOrderKeeps`) needs no sorting: a position has the rank of those before it, and
ranking is an injection of a set into as many numbers, so that every rank is taken
(`Ranked`); this is what `row_number()` does in the code.

*TileCache.* The disk is counted byte by byte (`OnDisk`, `Weight`), so that cardinalities
of finite sets serve as sums: a file more or less is `WeightSplit`, fewer or smaller files
are `WeightMonotone`. `Settled` is what lies on the disk without the file of the put under way. A
walk knows, but for `slack`, what is settled at the paths behind it: the scan in its total,
a sweep for every subset of those paths in the entries of that subset (`SweepInv`), for
only so does the account of all the others outlive the removal of one. Between walks the
counter knows the whole disk (`CounterInv`), and from the end of a sweep on the disk is
within the limit (`DiskInv`). A put that began while nothing was counted meets no walk
before its end (`PutInv`), so that the tile it replaces is taken off once; a late one is in
`slack`. That the total of a sweep never falls below zero is `ListInv`: what it
lists weighs no more.

*SignIn.* The wrong guesses a code took are its attempts and the handlers about to add
one; those together with the handlers about to guess stay below the limit and the
handlers there are. A code signs in once, because only the handler whose UPDATE found
it unused enters. The codes of a window and the handlers about to store one exceed the
limit by less than the handlers; that the latest code has the greatest number uses
the well-foundedness of the naturals.

*Sessions.* A session that is not lost has a row, and either `last_seen_at` is recent, or
a `TouchSession` under way will make it so in time for every request that has read the
old one. A session that was logged out has no row, and no statement brings one back.

*ConsoleClient.* `ClientInv` says of every tab that what it is waiting for was asked with
its present address or token, that the token of a tab which shows the console is that
of the account shown, and that the cookie, if it is not the tab's own session, is one
another tab signed in to: a response sets the cookie when it arrives, and a tab that
signs in again shows the new session when its answer comes.

*Gateway.* A bucket is never worth less than nothing now, and once the time of a promise
has come it is good for a failure at every time a request may still come with
(`GateBucketInv`): a full bucket must be worth a failure more than the lag refills, which is
why `TimesAssumption` asks for it (with less, `RetryHonoured` is false). That `routes`
keeps its type is a count of the handlers that route (`GatePlaces`). `FailuresBounded` rests
on `GateLoadInv`: while a bucket has a failure left, the load of its address and what it
is worth do not exceed a full bucket; when it has not, nobody else is let through, and
the load may still grow by one for each handler that was (`GateBound`). `BlockedEarned`
rests on `GateSpentInv`: what is spent, less the failures under way, and what the bucket has
make a full bucket but for what a lag refills; or, less than a lag ago, the account was cut
off at a full bucket, and covers the failures under way since.

*KeysPage and ConsolePages.* Of what is on its way to a page only what was asked for last
counts: a list, a range of usage or an account that is not the last one changes nothing
that is shown, and the last one is of what is lit, or of the table as it is, unless a call
was carried out that the page has not heard of (`KeyLists`, `ViewUsage`, `ViewBill`). A
call that was counted has its room as long as it is the only one (`KeyRoomInv`); who
looked for an open request and found none is alone (`ViewChecked`). That the usage chart
fits is arithmetic with the three ranges the page has. `MenuRight` has no variable: it compares the two
tables of `nav.ts`, and is proved from them (`DocsMenuCorrect`). Of the sections an address
lies in, one has two parts and is named by them, and the only one with three is the
address itself (`DocsStrictly`, `DocsHitsAre`), so `sectionFor` finds it. `DOCS_INDEX`
flattens the menu: the recursion of `FlattenSeq` has a solution (`DocsSolved`), and
its elements are those of the parts (`DocsFlattened`), both by induction over a set of
numbers (`DocsInduct`). It is assumed that `None` is no address.

*MapStage.* `StageInv` adds what is in flight: when both ends are set, a route in flight is of
these ends; an address in flight is of the point asked last; every end without a label
has an answer on its way (`labelling` counts them by point), unless `twin`; and a tool that
is not open has nothing in flight. All of it is about which requests `abort` and which
not, for any set of points.

*AddObject.* A photo gets its URL with the next number, so that a photo on the form and
one that came after its panel was closed (`leaked`) never have the same; a closed panel
shows the list and waits for nothing. What makes the line right is arithmetic with
cardinalities: a point more adds the metres of its stretch and no other ones
(`FormLonger`), and a point less never makes a line longer (`FormAcross`: the metres of the
new stretch map one to one into those of the two it replaces). So `extendLine`, which cuts a
stretch short (`FormExtended`), and taking points back both keep the rule, for any rule
and any street.

*MapProvider.* The satellite is restored when style and source are both there, in either
order, and from then on the layer is what is wanted (`ProviderRestored`); what covers the map
follows from satellite, tilt and whether a change of the tilt was missed while tiles
were loading (`ProviderClear`). The button for 3D is right once no easing is under way.

*The layers.* `ThemeInv` says that a layer's own colour is remembered as soon as the
layer is there, before it is given another one. `ObjectsStanding` says of a map that
stands that it has asked for the objects of what it shows, or has the answer, or had
none. `IconsInv` ties every image to the picture it waits for, and a fetch to the cache.
Of `Categories` the tables are compared by the provers as TLC does, row by row.

*The fields.* `SearchAsking`: while no timer runs, what is in the field is what is asked for
or what was answered. `HeaderInv`: the temperature is that of the city once nothing is
asked for. `ContextInv`, `ChromeInv` and `ControlsInv` have the arithmetic of places,
heights and directions, for any canvas, screen and finger. That a reader learns from
`formatDays` the days that were chosen needs no induction over the text, since there are
seven days: what is written from a day on is unfolded from the last day to the first. `LinksInv` and `RoutesInv`
say what became of an address: what the server keeps of it is what the field has, cleaned,
and after one redirect the address is that of its city, from which no other leads away.

The runs that combine components are proved from their parts: a step of one leaves the
variables of the others alone, so the run's specification implies each of theirs.

**Only model-checked:** liveness (`EventuallyWritten`, `DueIsIssued`), which is beyond the
prover. TLC also evaluates that counting metres adds up stretches (`MetresAddUp`), for lines
of up to three points; what the proofs use is a lemma, that a line of one point
has no metres and that a further point adds its stretch. Every other property of a
passing run is a theorem for all values of the constants. The two runs that end in a
violation are findings and have nothing to prove.

## 5. Not modelled, and why

Key formats and hashes, geometry, image decoding and the validation of texts (pure
functions of data); the rules of `Authorize` for origins, addresses and APIs (likewise;
in `Gateway` they are one of the ways to be refused); geodata reads (single read-only
statements); `contributions.go` (called by no handler and no command) and the writes
of the staff panel to geodata (single statements); imports, migrations and
command-line tools (run by hand on a quiet database); grants; deployment; `pmtiles.js`
(a vendored library). In `Meter`, days within a month and the distinction of APIs;
`last_used_at`; in `Billing`, suspension and audit rows; in `Submissions`, text fields
and geometry; in the console, the limits per network address beside the codes. In the
pages, layout, wording, fonts and colours, attribution, what MapLibre draws, and the
texts of the documentation.

Three hazards of `PROJECT.json` that the models touch have no property about them, since it
would only repeat a definition or say what the code does not promise: that a place for routing comes back (`routes_v2.go:312`),
that the base map chosen last is the one shown (`ondexmap.js:149`, which is Mapbox's
doing), and that an overtaken list is not shown for long (`keys/page.tsx:26`, where the
code does nothing against it).

## 6. What is left

1. The restriction rules (`NormalizeOrigin`, `OriginAllowed`, `IPAllowed`) as operators
   against a reference definition.
2. The composition of `SignIn` and `Sessions` with the limits per network address.
