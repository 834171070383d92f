------------------------------ MODULE CityRoutes ------------------------------
(***************************************************************************)
(* The addresses of the map: web/src/app with lib/cities.ts, lib/mapUrl.ts *)
(* and lib/sputnik.ts.  A visitor or a search engine opens an address,     *)
(* follows what it is redirected to, and remembers what the page says of   *)
(* itself; meanwhile the source of the satellite pictures is set, unset or *)
(* out of reach.                                                           *)
(***************************************************************************)
EXTENDS Naturals

CONSTANTS
    Cities,  \* the identifiers of CITIES
    Ids,     \* how identifiers are written in addresses
    CityOf,  \* the city of one, or None (findCity)
    DefaultCity,
    Params,  \* names of parameters of an address, ll and z among them
    None

CitiesAssumption ==
    /\ CityOf \in [Ids -> Cities \cup {None}]
    /\ Cities \subseteq Ids
    /\ \A c \in Cities : CityOf[c] = c
    /\ {"ll", "z"} \subseteq Params
    /\ DefaultCity \in Cities
    /\ None \notin Cities

VARIABLES
    source,   \* what the server knows of satellite pictures: set, unset, down
    address,  \* the address that is asked for
    first,    \* (observation) the address that was asked for at first
    answer,   \* what came: none, redirect, page, notFound or error
    page,     \* the page that came
    hops      \* (observation) redirects that were followed

vars == <<source, address, first, answer, page, hops>>

Kinds == {"home", "index", "id", "city", "sputnik"}
\* An address: its kind, the identifier, the slug as a city (or one that no
\* city has), and the parameters it carries.
Addresses ==
    [kind: Kinds, id: Ids, slug: Cities \cup {None}, query: SUBSET Params]

cityPath(city, sputnik) ==
    [kind |-> IF sputnik THEN "sputnik" ELSE "city", id |-> city,
     slug |-> city, query |-> {}]

Init ==
    /\ source \in {"set", "unset"}
    /\ address = None
    /\ first = None
    /\ answer = "none"
    /\ page = None
    /\ hops = 0

Open(a) ==
    /\ answer \notin {"asked", "redirect"}
    /\ address' = a
    /\ first' = a
    /\ answer' = "asked"
    /\ page' = None
    /\ hops' = 0
    /\ UNCHANGED <<source>>

Known == CityOf[address.id]

\* The parameters a redirect keeps.
preservedQuery(query) == query \cap {"ll", "z"}

permanentRedirect(a) ==
    /\ answer' = "redirect"
    /\ address' = a
    /\ UNCHANGED page

notFound ==
    /\ answer' = "notFound"
    /\ UNCHANGED <<address, page>>

\* CityPage: what is shown, whether its map is the satellite one (None when
\* the saved choice decides), the canonical address, and whether it has a link
\* to the other kind of map, for which a failure does not matter.
CityPage(city, sputnik, satellite) ==
    /\ answer' = "page"
    /\ page' = [city |-> city, satellite |-> satellite,
                canonical |-> cityPath(city, sputnik),
                link |-> sputnik \/ source = "set"]
    /\ UNCHANGED address

\* app/page.tsx and app/maps/page.tsx.
Home ==
    /\ address.kind = "home"
    /\ CityPage(DefaultCity, FALSE, None)
MapsIndex ==
    /\ address.kind = "index"
    /\ answer' = "page"
    /\ page' = [city |-> None, satellite |-> None, canonical |-> None,
                link |-> FALSE]
    /\ UNCHANGED address

\* app/maps/[id].
IdPage ==
    /\ address.kind = "id"
    /\ IF Known = None THEN notFound
                       ELSE permanentRedirect(cityPath(Known, FALSE))

Redirected(sputnik) ==
    permanentRedirect([cityPath(Known, sputnik) EXCEPT
                          !.query = preservedQuery(address.query)])

\* app/maps/[id]/[slug].
SlugPage ==
    /\ address.kind = "city"
    /\ IF Known = None THEN notFound
       ELSE IF address.slug # Known THEN Redirected(FALSE)
       ELSE CityPage(Known, FALSE, FALSE)

\* A page without pictures is not there; one whose server is out of reach
\* fails, which search engines take for temporary.
SputnikServed ==
    CASE source = "set" -> CityPage(Known, TRUE, TRUE)
      [] source = "unset" -> notFound
      [] source = "down" -> answer' = "error" /\ UNCHANGED <<address, page>>

\* app/maps/[id]/[slug]/sputnik.
SputnikPage ==
    /\ address.kind = "sputnik"
    /\ IF Known = None THEN notFound
       ELSE IF address.slug # Known THEN Redirected(TRUE)
       ELSE SputnikServed

Answer ==
    /\ answer = "asked"
    /\ Home \/ MapsIndex \/ IdPage \/ SlugPage \/ SputnikPage
    /\ UNCHANGED <<source, first, hops>>

Follow ==
    /\ answer = "redirect"
    /\ answer' = "asked"
    /\ hops' = hops + 1
    /\ UNCHANGED <<source, address, first, page>>

\* The server is set up anew, is out of reach or comes back.
SourceChanges ==
    /\ source' \in {"set", "unset", "down"} \ {source}
    /\ IF answer \in {"page", "notFound", "error"}
       THEN answer' = "none" /\ page' = None
       ELSE UNCHANGED <<answer, page>>
    /\ UNCHANGED <<address, first, hops>>

Next ==
    \/ \E a \in Addresses : Open(a)
    \/ Answer
    \/ Follow
    \/ SourceChanges

Spec == Init /\ [][Next]_vars

--------------------------------------------------------------------------

\* Every variable has its type.
TypeOK ==
    /\ source \in {"set", "unset", "down"}
    /\ {address, first} \subseteq Addresses \cup {None}
    /\ answer \in {"none", "asked", "redirect", "page", "notFound", "error"}
    /\ hops \in 0..2

\* Whatever address is opened: one redirect at most, and it keeps the view of
\* an address that has a name in it; a page is of the city of its identifier
\* and names the one address of it; and a city is not found only if there is
\* none or its pictures are known to be missing.
RoutesRight ==
    /\ hops <= 1
    /\ answer = "page" /\ first.kind \in {"city", "sputnik"} =>
          /\ page.city = CityOf[first.id]
          /\ page.canonical = cityPath(page.city, first.kind = "sputnik")
          /\ address.query \cap {"ll", "z"} = first.query \cap {"ll", "z"}
    /\ answer = "notFound" =>
          \/ CityOf[first.id] = None
          \/ first.kind = "sputnik" /\ source = "unset"
=============================================================================
