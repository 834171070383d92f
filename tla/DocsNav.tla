-------------------------------- MODULE DocsNav --------------------------------
(***************************************************************************)
(* The documentation pages of the console: the menu, the order of reading  *)
(* and the search of console/src/components/docs/nav.ts, DocsShell.tsx and *)
(* PublicNav.tsx, and the code blocks of docs/parts.tsx.  The address of a *)
(* page is the sequence of its parts.  The menu stands at the side of the  *)
(* page and, on a small screen, in a drawer that starts anew each time it  *)
(* is opened.                                                              *)
(***************************************************************************)
EXTENDS Naturals, Sequences, SequencesExt

CONSTANTS
    None,
    Asks,        \* the texts that are searched for
    Matches,     \* text |-> the addresses whose labels contain it
    Toggles,     \* bound: the sections that are opened and closed by hand
    MaxHeadings, \* headings of an article
    MaxCopies    \* bound: copies whose sign is not put out yet

--------------------------------------------------------------------------
(* nav.ts.                                                                 *)

Section(href, items) == [href |-> href, items |-> [i \in DOMAIN items |-> Append(href, items[i])]]
Csp == <<"docs", "security", "csp">>
Integration ==
    LET s == Section(<<"docs", "integration">>,
                     <<"cdn", "npm", "react", "vue", "typescript", "nextjs">>) IN
    [s EXCEPT !.items = Append(@, Csp)]

DOCS_NAV ==
    << Section(<<"docs">>, <<>>),
       Section(<<"docs", "js">>, <<"general", "quickstart">>),
       Integration,
       Section(<<"docs", "api">>, <<"geocode", "reverse", "directions", "places",
                                  "places-by-id", "errors">>),
       Section(<<"docs", "api", "reference">>, <<>>),
       Section(<<"docs", "security">>, <<"keys", "domains", "ips", "csp">>),
       Section(<<"docs", "billing">>, <<"usage", "plans", "invoices">>),
       Section(<<"docs", "faq">>, <<>>),
       Section(<<"dashboard">>, <<>>), Section(<<"keys">>, <<>>),
       Section(<<"usage">>, <<>>), Section(<<"billing">>, <<>>) >>

\* DOCS_INDEX: every section and its items, in the order of the menu.
DOCS_INDEX == FlattenSeq([i \in DOMAIN DOCS_NAV |-> <<DOCS_NAV[i].href>> \o DOCS_NAV[i].items])

\* The order of reading, written out beside the menu.
DOCS_ORDER ==
    << <<"docs">>, <<"docs", "js">>, <<"docs", "js", "general">>,
       <<"docs", "js", "quickstart">>, <<"docs", "integration">>,
       <<"docs", "integration", "cdn">>, <<"docs", "integration", "npm">>,
       <<"docs", "integration", "react">>, <<"docs", "integration", "vue">>,
       <<"docs", "integration", "typescript">>, <<"docs", "integration", "nextjs">>,
       <<"docs", "api">>, <<"docs", "api", "geocode">>, <<"docs", "api", "reverse">>,
       <<"docs", "api", "directions">>, <<"docs", "api", "places">>,
       <<"docs", "api", "places-by-id">>, <<"docs", "api", "errors">>,
       <<"docs", "api", "reference">>, <<"docs", "security">>,
       <<"docs", "security", "keys">>, <<"docs", "security", "domains">>,
       <<"docs", "security", "ips">>, <<"docs", "security", "csp">>,
       <<"docs", "billing">>, <<"docs", "billing", "usage">>,
       <<"docs", "billing", "plans">>, <<"docs", "billing", "invoices">>,
       <<"docs", "faq">> >>

Pages == Range(DOCS_ORDER)
Sections == {DOCS_NAV[i].href : i \in DOMAIN DOCS_NAV}

\* What is assumed of the constants: None is no address.
ConstantsAssumption ==
    /\ None \notin Sections \cup Pages
    /\ MaxHeadings \in Nat \ {0} /\ MaxCopies \in Nat

Items(s) == UNION {Range(DOCS_NAV[i].items) : i \in {j \in DOMAIN DOCS_NAV : DOCS_NAV[j].href = s}}

\* The longest section that the address lies in; /docs is only its own.
sectionFor(p) ==
    LET hits == {s \in Sections : s = p \/ (s # <<"docs">> /\ IsStrictPrefix(s, p))} IN
    IF hits = {} THEN None
    ELSE CHOOSE s \in hits : \A t \in hits : Len(t) <= Len(s)

\* The section whose item the breadcrumb takes the name of the page from.
pageLabel(p) ==
    LET hits == {i \in DOMAIN DOCS_NAV : p \in Range(DOCS_NAV[i].items)} IN
    IF hits = {} THEN None ELSE DOCS_NAV[CHOOSE i \in hits : \A j \in hits : i <= j].href

\* PrevNext: the neighbours in the order of reading.
At(p) == CHOOSE i \in DOMAIN DOCS_ORDER : DOCS_ORDER[i] = p
Neighbours(p) == {DOCS_ORDER[i] : i \in {At(p) - 1, At(p) + 1} \cap DOMAIN DOCS_ORDER}

\* The one link of the top bar that is lit.
activeLink(p) ==
    IF IsPrefix(<<"docs", "api">>, p) THEN <<"docs", "api">>
    ELSE IF IsPrefix(<<"docs", "billing">>, p) THEN <<"docs", "billing", "plans">>
    ELSE IF IsPrefix(<<"docs", "faq">>, p) THEN <<"docs", "faq">>
    ELSE IF p[1] \in {"dashboard", "keys", "usage", "billing"} THEN <<"dashboard">>
    ELSE IF p[1] = "docs" THEN <<"docs">> ELSE None

\* Addresses of before, sent on by pages of their own.
Redirects ==
    { <<<<"docs", "js", "connect">>, <<"docs", "integration">>>>,
      <<<<"docs", "js", "connect", "react">>, <<"docs", "integration", "react">>>>,
      <<<<"docs", "js", "connect", "vue">>, <<"docs", "integration", "vue">>>>,
      <<<<"docs", "js", "connect", "typescript">>, <<"docs", "integration", "typescript">>>>,
      <<<<"docs", "js", "connect", "csp">>, Csp>>,
      <<<<"docs", "quickstart">>, <<"docs", "js", "quickstart">>>>,
      <<<<"docs", "pricing">>, <<"docs", "billing", "plans">>>>,
      <<<<"docs", "integratsiya">>, <<"docs", "integration">>>> }

--------------------------------------------------------------------------

\* What an empty search field holds.
NoText == ""

VARIABLES
    path,      \* the page
    manual,    \* the sections of the side menu that were opened or closed by hand
    drawer,    \* the same of the menu in the drawer, None while it is closed
    heading,   \* the heading that is lit, 0 for none
    watched,   \* the pages whose headings are watched
    asked,     \* the text in the search field
    found,     \* whether its results are shown
    copied,    \* its button says that it was copied
    timers     \* timers that will put that out

vars == <<path, manual, drawer, heading, watched, asked, found, copied, timers>>
article == <<heading, watched>>
search == <<asked, found>>
code == <<copied, timers>>

Init ==
    /\ path \in Pages
    /\ manual = <<>>
    /\ drawer = None
    /\ heading = 1
    /\ watched = {path}
    /\ asked = NoText
    /\ found = FALSE
    /\ copied = FALSE /\ timers = 0

\* open of SidebarNav.
IsOpen(m, s) == IF s \in DOMAIN m THEN m[s] ELSE s = sectionFor(path)
Toggled(m, s) == [t \in DOMAIN m \cup {s} |-> IF t = s THEN ~IsOpen(m, s) ELSE m[t]]

toggle(s) ==
    /\ Items(s) # {}
    /\ \/ manual' = Toggled(manual, s) /\ UNCHANGED drawer
       \/ /\ drawer # None
          /\ drawer' = Toggled(drawer, s) /\ UNCHANGED manual
    /\ UNCHANGED <<path, article, search, code>>

\* The button of MobileNav: its menu is mounted while the drawer is open.
toggleDrawer ==
    /\ drawer' = IF drawer = None THEN <<>> ELSE None
    /\ UNCHANGED <<path, manual, article, search, code>>

\* The headings of the new article are watched, and those of the old no longer.
useHeadings(p) == heading' = 1 /\ watched' = {p}

\* The shell stays; the drawer closes when the address changes, and the article
\* with its code blocks is a new one.
Arrive(p) ==
    /\ path' = p
    /\ IF p = path THEN UNCHANGED <<drawer, article, code>>
       ELSE /\ drawer' = None
            /\ useHeadings(p)
            /\ copied' = FALSE /\ timers' = 0
    /\ UNCHANGED manual

InSight(t) == IsOpen(manual, t) \/ (drawer # None /\ IsOpen(drawer, t))
\* What may be followed: a section, an item of a section that is open, the
\* breadcrumb, and the pages before and after.
Links ==
    (Sections \cup (UNION {Items(s) : s \in {t \in Sections : InSight(t)}})
              \cup (IF path = <<"docs", "api", "reference">> THEN {} ELSE Neighbours(path)))
        \cap Pages
follow(p) ==
    /\ p \in Links
    /\ Arrive(p)
    /\ UNCHANGED search

\* The observer tells of a heading near the top.
observe(h) ==
    /\ \E p \in watched : heading' = IF p = path THEN h ELSE 0
    /\ UNCHANGED <<path, manual, drawer, watched, search, code>>

\* Search of PublicNav: a page with two matching labels is listed once there.
results == SelectSeq(DOCS_INDEX, LAMBDA h : asked # NoText /\ h \in Matches[asked])
type(q) ==
    /\ q # asked
    /\ asked' = q
    /\ found' = TRUE
    /\ UNCHANGED <<path, manual, drawer, article, code>>
Escape ==
    /\ found
    /\ found' = FALSE
    /\ UNCHANGED <<path, manual, drawer, article, asked, code>>
\* The field is entered, by a click or by its shortcut.
Focus ==
    /\ ~found
    /\ found' = TRUE
    /\ UNCHANGED <<path, manual, drawer, article, asked, code>>

\* go: Enter takes the first result, shown or not, a click one that is shown.
go(i) ==
    /\ i \in DOMAIN results
    /\ i = 1 \/ found
    /\ results[i] \in Pages
    /\ asked' = NoText /\ found' = FALSE
    /\ Arrive(results[i])

\* CopyButton: the timers of earlier copies run on.
copy ==
    /\ timers < MaxCopies
    /\ copied' = TRUE
    /\ timers' = timers + 1
    /\ UNCHANGED <<path, manual, drawer, article, search>>
putOut ==
    /\ timers > 0
    /\ copied' = FALSE
    /\ timers' = timers - 1
    /\ UNCHANGED <<path, manual, drawer, article, search>>

Next ==
    \/ \E s \in Toggles : toggle(s)
    \/ \E p \in Pages : follow(p)
    \/ \E h \in 1..MaxHeadings : observe(h)
    \/ \E q \in Asks : type(q)
    \/ \E i \in DOMAIN results : go(i)
    \/ toggleDrawer \/ Escape \/ Focus \/ copy \/ putOut

Spec == Init /\ [][Next]_vars

--------------------------------------------------------------------------

\* Every variable has its type.
TypeOK ==
    /\ path \in Pages
    /\ DOMAIN manual \subseteq Sections
    /\ drawer # None => DOMAIN drawer \subseteq Sections
    /\ heading \in 0..MaxHeadings /\ watched \subseteq Pages
    /\ asked \in Asks \cup {NoText} /\ found \in BOOLEAN
    /\ copied \in BOOLEAN /\ timers \in 0..MaxCopies

\* Every page of the order of reading is in the menu, below the section that the
\* breadcrumb names, which is the one that lights up; the top bar lights a link
\* that leads towards it; and every old address leads to a page that exists.
MenuRight ==
    /\ \A p \in Pages :
          /\ sectionFor(p) # None
          /\ p = sectionFor(p) \/ p \in Items(sectionFor(p))
          /\ activeLink(p) # None
          /\ pageLabel(p) # None <=> p # sectionFor(p)
    /\ Pages = Range(DOCS_INDEX) \ {<<"dashboard">>, <<"keys">>, <<"usage">>, <<"billing">>}
    /\ \A r \in Redirects : r[1] \notin Pages /\ r[2] \in Pages

\* DocsShell.tsx:127: the section of the page is always open.
CurrentOpen == IsOpen(manual, sectionFor(path))
=============================================================================
