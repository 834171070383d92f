---------------------------- MODULE MCConsolePages ---------------------------
(***************************************************************************)
(* Small instances of the pages of the console with the handlers they      *)
(* call: the documentation (DocsNav), the API keys (ApiKeys), and the      *)
(* dashboard, usage and billing (Views).  Only one of them is open at a    *)
(* time and each asks for what it shows when it is opened, so one run      *)
(* explores them side by side: part says which of them moves.              *)
(***************************************************************************)
EXTENDS DocsNav, TLC

CONSTANTS
    Keys, Slots, MaxActive, MaxLoads,
    Ranges, MaxOpen

VARIABLES
    part,
    keys, list, loads, calls, showCreate, fresh, unheard, crowded,
    view, viewLoads, days, data, parts, shown, bill, subscribed, open, ask,
    viewFresh, moved, viewCrowded

MCSymmetry == Permutations(Keys) \cup Permutations(Slots)

\* Two texts, one of which is found on pages inside the console as well.
MCMatches ==
    [q \in Asks |->
        IF q = "ap" THEN {<<"docs", "api">>, <<"docs", "api", "reference">>, <<"keys">>}
                    ELSE {<<"docs", "security", "csp">>}]
MCToggles == {<<"docs", "security">>}

ApiKeys == INSTANCE KeysPage
Views == INSTANCE ConsolePages
    WITH path <- view, loads <- viewLoads, fresh <- viewFresh,
         crowded <- viewCrowded

ASSUME DocsAssumption == ConstantsAssumption
ASSUME ViewsAssumption == Views!ConstantsAssumption
ASSUME KeysAssumption == ApiKeys!ConstantsAssumption
\* RANGES of usage/page.tsx.
ASSUME RangesAssumption == Ranges \subseteq {7, 30, 90}

keysVars == <<keys, calls, list, loads, showCreate, fresh, unheard, crowded>>
viewVars == <<view, viewLoads, days, data, parts, shown, bill, subscribed, open,
              ask, viewFresh, moved, viewCrowded>>
docsVars == <<path, manual, drawer, heading, watched, asked, found, copied,
              timers>>

PagesInit ==
    /\ part \in {"keys", "views", "docs"}
    /\ Init
    /\ part # "docs" => path = <<"docs">>
    /\ ApiKeys!Init
    /\ Views!Init

KeysStep == part = "keys" /\ ApiKeys!Next /\ UNCHANGED <<part, viewVars, docsVars>>
ViewStep == part = "views" /\ Views!Next /\ UNCHANGED <<part, keysVars, docsVars>>
DocsStep == part = "docs" /\ Next /\ UNCHANGED <<part, keysVars, viewVars>>

PagesNext == KeysStep \/ ViewStep \/ DocsStep

PagesSpec == PagesInit /\ [][PagesNext]_<<part, keysVars, viewVars, docsVars>>

-----------------------------------------------------------------------------
\* Every variable of the part that moves has its type.
TypesOK ==
    /\ part = "keys" => ApiKeys!TypeOK
    /\ part = "views" => Views!TypeOK
    /\ part = "docs" => TypeOK

(***************************************************************************)
(* What an account may have once or a few times (active keys, an open      *)
(* request for the subscription) is passed only by requests that were      *)
(* checked together.                                                       *)
(***************************************************************************)
LimitsRight ==
    /\ part = "keys" => ApiKeys!KeysBounded
    /\ part = "views" => Views!OneRequest

(***************************************************************************)
(* However answers overtake each other, a page at rest that shows the last *)
(* one shows what the server has: the keys, the range of usage whose       *)
(* button is lit in a chart that fits, the account; and the menu of the    *)
(* documentation leads to every page.                                      *)
(***************************************************************************)
ShownRight ==
    /\ part = "keys" => ApiKeys!ListRight
    /\ part = "views" => Views!UsageRight /\ Views!BillRight
    /\ part = "docs" => MenuRight
=============================================================================
