------------------------------- MODULE SearchBar -------------------------------
(***************************************************************************)
(* The search field: web/src/components/panels/SearchBar.tsx.  What is     *)
(* typed is asked for 250 ms later; an answer may come when the text has   *)
(* changed, has become too short or has been cleared.  The same field is   *)
(* mounted anew when the window becomes narrow or wide.                    *)
(***************************************************************************)
EXTENDS Naturals, Sequences

CONSTANTS
    Texts,       \* what can be searched: MIN_CHARS letters or more
    Short,       \* the texts that are too short, "" among them
    Found,       \* the results of a text: a sequence of names
    Areas,       \* the names that are mahallas
    Unplaced,    \* the names without a place on the map
    MaxBlurs,    \* bound: timers of blur under way
    None

\* What is in a field that was cleared.
Blank == ""

TextsAssumption ==
    /\ Blank \in Short
    /\ Texts \cap Short = {}
    /\ Found \in [Texts -> Seq(Texts)]
    /\ MaxBlurs \in Nat
    /\ None \notin Texts \cup Short

VARIABLES
    text,      \* q without blanks at its ends
    timer,     \* the timer of the search
    pending,   \* the text whose results are on their way, or None
    busy,
    results,   \* the text the results are of, or None
    error,
    active,    \* the row that is marked
    focused,   \* the list may show
    input,     \* the field has the focus of the page
    blurs,     \* timers of 120 ms that will close the list
    marker,    \* the name the mark on the map is of
    area       \* the name whose outline this field had shown

search == <<text, timer, pending, busy, results, error, active>>
page == <<focused, input, blurs, marker, area>>
vars == <<search, page>>

Init ==
    /\ text = Blank
    /\ timer = FALSE
    /\ pending = None
    /\ busy = FALSE
    /\ results = None
    /\ error = FALSE
    /\ active = 1
    /\ focused = FALSE
    /\ input = FALSE
    /\ blurs = 0
    /\ marker = None
    /\ area = None

Rows(t) == IF t = None THEN <<>> ELSE Found[t]
shown == IF text \in Short THEN <<>> ELSE Rows(results)
dropdownOpen ==
    /\ focused
    /\ busy \/ error \/ shown # <<>> \/ text \notin Short
nothingFound ==
    dropdownOpen /\ ~busy /\ ~error /\ shown = <<>> /\ text \notin Short

--------------------------------------------------------------------------
(* The request.                                                            *)

\* The effect of the text: the timer starts again, unless it is too short.
SetText(t) ==
    /\ text' = t
    /\ timer' = IF t = text THEN timer ELSE t \notin Short

Type(t) ==
    /\ SetText(t)
    /\ t # text
    /\ input
    /\ focused' = TRUE
    /\ UNCHANGED <<pending, busy, results, error, active, input, blurs,
                   marker, area>>

\* The request before is aborted.
TimerFires ==
    /\ timer
    /\ timer' = FALSE
    /\ pending' = text
    /\ busy' = TRUE
    /\ error' = FALSE
    /\ UNCHANGED <<text, results, active, page>>

ResultsArrive ==
    /\ pending # None
    /\ pending' = None
    /\ busy' = FALSE
    /\ results' = pending
    /\ active' = 1
    /\ UNCHANGED <<text, timer, error, page>>

\* The results of before stay.
SearchFails ==
    /\ pending # None
    /\ pending' = None
    /\ busy' = FALSE
    /\ error' = TRUE
    /\ UNCHANGED <<text, timer, results, active, page>>

--------------------------------------------------------------------------
(* The list.                                                               *)

\* The field loses the focus: the list closes later, after a click on it.
Blur == IF input THEN input' = FALSE /\ blurs' = blurs + 1
                 ELSE UNCHANGED <<input, blurs>>

\* choose: the map flies to the result and is marked there.
choose(i) ==
    LET m == shown[i] IN
    /\ SetText(m)
    /\ focused' = FALSE
    /\ blurs < MaxBlurs
    /\ Blur
    /\ IF m \in Unplaced
       THEN UNCHANGED <<marker, area>>
       ELSE /\ marker' = m
            /\ area' = IF m \in Areas THEN m ELSE None
    /\ UNCHANGED <<pending, busy, results, error, active>>

ClickRow ==
    /\ dropdownOpen
    /\ \E i \in DOMAIN shown : choose(i)

ArrowKey ==
    /\ input /\ shown # <<>>
    /\ \/ active' = (active % Len(shown)) + 1
       \/ active' = IF active = 1 THEN Len(shown) ELSE active - 1
    /\ UNCHANGED <<text, timer, pending, busy, results, error, page>>

HoverRow ==
    /\ dropdownOpen
    /\ active' \in DOMAIN shown
    /\ UNCHANGED <<text, timer, pending, busy, results, error, page>>

EnterKey ==
    /\ input /\ shown # <<>>
    /\ choose(IF active < Len(shown) THEN active ELSE Len(shown))

EscapeKey ==
    /\ input /\ blurs < MaxBlurs
    /\ focused' = FALSE
    /\ Blur
    /\ UNCHANGED <<search, marker, area>>

\* clearAll: a request on its way is not aborted.
clearAll ==
    /\ text # Blank
    /\ SetText(Blank)
    /\ results' = None
    /\ marker' = None
    /\ area' = None
    /\ input' = TRUE
    /\ focused' = (focused \/ ~input)
    /\ UNCHANGED <<pending, busy, error, active, blurs>>

\* The field, or the magnifier beside it.
Focus ==
    /\ focused' = TRUE
    /\ input' = TRUE
    /\ UNCHANGED <<search, blurs, marker, area>>

LoseFocus ==
    /\ input /\ blurs < MaxBlurs
    /\ Blur
    /\ UNCHANGED <<search, focused, marker, area>>

BlurTimer ==
    /\ blurs > 0
    /\ blurs' = blurs - 1
    /\ focused' = FALSE
    /\ UNCHANGED <<search, input, marker, area>>

\* The page becomes narrow or wide: the request is aborted, the mark removed.
\* The outline of an area stays, and nothing of the field knows of it.
Remount ==
    /\ text' = Blank /\ timer' = FALSE /\ pending' = None /\ busy' = FALSE
    /\ results' = None /\ error' = FALSE /\ active' = 1
    /\ focused' = FALSE /\ input' = FALSE /\ blurs' = 0
    /\ marker' = None /\ area' = None

Next ==
    \/ \E t \in Texts \cup Short : Type(t)
    \/ TimerFires \/ ResultsArrive \/ SearchFails
    \/ ClickRow \/ ArrowKey \/ HoverRow \/ EnterKey \/ EscapeKey
    \/ clearAll \/ Focus \/ LoseFocus \/ BlurTimer \/ Remount

Spec == Init /\ [][Next]_vars

--------------------------------------------------------------------------

\* Every variable has its type.
TypeOK ==
    /\ text \in Texts \cup Short
    /\ {timer, busy, error, focused, input} \subseteq BOOLEAN
    /\ {pending, results} \subseteq Texts \cup Short \cup {None}
    /\ active \in Nat \ {0}
    /\ blurs \in 0..MaxBlurs
    /\ {marker, area} \subseteq Texts \cup {None}

\* However typing, clearing and late answers follow one another: the field
\* waits exactly while a request is on its way, never asks for a text that is
\* too short, marks a row that is there, and when nothing is to come the
\* results are those of the text.
SearchRight ==
    /\ busy <=> pending # None
    /\ pending \notin Short
    /\ shown # <<>> => active \in DOMAIN shown
    /\ text \notin Short /\ ~timer /\ pending = None /\ ~error =>
          results = text

\* SearchBar.tsx:382-386 tells the user that nothing was found for the text:
\* it has been searched then.
NothingFoundIsTrue == nothingFound => results = text
=============================================================================
