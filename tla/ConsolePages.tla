----------------------------- MODULE ConsolePages -----------------------------
(***************************************************************************)
(* The pages of the console besides the keys: the dashboard, the usage and *)
(* the billing, console/src/app/(app), with the chart of                   *)
(* components/UsageChart.tsx and the handlers of the billing page,         *)
(* internal/console/handlers_data.go.  Each page asks when it opens, and   *)
(* an answer that comes to a page that is left changes nothing.  The       *)
(* subscription is asked for from this page and from another tab.          *)
(***************************************************************************)
EXTENDS Naturals, Sequences

CONSTANTS
    None,
    Ranges,      \* RANGES: the days a chart may show
    MaxLoads,    \* bound: answers on their way to a page
    MaxOpen      \* bound: open requests for the subscription

\* What is assumed of the constants.
ConstantsAssumption ==
    /\ Ranges \subseteq Nat \ {0} /\ 30 \in Ranges
    /\ {MaxLoads, MaxOpen} \subseteq Nat /\ MaxLoads >= 2

Pages == {"dashboard", "usage", "billing"}
Askers == {"page", "other"}

VARIABLES
    path,         \* the page that is open
    loads,        \* what it waits for, in the order it was asked for
    days,         \* of the usage page: the range whose button is lit
    data,         \* the range of the usage that is shown, 0 for none
    parts,        \* of the dashboard: the answers that have come
    shown,        \* whether it shows its numbers
    bill,         \* what the billing page shows of the account, or None
    subscribed,   \* the account has the subscription
    open,         \* its requests that the staff has not handled
    ask,          \* how far the request of each asker is
    fresh,        \* (observation) the answer shown is the one asked for last
    moved,        \* (observation) the account was changed, and not by this page,
                  \* since it was read, or the page was not told
    crowded       \* (observation) two requests were checked together

account == <<subscribed, open, ask>>
shows == <<data, parts, shown, bill>>
observed == <<fresh, moved, crowded>>
vars == <<path, loads, days, shows, account, observed>>

\* What was asked for (a range, or 0 for the keys or the bill), what
\* the server has read of the bill, and whether it was asked for last.
Asked(of) == [of |-> of, got |-> None, last |-> TRUE]
Older == [i \in DOMAIN loads |-> [loads[i] EXCEPT !.last = FALSE]]
\* What a page asks for when it opens.
Opened(p, d) ==
    CASE p = "dashboard" -> <<Asked(30), Asked(0)>>
      [] p = "usage" -> <<Asked(d)>>
      [] p = "billing" -> <<Asked(0)>>
Bill == [subscribed |-> subscribed, open |-> open > 0]
Bills == [subscribed: BOOLEAN, open: BOOLEAN]

Init ==
    /\ path = "dashboard"
    /\ loads = Opened("dashboard", 30)
    /\ days = 30
    /\ data = 0
    /\ parts = {}
    /\ shown = FALSE
    /\ bill = None
    /\ subscribed = FALSE
    /\ open = 0
    /\ ask = [a \in Askers |-> "no"]
    /\ fresh = FALSE /\ moved = FALSE /\ crowded = FALSE

\* A link of the shell or of the dashboard: a page of its own.  A request of
\* the page that is left goes on without it, as one of another tab.
Open(p) ==
    /\ p # path
    /\ path' = p
    /\ loads' = Opened(p, 30)
    /\ days' = 30
    /\ data' = 0
    /\ parts' = {}
    /\ shown' = FALSE
    /\ bill' = None
    /\ \/ ask["page"] = "no" /\ UNCHANGED ask
       \/ /\ ask["page"] # "no" /\ ask["other"] = "no"
          /\ ask' = [ask EXCEPT !["page"] = "no", !["other"] = ask["page"]]
    /\ fresh' = FALSE
    /\ UNCHANGED <<subscribed, open, moved, crowded>>

--------------------------------------------------------------------------
(* The answers.                                                            *)

Without(i) == SubSeq(loads, 1, i - 1) \o SubSeq(loads, i + 1, Len(loads))
Newest(i) == loads[i].last
\* The request is lost, or the server fails: what is shown stays.
Fails(i) ==
    /\ loads' = Without(i)
    /\ fresh' = (fresh /\ ~Newest(i))
    /\ UNCHANGED <<path, days, shows, account, moved, crowded>>

\* setData, whatever the range that is lit by now.
UsageArrives(i) ==
    /\ path = "usage"
    /\ loads' = Without(i)
    /\ data' = loads[i].of
    /\ fresh' = Newest(i)
    /\ UNCHANGED <<path, days, parts, shown, bill, account, moved, crowded>>

\* (mutant) the usage is asked for only when the page opens.
setDaysOnly(d) ==
    /\ path = "usage"
    /\ d # days
    /\ days' = d
    /\ UNCHANGED <<path, loads, shows, account, observed>>
\* A button of the ranges: the effect asks again when the range changes.
setDays(d) ==
    /\ path = "usage"
    /\ d # days
    /\ Len(loads) < MaxLoads
    /\ days' = d
    /\ loads' = Append(Older, Asked(d))
    /\ fresh' = FALSE
    /\ UNCHANGED <<path, shows, account, moved, crowded>>

\* Promise.all: the numbers are shown when both answers are there.
DashboardArrives(i) ==
    /\ path = "dashboard"
    /\ loads' = Without(i)
    /\ parts' = parts \cup {loads[i].of}
    /\ shown' = (parts' = {0, 30})
    /\ UNCHANGED <<path, days, data, bill, account, observed>>

\* handleBilling reads the account and its requests.
Read(i) ==
    /\ path = "billing"
    /\ loads[i].got = None
    /\ loads' = [loads EXCEPT ![i].got = Bill]
    /\ moved' = IF Newest(i) THEN FALSE ELSE moved
    /\ UNCHANGED <<path, days, shows, account, fresh, crowded>>

BillArrives(i) ==
    /\ path = "billing"
    /\ loads[i].got # None
    /\ loads' = Without(i)
    /\ bill' = loads[i].got
    /\ fresh' = Newest(i)
    /\ UNCHANGED <<path, days, data, parts, shown, account, moved, crowded>>

--------------------------------------------------------------------------
(* The subscription.                                                       *)

\* The form of the page is there only for who has neither.
FormShown == path = "billing" /\ bill # None /\ ~bill.subscribed /\ ~bill.open

requestSubscription(a) ==
    /\ ask[a] = "no"
    /\ a = "page" => FormShown
    /\ ask' = [ask EXCEPT ![a] = "asked"]
    /\ UNCHANGED <<path, loads, days, shows, subscribed, open, observed>>

\* handleSubscribeRequest: no subscription yet, and no request.  A request that
\* is refused stays as it is until its answer arrives.
Checked(a) ==
    /\ ask[a] = "asked" /\ ~subscribed /\ open = 0
    /\ ask' = [ask EXCEPT ![a] = "checked"]
    /\ crowded' = (crowded \/ \E b \in Askers : ask[b] = "checked")
    /\ UNCHANGED <<path, loads, days, shows, subscribed, open, fresh, moved>>

\* CreateSubscriptionRequest: an insert that no index refuses.
Created(a) ==
    /\ ask[a] = "checked" /\ open < MaxOpen
    /\ open' = open + 1
    /\ ask' = [ask EXCEPT ![a] = "made"]
    /\ moved' = (moved \/ a = "other")
    /\ UNCHANGED <<path, loads, days, shows, subscribed, fresh, crowded>>

\* Accepted: the page asks again what to show.
Accepted(a) ==
    /\ ask[a] = "made"
    /\ ask' = [ask EXCEPT ![a] = "no"]
    /\ IF a = "page"
       THEN /\ Len(loads) < MaxLoads
            /\ loads' = Append(Older, Asked(0))
            /\ fresh' = FALSE
       ELSE UNCHANGED <<loads, fresh>>
    /\ UNCHANGED <<path, days, shows, subscribed, open, moved, crowded>>

\* Refused, or lost on its way or on its way back.
Refused(a) ==
    /\ ask[a] \in {"asked", "checked", "made"}
    /\ ask' = [ask EXCEPT ![a] = "no"]
    /\ moved' = (moved \/ ask[a] = "made")
    /\ UNCHANGED <<path, loads, days, shows, subscribed, open, fresh, crowded>>

\* (mutant) a request that was handled is handled again.
StaffTwice ==
    /\ \/ open' = open - 1 /\ UNCHANGED subscribed
       \/ subscribed' = ~subscribed /\ UNCHANGED open
    /\ moved' = TRUE
    /\ UNCHANGED <<path, loads, days, shows, ask, fresh, crowded>>
\* The staff handles a request, or sets the flag of the account.
Staff ==
    /\ \/ open > 0 /\ open' = open - 1 /\ UNCHANGED subscribed
       \/ subscribed' = ~subscribed /\ UNCHANGED open
    /\ moved' = TRUE
    /\ UNCHANGED <<path, loads, days, shows, ask, fresh, crowded>>

Next ==
    \/ \E p \in Pages : Open(p)
    \/ \E d \in Ranges : setDays(d)
    \/ \E i \in DOMAIN loads :
          \/ Fails(i) \/ UsageArrives(i) \/ DashboardArrives(i) \/ Read(i) \/ BillArrives(i)
    \/ \E a \in Askers :
          \/ requestSubscription(a) \/ Checked(a) \/ Created(a) \/ Accepted(a) \/ Refused(a)
    \/ Staff

Spec == Init /\ [][Next]_vars

--------------------------------------------------------------------------
(* UsageChart: a frame of 720 by 220, 40 left for the scale.  Positions are *)
(* multiplied by the number of days n.                                      *)

Ceil(a, b) == (a + b - 1) \div b
Larger(a, b) == IF a < b THEN b ELSE a
BarLeft(n, i) == 40 * n + 672 * i + n
BarRight(n, i) == BarLeft(n, i) + (IF n + 2 * n > 672 THEN n ELSE 672 - 2 * n)
Labels(n) == {i \in 0..n - 1 : i = 0 \/ i = n - 1 \/ i % Ceil(n, 6) = 0}
LabelAt(n, i) == 40 * n + 672 * i + 336

\* The bars lie side by side inside the frame, and no two labels of days are
\* nearer than 40 to each other.
ChartRight(n) ==
    /\ BarRight(n, n - 1) <= 720 * n
    /\ \A i \in 0..n - 2 : BarRight(n, i) <= BarLeft(n, i + 1)
    /\ \A i, j \in Labels(n) : i < j => LabelAt(n, j) - LabelAt(n, i) >= 40 * n

--------------------------------------------------------------------------

\* Every variable has its type.
TypeOK ==
    /\ path \in Pages
    /\ loads \in Seq([of: Ranges \cup {0}, got: Bills \cup {None},
                   last: BOOLEAN])
    /\ Len(loads) <= MaxLoads
    /\ days \in Ranges /\ data \in Ranges \cup {0}
    /\ parts \subseteq {0, 30}
    /\ shown \in BOOLEAN
    /\ bill \in Bills \cup {None}
    /\ subscribed \in BOOLEAN /\ open \in 0..MaxOpen
    /\ ask \in [Askers -> {"no", "asked", "checked", "made"}]
    /\ {fresh, moved, crowded} \subseteq BOOLEAN

\* The usage page at rest shows the range that is lit, in a chart that fits,
\* unless answers have overtaken each other or the last one failed.
UsageRight ==
    /\ path = "usage" /\ loads = <<>> /\ fresh => data = days
    /\ data # 0 => ChartRight(data)

\* An account asks for the subscription once, unless two requests were checked
\* before either of them was inserted.
OneRequest == ~crowded => open <= 1

\* The billing page at rest that shows its last answer shows the account there
\* is, so that the form is there exactly for who may ask, unless the staff or
\* another tab has changed it since, or an answer was lost.
BillRight ==
    path = "billing" /\ loads = <<>> /\ ask["page"] = "no" /\ fresh /\ ~moved
        => bill = Bill
=============================================================================
