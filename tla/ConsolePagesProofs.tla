--------------------------- MODULE ConsolePagesProofs --------------------------
(***************************************************************************)
(* Proofs about the pages of the console, for any bounds: the dashboard,   *)
(* usage and billing (ConsolePages, the instance Views), the API keys      *)
(* (KeysPage, the instance ApiKeys) and the shell of the documentation     *)
(* (DocsNav).  Last come the properties of MCConsolePages, where the three *)
(* are side by side.                                                       *)
(***************************************************************************)
EXTENDS Integers, MCConsolePages, FiniteSetTheorems, SequenceTheorems,
        WellFoundedInduction, TLAPS

-----------------------------------------------------------------------------
(***************************************************************************)
(* The pages that show what the account uses and owes.  Of what is on its  *)
(* way to a page only what was asked for last counts: that is of the range *)
(* that is lit, or the account as it is unless it has changed since.       *)
(***************************************************************************)
ViewOf == Ranges \cup {0}
ViewLoad == [of: ViewOf, got: Views!Bills \cup {None}, last: BOOLEAN]

\* The page has nothing on its way that the account does not know of.
ViewQuiet == ~moved /\ ask["page"] # "made"

ViewLast ==
    view # "dashboard" =>
        /\ \A i, j \in DOMAIN viewLoads : viewLoads[i].last /\ viewLoads[j].last => i = j
        /\ viewFresh => \A i \in DOMAIN viewLoads : ~viewLoads[i].last

\* The dashboard asks for the usage of 30 days and for the keys.
ViewDashboard ==
    view = "dashboard" => \A i \in DOMAIN viewLoads : viewLoads[i].of \in {0, 30}

ViewUsage ==
    view = "usage" =>
        /\ viewFresh => data = days
        /\ \A i \in DOMAIN viewLoads : viewLoads[i].last => viewLoads[i].of = days

ViewBill ==
    view = "billing" /\ ViewQuiet =>
        /\ viewFresh => bill = Views!Bill
        /\ \A i \in DOMAIN viewLoads :
              viewLoads[i].last /\ viewLoads[i].got # None => viewLoads[i].got = Views!Bill

\* Only the billing page asks for the subscription.
ViewAsks == view # "billing" => ask["page"] = "no"

\* Who has passed the check finds no request, and is alone.
ViewChecked ==
    ~viewCrowded =>
        /\ open <= 1
        /\ \A a \in Views!Askers : ask[a] = "checked" => open = 0
        /\ \A a, b \in Views!Askers : ask[a] = "checked" /\ ask[b] = "checked" => a = b

ViewInv ==
    /\ Views!TypeOK /\ ViewLast /\ ViewDashboard /\ ViewUsage /\ ViewBill
    /\ ViewAsks /\ ViewChecked

-----------------------------------------------------------------------------
\* A sequence without one of its elements.
LEMMA ViewWithout ==
    ASSUME NEW S, NEW s \in Seq(S), NEW i \in DOMAIN s
    PROVE  LET t == SubSeq(s, 1, i - 1) \o SubSeq(s, i + 1, Len(s)) IN
           /\ t \in Seq(S) /\ Len(t) = Len(s) - 1
           /\ \A j \in DOMAIN t :
                 t[j] = IF j < i THEN s[j] ELSE s[j + 1]
<1> DEFINE a == SubSeq(s, 1, i - 1)
           b == SubSeq(s, i + 1, Len(s))
<1>1. i \in 1 .. Len(s) /\ Len(s) \in Nat
  OBVIOUS
<1>2. /\ a \in Seq(S) /\ Len(a) = i - 1
      /\ \A j \in 1 .. Len(a) : a[j] = s[j]
  BY <1>1
<1>3. /\ b \in Seq(S) /\ Len(b) = Len(s) - i
      /\ \A j \in 1 .. Len(b) : b[j] = s[i + j]
  BY <1>1
<1> HIDE DEF a, b
<1>4. /\ a \o b \in Seq(S) /\ Len(a \o b) = Len(s) - 1
      /\ \A j \in DOMAIN (a \o b) : (a \o b)[j] = IF j < i THEN s[j] ELSE s[j + 1]
  BY <1>1, <1>2, <1>3
<1>5. QED
  BY <1>4 DEF a, b

\* What comes after a request: the ones before it do not count any more.
LEMMA ViewAgain ==
    ASSUME Views!ConstantsAssumption, viewLoads \in Seq(ViewLoad), NEW d \in ViewOf,
           viewLoads' = Append(Views!Older, Views!Asked(d))
    PROVE  /\ viewLoads' \in Seq(ViewLoad) /\ Len(viewLoads') = Len(viewLoads) + 1
           /\ \A i \in DOMAIN viewLoads' :
                 viewLoads'[i].last => /\ i = Len(viewLoads) + 1 /\ viewLoads'[i].of = d
                                       /\ viewLoads'[i].got = None
<1>1. Views!Asked(d) \in ViewLoad /\ Views!Asked(d).of = d /\ Views!Asked(d).got = None
  BY DEF Views!Asked, ViewLoad
<1>2. /\ Views!Older \in Seq(ViewLoad) /\ Len(Views!Older) = Len(viewLoads)
      /\ \A i \in DOMAIN Views!Older : Views!Older[i].last = FALSE
  <2>1. /\ DOMAIN viewLoads = 1 .. Len(viewLoads) /\ Len(viewLoads) \in Nat
        /\ \A i \in DOMAIN viewLoads : viewLoads[i] \in ViewLoad
    OBVIOUS
  <2>2. ASSUME NEW x \in ViewLoad
        PROVE  [x EXCEPT !.last = FALSE] \in ViewLoad /\ [x EXCEPT !.last = FALSE].last = FALSE
    BY DEF ViewLoad
  <2>3. \A i \in DOMAIN viewLoads : /\ [viewLoads[i] EXCEPT !.last = FALSE] \in ViewLoad
                                    /\ [viewLoads[i] EXCEPT !.last = FALSE].last = FALSE
    BY <2>1, <2>2
  <2>4. /\ Views!Older \in [1 .. Len(viewLoads) -> ViewLoad]
        /\ \A i \in DOMAIN Views!Older : Views!Older[i].last = FALSE
    BY <2>1, <2>3 DEF Views!Older
  <2>5. QED
    BY <2>1, <2>4
<1>3. QED
  BY <1>1, <1>2
LEMMA ViewTypes ==
    ASSUME Views!ConstantsAssumption, Views!TypeOK
    PROVE  /\ viewLoads \in Seq(ViewLoad) /\ Len(viewLoads) \in Nat
           /\ DOMAIN viewLoads = 1 .. Len(viewLoads)
           /\ \A i \in DOMAIN viewLoads : viewLoads[i] \in ViewLoad
           /\ Views!Bill \in Views!Bills
<1>1. viewLoads \in Seq(ViewLoad)
  BY DEF Views!TypeOK, ViewLoad, ViewOf
<1>2. Views!Bill \in Views!Bills
  BY DEF Views!TypeOK, Views!Bill, Views!Bills
<1>3. QED
  BY <1>1, <1>2

\* An answer is taken off, whatever it is.
LEMMA ViewTaken ==
    ASSUME Views!ConstantsAssumption, Views!TypeOK, ViewLast, NEW i \in DOMAIN viewLoads,
           viewLoads' = Views!Without(i), view' = view
    PROVE  /\ viewLoads' \in Seq(ViewLoad) /\ Len(viewLoads') <= MaxLoads
           /\ \A j \in DOMAIN viewLoads' : \E k \in DOMAIN viewLoads : viewLoads'[j] = viewLoads[k]
           /\ (viewFresh' => Views!Newest(i) \/ (viewFresh /\ ~Views!Newest(i))) => ViewLast'
<1>1. /\ viewLoads \in Seq(ViewLoad) /\ Len(viewLoads) \in Nat /\ MaxLoads \in Nat
      /\ DOMAIN viewLoads = 1 .. Len(viewLoads) /\ Len(viewLoads) <= MaxLoads
  BY ViewTypes DEF Views!TypeOK, Views!ConstantsAssumption
<1>2. /\ viewLoads' \in Seq(ViewLoad) /\ Len(viewLoads') = Len(viewLoads) - 1
      /\ \A j \in DOMAIN viewLoads' :
            viewLoads'[j] = IF j < i THEN viewLoads[j] ELSE viewLoads[j + 1]
  BY <1>1, ViewWithout DEF Views!Without
<1>3. \A j \in DOMAIN viewLoads' : /\ j \in Nat
                                   /\ j < i => j \in DOMAIN viewLoads
                                   /\ ~(j < i) => j + 1 \in DOMAIN viewLoads /\ j + 1 # i
  BY <1>1, <1>2
<1>4. Len(viewLoads') <= MaxLoads
  BY <1>1, <1>2
<1>5. \A j \in DOMAIN viewLoads' : \E k \in DOMAIN viewLoads : viewLoads'[j] = viewLoads[k] /\ k # i
  BY <1>1, <1>2, <1>3
<1>6. ASSUME viewFresh' => Views!Newest(i) \/ (viewFresh /\ ~Views!Newest(i)) PROVE ViewLast'
  <2>1. SUFFICES ASSUME view # "dashboard"
                 PROVE  /\ \A j, k \in DOMAIN viewLoads' :
                              viewLoads'[j].last /\ viewLoads'[k].last => j = k
                        /\ viewFresh' => \A j \in DOMAIN viewLoads' : ~viewLoads'[j].last
    BY DEF ViewLast
  <2>2. /\ \A j, k \in DOMAIN viewLoads : viewLoads[j].last /\ viewLoads[k].last => j = k
        /\ viewFresh => \A j \in DOMAIN viewLoads : ~viewLoads[j].last
    BY <2>1 DEF ViewLast
  <2>3. ASSUME NEW j \in DOMAIN viewLoads', NEW k \in DOMAIN viewLoads',
               viewLoads'[j].last, viewLoads'[k].last
        PROVE  j = k
    <3>1. CASE j < i /\ k < i
      BY <1>2, <1>3, <2>2, <2>3, <3>1
    <3>2. CASE ~(j < i) /\ ~(k < i)
      <4>1. j + 1 = k + 1
        BY <1>2, <1>3, <2>2, <2>3, <3>2
      <4>2. QED
        BY <1>3, <4>1
    <3>3. CASE j < i /\ ~(k < i)
      <4>1. j = k + 1
        BY <1>2, <1>3, <2>2, <2>3, <3>3
      <4>2. QED
        BY <1>1, <1>3, <3>3, <4>1
    <3>4. CASE ~(j < i) /\ k < i
      <4>1. k = j + 1
        BY <1>2, <1>3, <2>2, <2>3, <3>4
      <4>2. QED
        BY <1>1, <1>3, <3>4, <4>1
    <3>5. QED
      BY <3>1, <3>2, <3>3, <3>4
  <2>4. ASSUME viewFresh', NEW j \in DOMAIN viewLoads' PROVE ~viewLoads'[j].last
    <3>1. PICK k \in DOMAIN viewLoads : viewLoads'[j] = viewLoads[k] /\ k # i
      BY <1>5
    <3>2. QED
      BY <1>6, <2>2, <2>4, <3>1 DEF Views!Newest
  <2>5. QED
    BY <2>3, <2>4
<1>7. QED
  BY <1>2, <1>4, <1>5, <1>6

\* Nothing that the checks of the subscription look at.
LEMMA ViewAccountRests ==
    ASSUME ViewAsks, ViewChecked, UNCHANGED <<view, Views!account, viewCrowded>>
    PROVE  ViewAsks' /\ ViewChecked'
BY DEF ViewAsks, ViewChecked, Views!account

LEMMA ViewFailsStep ==
    ASSUME Views!ConstantsAssumption, ViewInv, NEW i \in DOMAIN viewLoads, Views!Fails(i)
    PROVE  ViewInv'
<1>1. /\ viewLoads' = Views!Without(i) /\ viewFresh' = (viewFresh /\ ~Views!Newest(i))
      /\ UNCHANGED <<view, days, data, parts, shown, bill, Views!account, subscribed, open,
                     ask, moved, viewCrowded>>
  BY DEF Views!Fails, Views!shows, Views!account
<1>2. /\ viewLoads' \in Seq(ViewLoad) /\ Len(viewLoads') <= MaxLoads /\ ViewLast'
      /\ \A j \in DOMAIN viewLoads' : \E k \in DOMAIN viewLoads : viewLoads'[j] = viewLoads[k]
  BY <1>1, ViewTaken DEF ViewInv
<1>3. Views!TypeOK'
  BY <1>1, <1>2 DEF ViewInv, Views!TypeOK, ViewLoad, ViewOf
<1>7. viewFresh' => viewFresh
  BY <1>1, Zenon
<1>4. ViewUsage' /\ ViewDashboard'
  BY <1>1, <1>2, <1>7 DEF ViewInv, ViewUsage, ViewDashboard
<1>5. ViewBill'
  <2>1. (ViewQuiet' <=> ViewQuiet) /\ Views!Bill' = Views!Bill
    BY <1>1 DEF ViewQuiet, Views!Bill
  <2>2. QED
    BY <1>1, <1>2, <1>7, <2>1 DEF ViewInv, ViewBill
<1>6. QED
  BY <1>1, <1>2, <1>3, <1>4, <1>5, ViewAccountRests DEF ViewInv

LEMMA ViewUsageStep ==
    ASSUME Views!ConstantsAssumption, ViewInv, NEW i \in DOMAIN viewLoads, Views!UsageArrives(i)
    PROVE  ViewInv'
<1>1. /\ view = "usage" /\ viewLoads' = Views!Without(i) /\ viewFresh' = Views!Newest(i)
      /\ data' = viewLoads[i].of /\ viewLoads[i] \in ViewLoad
      /\ UNCHANGED <<view, days, parts, shown, bill, Views!account, subscribed, open,
                     ask, moved, viewCrowded>>
  BY ViewTypes DEF Views!UsageArrives, Views!account, ViewInv
<1>2. /\ viewLoads' \in Seq(ViewLoad) /\ Len(viewLoads') <= MaxLoads
      /\ \A j \in DOMAIN viewLoads' : \E k \in DOMAIN viewLoads : viewLoads'[j] = viewLoads[k]
  BY <1>1, ViewTaken DEF ViewInv
<1>3. data' \in Ranges \cup {0} /\ viewFresh' \in BOOLEAN
  BY <1>1 DEF ViewLoad, ViewOf, Views!Newest
<1>4. ViewLast'
  BY <1>1, <1>3, ViewTaken DEF ViewInv
<1>5. Views!TypeOK'
  BY <1>1, <1>2, <1>3 DEF ViewInv, Views!TypeOK, ViewLoad, ViewOf
<1>6. ViewUsage'
  BY <1>1, <1>2 DEF ViewInv, ViewUsage, Views!Newest
<1>7. ViewBill' /\ ViewDashboard'
  BY <1>1 DEF ViewBill, ViewDashboard
<1>8. QED
  BY <1>1, <1>4, <1>5, <1>6, <1>7, ViewAccountRests DEF ViewInv

LEMMA ViewDashboardStep ==
    ASSUME Views!ConstantsAssumption, ViewInv, NEW i \in DOMAIN viewLoads,
           Views!DashboardArrives(i)
    PROVE  ViewInv'
<1>1. /\ view = "dashboard" /\ viewLoads' = Views!Without(i)
      /\ parts' = parts \cup {viewLoads[i].of} /\ shown' = (parts' = {0, 30})
      /\ UNCHANGED <<view, days, data, bill, Views!account, subscribed, open, ask, viewFresh,
                     moved, viewCrowded>>
  BY DEF Views!DashboardArrives, Views!account, Views!observed
<1>2. /\ viewLoads' \in Seq(ViewLoad) /\ Len(viewLoads') <= MaxLoads
      /\ \A j \in DOMAIN viewLoads' : \E k \in DOMAIN viewLoads : viewLoads'[j] = viewLoads[k]
  BY <1>1, ViewTaken DEF ViewInv
<1>3. parts' \subseteq {0, 30} /\ shown' \in BOOLEAN
  BY <1>1 DEF ViewInv, ViewDashboard, Views!TypeOK
<1>4. Views!TypeOK'
  <2>1. Len(viewLoads') <= MaxLoads
    BY <1>1, <1>2, <1>3
  <2>2. viewLoads' \in Seq([of: Ranges \cup {0}, got: Views!Bills \cup {None}, last: BOOLEAN])
    BY <1>2 DEF ViewLoad, ViewOf
  <2>3. QED
    BY <1>1, <1>3, <2>1, <2>2 DEF ViewInv, Views!TypeOK
<1>5. ViewLast' /\ ViewUsage' /\ ViewBill' /\ ViewDashboard'
  BY <1>1, <1>2 DEF ViewInv, ViewLast, ViewDashboard, ViewUsage, ViewBill
<1>6. QED
  BY <1>1, <1>4, <1>5, ViewAccountRests DEF ViewInv

LEMMA ViewReadStep ==
    ASSUME Views!ConstantsAssumption, ViewInv, NEW i \in DOMAIN viewLoads, Views!Read(i)
    PROVE  ViewInv'
<1>1. /\ view = "billing" /\ viewLoads' = [viewLoads EXCEPT ![i].got = Views!Bill]
      /\ moved' = IF Views!Newest(i) THEN FALSE ELSE moved
      /\ UNCHANGED <<view, days, data, parts, shown, bill, Views!account, subscribed, open,
                     ask, viewFresh, viewCrowded>>
  BY DEF Views!Read, Views!account, Views!shows
<1>2. /\ viewLoads \in Seq(ViewLoad) /\ DOMAIN viewLoads = 1 .. Len(viewLoads)
      /\ \A j \in DOMAIN viewLoads : viewLoads[j] \in ViewLoad
      /\ Views!Bill \in Views!Bills /\ Views!Bill' = Views!Bill
  BY <1>1, ViewTypes DEF ViewInv, Views!Bill
<1>3. /\ [viewLoads[i] EXCEPT !.got = Views!Bill] \in ViewLoad
      /\ [viewLoads[i] EXCEPT !.got = Views!Bill].last = viewLoads[i].last
      /\ [viewLoads[i] EXCEPT !.got = Views!Bill].of = viewLoads[i].of
      /\ [viewLoads[i] EXCEPT !.got = Views!Bill].got = Views!Bill
  BY <1>2 DEF ViewLoad
<1>4. /\ viewLoads' \in Seq(ViewLoad) /\ Len(viewLoads') = Len(viewLoads)
      /\ DOMAIN viewLoads' = DOMAIN viewLoads
      /\ \A j \in DOMAIN viewLoads :
            /\ viewLoads'[j].last = viewLoads[j].last
            /\ viewLoads'[j].got = IF j = i THEN Views!Bill ELSE viewLoads[j].got
  BY <1>1, <1>2, <1>3
<1>5. moved' \in BOOLEAN
  BY <1>1 DEF ViewInv, Views!TypeOK
<1>6. Views!TypeOK'
  BY <1>1, <1>4, <1>5 DEF ViewInv, Views!TypeOK, ViewLoad, ViewOf
<1>7. ViewLast' /\ ViewDashboard' /\ ViewUsage'
  BY <1>1, <1>4 DEF ViewInv, ViewLast, ViewDashboard, ViewUsage
<1>8. ViewBill'
  <2>1. SUFFICES ASSUME ViewQuiet'
                 PROVE  /\ viewFresh' => bill' = Views!Bill
                        /\ \A j \in DOMAIN viewLoads :
                              viewLoads[j].last /\ viewLoads'[j].got # None
                                  => viewLoads'[j].got = Views!Bill
    BY <1>2, <1>4 DEF ViewBill
  <2>2. CASE viewLoads[i].last
    BY <1>1, <1>4, <2>2 DEF ViewInv, ViewLast
  <2>3. CASE ~viewLoads[i].last
    <3>1. ViewQuiet
      BY <1>1, <2>1, <2>3 DEF ViewQuiet, Views!Newest
    <3>2. QED
      BY <1>1, <1>4, <3>1 DEF ViewInv, ViewBill
  <2>4. QED
    BY <2>2, <2>3
<1>9. ViewAsks' /\ ViewChecked'
  BY <1>1, ViewAccountRests DEF ViewInv
<1>10. QED
  BY <1>6, <1>7, <1>8, <1>9 DEF ViewInv

LEMMA ViewBillStep ==
    ASSUME Views!ConstantsAssumption, ViewInv, NEW i \in DOMAIN viewLoads, Views!BillArrives(i)
    PROVE  ViewInv'
<1>1. /\ view = "billing" /\ viewLoads' = Views!Without(i) /\ viewFresh' = Views!Newest(i)
      /\ bill' = viewLoads[i].got /\ viewLoads[i].got # None /\ viewLoads[i] \in ViewLoad
      /\ UNCHANGED <<view, days, data, parts, shown, Views!account, subscribed, open,
                     ask, moved, viewCrowded>>
  BY ViewTypes DEF Views!BillArrives, Views!account, ViewInv
<1>2. /\ viewLoads' \in Seq(ViewLoad) /\ Len(viewLoads') <= MaxLoads
      /\ \A j \in DOMAIN viewLoads' : \E k \in DOMAIN viewLoads : viewLoads'[j] = viewLoads[k]
  BY <1>1, ViewTaken DEF ViewInv
<1>3. bill' \in Views!Bills /\ viewFresh' \in BOOLEAN /\ (viewFresh' => viewLoads[i].last)
  BY <1>1 DEF ViewLoad, Views!Newest
<1>4. ViewLast'
  BY <1>1, <1>3, ViewTaken DEF ViewInv, Views!Newest
<1>5. Views!TypeOK'
  BY <1>1, <1>2, <1>3 DEF ViewInv, Views!TypeOK, ViewLoad, ViewOf
<1>6. ViewUsage' /\ ViewDashboard'
  BY <1>1 DEF ViewUsage, ViewDashboard
<1>7. ViewBill'
  <2>1. (ViewQuiet' <=> ViewQuiet) /\ Views!Bill' = Views!Bill
    BY <1>1 DEF ViewQuiet, Views!Bill
  <2>2. QED
    BY <1>1, <1>2, <1>3, <2>1 DEF ViewInv, ViewBill
<1>8. QED
  BY <1>1, <1>4, <1>5, <1>6, <1>7, ViewAccountRests DEF ViewInv

LEMMA ViewDaysStep ==
    ASSUME Views!ConstantsAssumption, ViewInv, NEW d \in Ranges, Views!setDays(d)
    PROVE  ViewInv'
<1>1. /\ view = "usage" /\ Len(viewLoads) < MaxLoads /\ days' = d /\ viewFresh' = FALSE
      /\ viewLoads' = Append(Views!Older, Views!Asked(d)) /\ d \in ViewOf
      /\ UNCHANGED <<view, data, parts, shown, bill, Views!account, subscribed, open,
                     ask, moved, viewCrowded>>
  BY DEF Views!setDays, Views!shows, Views!account, ViewOf
<1>2. /\ viewLoads' \in Seq(ViewLoad) /\ Len(viewLoads') = Len(viewLoads) + 1
      /\ \A i \in DOMAIN viewLoads' :
            viewLoads'[i].last => i = Len(viewLoads) + 1 /\ viewLoads'[i].of = d
  BY <1>1, ViewAgain, ViewTypes DEF ViewInv
<1>3. Len(viewLoads) \in Nat /\ MaxLoads \in Nat
  BY ViewTypes DEF ViewInv, Views!ConstantsAssumption
<1>4. Views!TypeOK'
  <2>1. Len(viewLoads') <= MaxLoads
    BY <1>1, <1>2, <1>3
  <2>2. viewLoads' \in Seq([of: Ranges \cup {0}, got: Views!Bills \cup {None}, last: BOOLEAN])
    BY <1>2 DEF ViewLoad, ViewOf
  <2>3. QED
    BY <1>1, <2>1, <2>2 DEF ViewInv, Views!TypeOK
<1>5. ViewLast' /\ ViewUsage' /\ ViewBill' /\ ViewDashboard'
  BY <1>1, <1>2 DEF ViewLast, ViewUsage, ViewBill, ViewDashboard
<1>6. QED
  BY <1>1, <1>4, <1>5, ViewAccountRests DEF ViewInv

-----------------------------------------------------------------------------
\* The pages stay as they are, and what they show does not get older unseen.
LEMMA ViewPagesRest ==
    ASSUME ViewInv, UNCHANGED <<view, viewLoads, days, Views!shows, viewFresh>>,
           ViewQuiet' => ViewQuiet /\ Views!Bill' = Views!Bill
    PROVE  ViewLast' /\ ViewDashboard' /\ ViewUsage' /\ ViewBill'
BY DEF ViewInv, ViewLast, ViewDashboard, ViewUsage, ViewBill, Views!shows

LEMMA ViewRequestStep ==
    ASSUME ViewInv, NEW a \in Views!Askers, Views!requestSubscription(a)
    PROVE  ViewInv'
<1>1. /\ ask[a] = "no" /\ (a = "page" => view = "billing")
      /\ ask' = [ask EXCEPT ![a] = "asked"]
      /\ UNCHANGED <<view, viewLoads, days, Views!shows, data, parts, shown, bill, subscribed,
                     open, viewFresh, moved, viewCrowded>>
      /\ ask \in [Views!Askers -> {"no", "asked", "checked", "made"}]
  BY DEF Views!requestSubscription, Views!FormShown, Views!shows,
         Views!observed, ViewInv, Views!TypeOK
<1>2. Views!TypeOK'
  BY <1>1 DEF ViewInv, Views!TypeOK
<1>3. ViewAsks' /\ ViewChecked'
  BY <1>1 DEF ViewInv, ViewAsks, ViewChecked, Views!Askers
<1>4. ViewQuiet' => ViewQuiet /\ Views!Bill' = Views!Bill
  BY <1>1 DEF ViewQuiet, Views!Bill, Views!Askers
<1>5. QED
  BY <1>1, <1>2, <1>3, <1>4, ViewPagesRest DEF ViewInv

LEMMA ViewCheckedStep ==
    ASSUME ViewInv, NEW a \in Views!Askers, Views!Checked(a)
    PROVE  ViewInv'
<1>1. /\ ask[a] = "asked" /\ open = 0
      /\ ask' = [ask EXCEPT ![a] = "checked"]
      /\ viewCrowded' = (viewCrowded \/ \E b \in Views!Askers : ask[b] = "checked")
      /\ UNCHANGED <<view, viewLoads, days, Views!shows, data, parts, shown, bill, subscribed,
                     open, viewFresh, moved>>
      /\ ask \in [Views!Askers -> {"no", "asked", "checked", "made"}]
  BY DEF Views!Checked, Views!shows, ViewInv, Views!TypeOK
<1>2. viewCrowded' \in BOOLEAN /\ (~viewCrowded' => ~viewCrowded /\ \A b \in Views!Askers : ask[b] # "checked")
  BY <1>1, Zenon
<1>3. Views!TypeOK'
  BY <1>1, <1>2 DEF ViewInv, Views!TypeOK
<1>4. ViewAsks'
  BY <1>1 DEF ViewInv, ViewAsks, Views!Askers
<1>5. ViewChecked'
  BY <1>1, <1>2 DEF ViewInv, ViewChecked
<1>6. ViewQuiet' => ViewQuiet /\ Views!Bill' = Views!Bill
  BY <1>1 DEF ViewQuiet, Views!Bill, Views!Askers
<1>7. QED
  BY <1>1, <1>3, <1>4, <1>5, <1>6, ViewPagesRest DEF ViewInv

LEMMA ViewCreatedStep ==
    ASSUME Views!ConstantsAssumption, ViewInv, NEW a \in Views!Askers, Views!Created(a)
    PROVE  ViewInv'
<1>1. /\ ask[a] = "checked" /\ open < MaxOpen /\ open' = open + 1
      /\ ask' = [ask EXCEPT ![a] = "made"]
      /\ moved' = (moved \/ a = "other")
      /\ UNCHANGED <<view, viewLoads, days, Views!shows, data, parts, shown, bill, subscribed,
                     viewFresh, viewCrowded>>
      /\ ask \in [Views!Askers -> {"no", "asked", "checked", "made"}]
      /\ open \in 0 .. MaxOpen /\ MaxOpen \in Nat
  BY DEF Views!Created, Views!shows, ViewInv, Views!TypeOK,
         Views!ConstantsAssumption
<1>2. moved' \in BOOLEAN /\ (~moved' => a = "page")
  BY <1>1 DEF Views!Askers
<1>3. open' \in 0 .. MaxOpen
  BY <1>1
<1>4. Views!TypeOK'
  BY <1>1, <1>2, <1>3 DEF ViewInv, Views!TypeOK
<1>5. ViewAsks'
  BY <1>1 DEF ViewInv, ViewAsks, Views!Askers
<1>6. ViewChecked'
  BY <1>1 DEF ViewInv, ViewChecked
<1>7. ~ViewQuiet'
  BY <1>1, <1>2 DEF ViewQuiet, Views!Askers
<1>8. QED
  BY <1>1, <1>4, <1>5, <1>6, <1>7, ViewPagesRest DEF ViewInv

LEMMA ViewRefusedStep ==
    ASSUME ViewInv, NEW a \in Views!Askers, Views!Refused(a)
    PROVE  ViewInv'
<1>1. /\ ask' = [ask EXCEPT ![a] = "no"]
      /\ moved' = (moved \/ ask[a] = "made")
      /\ UNCHANGED <<view, viewLoads, days, Views!shows, data, parts, shown, bill, subscribed,
                     open, viewFresh, viewCrowded>>
      /\ ask \in [Views!Askers -> {"no", "asked", "checked", "made"}]
  BY DEF Views!Refused, Views!shows, ViewInv, Views!TypeOK
<1>2. moved' \in BOOLEAN /\ (~moved' => ~moved /\ ask[a] # "made")
  BY <1>1, Zenon
<1>3. Views!TypeOK'
  BY <1>1, <1>2 DEF ViewInv, Views!TypeOK
<1>4. ViewAsks' /\ ViewChecked'
  BY <1>1 DEF ViewInv, ViewAsks, ViewChecked
<1>5. ViewQuiet' => ViewQuiet /\ Views!Bill' = Views!Bill
  BY <1>1, <1>2 DEF ViewQuiet, Views!Bill, Views!Askers
<1>6. QED
  BY <1>1, <1>3, <1>4, <1>5, ViewPagesRest DEF ViewInv

LEMMA ViewStaffStep ==
    ASSUME Views!ConstantsAssumption, ViewInv, Views!Staff
    PROVE  ViewInv'
<1>1. /\ moved' = TRUE
      /\ UNCHANGED <<view, viewLoads, days, Views!shows, data, parts, shown, bill, ask, viewFresh,
                     viewCrowded>>
      /\ open \in 0 .. MaxOpen /\ MaxOpen \in Nat /\ subscribed \in BOOLEAN
  BY DEF Views!Staff, Views!shows, ViewInv, Views!TypeOK,
         Views!ConstantsAssumption
<1>2. open' \in 0 .. MaxOpen /\ open' <= open /\ subscribed' \in BOOLEAN
  <2>1. CASE open > 0 /\ open' = open - 1 /\ UNCHANGED subscribed
    BY <1>1, <2>1
  <2>2. CASE subscribed' = ~subscribed /\ UNCHANGED open
    BY <1>1, <2>2
  <2>3. QED
    BY <2>1, <2>2 DEF Views!Staff
<1>3. Views!TypeOK'
  BY <1>1, <1>2 DEF ViewInv, Views!TypeOK
<1>4. ViewAsks'
  BY <1>1 DEF ViewInv, ViewAsks
<1>5. ViewChecked'
  BY <1>1, <1>2 DEF ViewInv, ViewChecked
<1>6. ~ViewQuiet'
  BY <1>1 DEF ViewQuiet
<1>7. QED
  BY <1>1, <1>3, <1>4, <1>5, <1>6, ViewPagesRest DEF ViewInv

\* The page asks again, or another tab hears that its request was made.
LEMMA ViewAcceptedStep ==
    ASSUME Views!ConstantsAssumption, ViewInv, NEW a \in Views!Askers, Views!Accepted(a)
    PROVE  ViewInv'
<1>1. /\ ask[a] = "made" /\ ask' = [ask EXCEPT ![a] = "no"]
      /\ UNCHANGED <<view, days, Views!shows, data, parts, shown, bill, subscribed,
                     open, moved, viewCrowded>>
      /\ ask \in [Views!Askers -> {"no", "asked", "checked", "made"}]
  BY DEF Views!Accepted, Views!shows, ViewInv, Views!TypeOK
<1>2. ViewAsks' /\ ViewChecked'
  BY <1>1 DEF ViewInv, ViewAsks, ViewChecked
<1>3. CASE a = "page"
  <2>1. /\ Len(viewLoads) < MaxLoads /\ viewFresh' = FALSE
        /\ viewLoads' = Append(Views!Older, Views!Asked(0)) /\ 0 \in ViewOf /\ view = "billing"
    BY <1>1, <1>3 DEF Views!Accepted, ViewOf, ViewInv, ViewAsks
  <2>2. /\ viewLoads' \in Seq(ViewLoad) /\ Len(viewLoads') = Len(viewLoads) + 1
        /\ \A i \in DOMAIN viewLoads' :
              viewLoads'[i].last => i = Len(viewLoads) + 1 /\ viewLoads'[i].got = None
    BY <2>1, ViewAgain, ViewTypes DEF ViewInv
  <2>3. Len(viewLoads) \in Nat /\ MaxLoads \in Nat
    BY ViewTypes DEF ViewInv, Views!ConstantsAssumption
  <2>4. Len(viewLoads') <= MaxLoads
    BY <2>1, <2>2, <2>3
  <2>5. viewLoads' \in Seq([of: Ranges \cup {0}, got: Views!Bills \cup {None}, last: BOOLEAN])
    BY <2>2 DEF ViewLoad, ViewOf
  <2>6. Views!TypeOK'
    BY <1>1, <2>1, <2>4, <2>5 DEF ViewInv, Views!TypeOK
  <2>7. ViewLast' /\ ViewUsage' /\ ViewBill' /\ ViewDashboard'
    BY <1>1, <2>1, <2>2 DEF ViewLast, ViewUsage, ViewBill, ViewDashboard
  <2>8. QED
    BY <1>2, <2>6, <2>7 DEF ViewInv
<1>4. CASE a # "page"
  <2>1. UNCHANGED <<viewLoads, viewFresh>> /\ (ViewQuiet' => ViewQuiet /\ Views!Bill' = Views!Bill)
    BY <1>1, <1>4 DEF Views!Accepted, ViewQuiet, Views!Bill, Views!Askers
  <2>2. Views!TypeOK'
    BY <1>1, <2>1 DEF ViewInv, Views!TypeOK
  <2>3. QED
    BY <1>1, <1>2, <2>1, <2>2, ViewPagesRest DEF ViewInv
<1>5. QED
  BY <1>3, <1>4

LEMMA ViewOne ==
    ASSUME NEW x \in ViewLoad, NEW t, t = <<x>>
    PROVE  t \in Seq(ViewLoad) /\ Len(t) = 1 /\ t[1] = x
OBVIOUS

\* A page of its own: what it waits for is of its kind, and was not read.
LEMMA ViewOpened ==
    ASSUME Views!ConstantsAssumption, NEW p \in Views!Pages
    PROVE  LET o == Views!Opened(p, 30) IN
           /\ o \in Seq(ViewLoad) /\ Len(o) <= MaxLoads
           /\ p # "dashboard" =>
                 Len(o) = 1 /\ (p = "usage" => o[1].of = 30) /\ o[1].got = None
           /\ p = "dashboard" =>
                 \A i \in DOMAIN o : o[i].of \in {0, 30}
<1>1. /\ Views!Asked(30) \in ViewLoad /\ Views!Asked(0) \in ViewLoad
      /\ Views!Asked(30).of = 30 /\ Views!Asked(0).of = 0
      /\ Views!Asked(30).got = None /\ Views!Asked(0).got = None
  BY DEF Views!ConstantsAssumption, Views!Asked, ViewLoad, ViewOf
<1>2. MaxLoads >= 2 /\ MaxLoads \in Nat
  BY DEF Views!ConstantsAssumption
<1>3. /\ <<Views!Asked(30), Views!Asked(0)>> \in Seq(ViewLoad) /\ Len(<<Views!Asked(30), Views!Asked(0)>>) = 2
      /\ \A i \in DOMAIN <<Views!Asked(30), Views!Asked(0)>> :
            <<Views!Asked(30), Views!Asked(0)>>[i] \in {Views!Asked(30), Views!Asked(0)}
      /\ \A x \in ViewLoad : <<x>> \in Seq(ViewLoad) /\ Len(<<x>>) = 1 /\ <<x>>[1] = x
  BY <1>1
<1>7. CASE p = "dashboard"
  <2>1. Views!Opened(p, 30) = <<Views!Asked(30), Views!Asked(0)>>
    BY <1>7 DEF Views!Opened
  <2> DEFINE o == Views!Opened(p, 30)
  <2>2. o \in Seq(ViewLoad) /\ Len(o) <= MaxLoads
    BY <1>1, <1>2, <1>3, <2>1
  <2>3. \A i \in DOMAIN o : o[i].of \in {0, 30}
    BY <1>1, <1>3, <2>1
  <2>4. QED
    BY <1>7, <2>2, <2>3
<1>4. CASE p = "usage"
  <2>1. Views!Opened(p, 30) = <<Views!Asked(30)>>
    BY <1>4 DEF Views!Opened
  <2> DEFINE o == Views!Opened(p, 30)
  <2>2. o \in Seq(ViewLoad) /\ Len(o) = 1 /\ o[1] = Views!Asked(30)
    BY <1>1, <2>1, ViewOne
  <2> HIDE DEF o
  <2>3. Len(o) <= MaxLoads
    BY <1>2, <2>2
  <2>4. QED
    BY <1>1, <1>4, <2>2, <2>3 DEF o
<1>5. CASE p = "billing"
  <2>1. Views!Opened(p, 30) = <<Views!Asked(0)>>
    BY <1>5 DEF Views!Opened
  <2> DEFINE o == Views!Opened(p, 30)
  <2>2. o \in Seq(ViewLoad) /\ Len(o) = 1 /\ o[1] = Views!Asked(0)
    BY <1>1, <2>1, ViewOne
  <2> HIDE DEF o
  <2>3. Len(o) <= MaxLoads
    BY <1>2, <2>2
  <2>4. QED
    BY <1>1, <1>5, <2>2, <2>3 DEF o
<1>6. QED
  BY <1>7, <1>4, <1>5 DEF Views!Pages

\* What an open page rests on, before anything has come.
LEMMA ViewFresh ==
    ASSUME Views!ConstantsAssumption, view' \in Views!Pages, viewLoads' = Views!Opened(view', 30),
           days' = 30, viewFresh' = FALSE
    PROVE  ViewLast' /\ ViewUsage' /\ ViewBill' /\ ViewDashboard'
<1>1. /\ view' # "dashboard" =>
            /\ Len(viewLoads') = 1 /\ (view' = "usage" => viewLoads'[1].of = 30)
            /\ viewLoads'[1].got = None
      /\ view' = "dashboard" => \A i \in DOMAIN viewLoads' : viewLoads'[i].of \in {0, 30}
      /\ DOMAIN viewLoads' = 1 .. Len(viewLoads')
  BY ViewOpened
<1>2. QED
  BY <1>1 DEF ViewLast, ViewUsage, ViewBill, ViewDashboard

LEMMA ViewOpenStep ==
    ASSUME Views!ConstantsAssumption, ViewInv, NEW p \in Views!Pages, Views!Open(p)
    PROVE  ViewInv'
<1>1. /\ view' = p /\ viewLoads' = Views!Opened(p, 30) /\ days' = 30 /\ data' = 0
      /\ parts' = {} /\ shown' = FALSE /\ bill' = None /\ viewFresh' = FALSE
      /\ UNCHANGED <<subscribed, open, moved, viewCrowded>>
      /\ ask \in [Views!Askers -> {"no", "asked", "checked", "made"}]
  BY DEF Views!Open, ViewInv, Views!TypeOK
<1>2. \/ ask["page"] = "no" /\ ask' = ask
      \/ /\ ask["page"] # "no" /\ ask["other"] = "no"
         /\ ask' = [ask EXCEPT !["page"] = "no", !["other"] = ask["page"]]
  BY DEF Views!Open
<1>3. /\ ask' \in [Views!Askers -> {"no", "asked", "checked", "made"}]
      /\ ask'["page"] = "no"
      /\ ask'["other"] # "no" =>
            \E a \in Views!Askers : ask[a] = ask'["other"]
  BY <1>1, <1>2 DEF Views!Askers
<1>4. ViewAsks' /\ ViewChecked'
  BY <1>1, <1>3 DEF ViewInv, ViewAsks, ViewChecked, Views!Askers
<1>5. /\ viewLoads' \in Seq([of: Ranges \cup {0}, got: Views!Bills \cup {None}, last: BOOLEAN])
      /\ Len(viewLoads') <= MaxLoads
  BY <1>1, ViewOpened DEF ViewLoad, ViewOf
<1>6. Views!TypeOK'
  BY <1>1, <1>3, <1>5 DEF ViewInv, Views!TypeOK, Views!ConstantsAssumption
<1>7. ViewLast' /\ ViewUsage' /\ ViewBill' /\ ViewDashboard'
  BY <1>1, ViewFresh
<1>8. QED
  BY <1>4, <1>6, <1>7 DEF ViewInv

LEMMA ViewInvInit ==
    ASSUME Views!ConstantsAssumption PROVE Views!Init => ViewInv
<1> SUFFICES ASSUME Views!Init PROVE ViewInv
  OBVIOUS
<1>1. /\ view \in Views!Pages /\ viewLoads = Views!Opened(view, 30) /\ days = 30 /\ viewFresh = FALSE
      /\ open = 0 /\ \A a \in Views!Askers : ask[a] = "no"
  BY DEF Views!Init, Views!Pages
<1>2. /\ viewLoads \in Seq([of: Ranges \cup {0}, got: Views!Bills \cup {None}, last: BOOLEAN])
      /\ Len(viewLoads) <= MaxLoads
      /\ \A i \in DOMAIN viewLoads : viewLoads[i].of \in {0, 30}
  <2>1. view = "dashboard"
    BY DEF Views!Init
  <2>2. QED
    BY <1>1, <2>1, ViewOpened DEF ViewLoad, ViewOf
<1>3. Views!TypeOK
  <2>1. /\ days \in Ranges /\ data \in Ranges \cup {0} /\ open \in 0 .. MaxOpen
        /\ parts \subseteq {0, 30} /\ ask \in [Views!Askers -> {"no", "asked", "checked", "made"}]
    BY DEF Views!Init, Views!ConstantsAssumption
  <2>2. /\ shown \in BOOLEAN /\ bill \in Views!Bills \cup {None} /\ subscribed \in BOOLEAN
        /\ {viewFresh, moved, viewCrowded} \subseteq BOOLEAN
    BY Zenon DEF Views!Init
  <2>3. QED
    BY <1>1, <1>2, <2>1, <2>2 DEF Views!TypeOK
<1>4. ViewLast /\ ViewUsage /\ ViewBill /\ ViewDashboard
  BY <1>2 DEF Views!Init, ViewLast, ViewUsage, ViewBill, ViewDashboard
<1>5. ViewAsks /\ ViewChecked
  BY <1>1 DEF ViewAsks, ViewChecked, Views!Askers
<1>6. QED
  BY <1>3, <1>4, <1>5 DEF ViewInv

LEMMA ViewInvStep ==
    ASSUME Views!ConstantsAssumption PROVE ViewInv /\ [Views!Next]_Views!vars => ViewInv'
<1> SUFFICES ASSUME ViewInv, [Views!Next]_Views!vars PROVE ViewInv'
  OBVIOUS
<1>1. CASE Views!Next
  BY <1>1, ViewOpenStep, ViewDaysStep, ViewFailsStep, ViewUsageStep,
     ViewDashboardStep,
     ViewReadStep, ViewBillStep, ViewRequestStep, ViewCheckedStep, ViewCreatedStep,
     ViewAcceptedStep, ViewRefusedStep, ViewStaffStep DEF Views!Next
<1>2. CASE UNCHANGED Views!vars
  <2>1. UNCHANGED <<view, viewLoads, days, Views!shows, data, parts, shown, bill, Views!account,
                    subscribed, open, ask, viewFresh, moved, viewCrowded>>
    BY <1>2 DEF Views!vars, Views!shows, Views!account, Views!observed
  <2>2. (ViewQuiet' => ViewQuiet /\ Views!Bill' = Views!Bill)
    BY <2>1 DEF ViewQuiet, Views!Bill
  <2>3. Views!TypeOK'
    BY <2>1 DEF ViewInv, Views!TypeOK
  <2>4. QED
    BY <2>1, <2>2, <2>3, ViewPagesRest, ViewAccountRests DEF ViewInv
<1>3. QED
  BY <1>1, <1>2

-----------------------------------------------------------------------------
(***************************************************************************)
(* UsageChart, for the ranges of the page: the labels of 7 days are all    *)
(* there, of 30 every fifth, of 90 every fifteenth.                        *)
(***************************************************************************)
LEMMA ViewChart ==
    ASSUME NEW n \in {7, 30, 90}
    PROVE  Views!ChartRight(n)
<1>1. n \in Nat /\ n >= 7 /\ n + 2 * n <= 672
  OBVIOUS
<1>2. \A i \in 0 .. n - 1 : Views!BarRight(n, i) = 40 * n + 672 * i + n + 672 - 2 * n
  BY <1>1 DEF Views!BarRight, Views!BarLeft
<1>3. Views!BarRight(n, n - 1) <= 720 * n
  BY <1>2
<1>4. ASSUME NEW i \in 0 .. n - 2 PROVE Views!BarRight(n, i) <= Views!BarLeft(n, i + 1)
  BY <1>2 DEF Views!BarLeft
<1>5. ASSUME NEW i \in Views!Labels(n), NEW j \in Views!Labels(n), i < j
      PROVE  Views!LabelAt(n, j) - Views!LabelAt(n, i) >= 40 * n
  <2>1. Views!LabelAt(n, j) - Views!LabelAt(n, i) = 672 * (j - i)
    BY DEF Views!LabelAt, Views!Labels
  <2>2. CASE n = 7
    BY <1>5, <2>1, <2>2 DEF Views!Labels
  <2>3. CASE n = 30
    <3>1. Views!Ceil(n, 6) = 5
      BY <2>3 DEF Views!Ceil
    <3>2. /\ i \in 0 .. 29 /\ (i = 0 \/ i = 29 \/ i % 5 = 0)
          /\ j \in 0 .. 29 /\ (j = 0 \/ j = 29 \/ j % 5 = 0)
      BY <2>3, <3>1 DEF Views!Labels
    <3>3. j - i >= 2
      BY <1>5, <3>2
    <3>4. QED
      BY <2>1, <2>3, <3>2, <3>3
  <2>4. CASE n = 90
    <3>1. Views!Ceil(n, 6) = 15
      BY <2>4 DEF Views!Ceil
    <3>2. /\ i \in 0 .. 89 /\ (i = 0 \/ i = 89 \/ i % 15 = 0)
          /\ j \in 0 .. 89 /\ (j = 0 \/ j = 89 \/ j % 15 = 0)
      BY <2>4, <3>1 DEF Views!Labels
    <3>3. j - i >= 6
      BY <1>5, <3>2
    <3>4. QED
      BY <2>1, <2>4, <3>2, <3>3
  <2>5. QED
    BY <2>2, <2>3, <2>4
<1>6. QED
  BY <1>3, <1>4, <1>5 DEF Views!ChartRight

LEMMA ViewInvariant ==
    ASSUME Views!ConstantsAssumption PROVE Views!Spec => []ViewInv
BY ViewInvInit, ViewInvStep, PTL DEF Views!Spec

-----------------------------------------------------------------------------
\* Every variable of the pages keeps its type.
THEOREM ViewTypeCorrect ==
    ASSUME Views!ConstantsAssumption PROVE Views!Spec => []Views!TypeOK
<1>1. ViewInv => Views!TypeOK
  BY DEF ViewInv
<1>2. QED
  BY <1>1, ViewInvariant, PTL

(***************************************************************************)
(* handleSubscribeRequest looks for a request before it inserts one: two   *)
(* are open only if two askers looked before either had inserted.          *)
(***************************************************************************)
THEOREM ViewRequestCorrect ==
    ASSUME Views!ConstantsAssumption PROVE Views!Spec => []Views!OneRequest
<1>1. ViewInv => Views!OneRequest
  BY DEF ViewInv, ViewChecked, Views!OneRequest
<1>2. QED
  BY <1>1, ViewInvariant, PTL

(***************************************************************************)
(* The usage page at rest shows the range that is lit, however often the   *)
(* range was changed while answers were on their way, in a chart that fits.*)
(***************************************************************************)
THEOREM ViewUsageCorrect ==
    ASSUME Views!ConstantsAssumption, Ranges \subseteq {7, 30, 90}
    PROVE  Views!Spec => []Views!UsageRight
<1>1. ASSUME ViewInv PROVE Views!UsageRight
  BY <1>1, ViewChart DEF ViewInv, Views!TypeOK, ViewUsage, Views!UsageRight
<1>2. QED
  BY <1>1, ViewInvariant, PTL

(***************************************************************************)
(* The billing page at rest shows the account there is, unless somebody    *)
(* else changed it or the page was not told of its own request.            *)
(***************************************************************************)
THEOREM ViewBillCorrect ==
    ASSUME Views!ConstantsAssumption PROVE Views!Spec => []Views!BillRight
<1>1. ASSUME ViewInv PROVE Views!BillRight
  BY <1>1 DEF ViewInv, ViewBill, ViewQuiet, Views!BillRight
<1>2. QED
  BY <1>1, ViewInvariant, PTL

-----------------------------------------------------------------------------
(***************************************************************************)
(* The page of the keys.  A call that was counted has its room, while it   *)
(* is the only one; and the list that was asked for last is what the table *)
(* has, unless a call was carried out that the page does not know of yet.  *)
(***************************************************************************)
KeyCounted == {s \in Slots : calls[s] # None /\ calls[s].phase = "counted"}

KeyQuiet ==
    ~unheard /\ \A s \in Slots : calls[s] # None => calls[s].phase # "done"

KeyLists ==
    KeyQuiet =>
        /\ fresh => list = keys
        /\ \A i \in DOMAIN loads :
              loads[i].last /\ loads[i].rows # None => loads[i].rows = keys

KeyRoomInv ==
    /\ IsFiniteSet(ApiKeys!Active(keys))
    /\ ~crowded =>
          /\ Cardinality(ApiKeys!Active(keys)) <= MaxActive
          /\ KeyCounted # {} => Cardinality(ApiKeys!Active(keys)) < MaxActive
          /\ \A r, s \in KeyCounted : r = s

KeyInv == ApiKeys!TypeOK /\ KeyLists /\ KeyRoomInv

-----------------------------------------------------------------------------
\* The instance brings its own words for finite sets.
LEMMA KeySets ==
    ASSUME NEW S
    PROVE  ApiKeys!Cardinality(S) = Cardinality(S) /\ ApiKeys!IsFiniteSet(S) = IsFiniteSet(S)
BY DEF ApiKeys!Cardinality, Cardinality, ApiKeys!IsFiniteSet, IsFiniteSet

LEMMA KeyTypes ==
    ASSUME ApiKeys!ConstantsAssumption, ApiKeys!TypeOK
    PROVE  /\ keys \in ApiKeys!Lists /\ keys # None
           /\ ApiKeys!Active(keys) = {k \in Keys : keys[k] = "active"}
           /\ loads \in Seq(ApiKeys!Loads) /\ Len(loads) \in Nat
           /\ DOMAIN loads = 1 .. Len(loads)
           /\ \A i \in DOMAIN loads : loads[i] \in ApiKeys!Loads
           /\ \A s \in Slots : calls[s] = None \/ calls[s] \in ApiKeys!Calls
           /\ None \notin ApiKeys!Calls
<1>1. keys \in ApiKeys!Lists /\ None \notin ApiKeys!Lists /\ None \notin ApiKeys!Calls
  BY DEF ApiKeys!TypeOK, ApiKeys!ConstantsAssumption
<1>2. loads \in Seq(ApiKeys!Loads) /\ calls \in [Slots -> ApiKeys!Calls \cup {None}]
  BY DEF ApiKeys!TypeOK
<1>3. \A s \in Slots : calls[s] = None \/ calls[s] \in ApiKeys!Calls
  BY <1>2
<1>4. /\ Len(loads) \in Nat /\ DOMAIN loads = 1 .. Len(loads)
      /\ \A i \in DOMAIN loads : loads[i] \in ApiKeys!Loads
  BY <1>2
<1>5. ApiKeys!Active(keys) = {k \in Keys : keys[k] = "active"}
  BY <1>1 DEF ApiKeys!Active
<1>6. QED
  BY <1>1, <1>2, <1>3, <1>4, <1>5

\* A call and its phases.
LEMMA KeyPhases ==
    ASSUME NEW c \in ApiKeys!Calls, NEW p \in {"asked", "counted", "done"}
    PROVE  /\ [c EXCEPT !.phase = p] \in ApiKeys!Calls
           /\ [c EXCEPT !.phase = p].phase = p
BY DEF ApiKeys!Calls

-----------------------------------------------------------------------------
\* What is on its way, without one answer.
LEMMA KeyTaken ==
    ASSUME loads \in Seq(ApiKeys!Loads), NEW i \in DOMAIN loads, loads' = ApiKeys!Without(i)
    PROVE  /\ loads' \in Seq(ApiKeys!Loads) /\ Len(loads') = Len(loads) - 1
           /\ \A j \in DOMAIN loads' : \E k \in DOMAIN loads : loads'[j] = loads[k]
<1>1. i \in 1 .. Len(loads) /\ Len(loads) \in Nat /\ DOMAIN loads = 1 .. Len(loads)
  OBVIOUS
<1>2. /\ loads' \in Seq(ApiKeys!Loads) /\ Len(loads') = Len(loads) - 1
      /\ \A j \in DOMAIN loads' :
            loads'[j] = IF j < i THEN loads[j] ELSE loads[j + 1]
  BY ViewWithout DEF ApiKeys!Without
<1>3. DOMAIN loads' = 1 .. Len(loads) - 1
  BY <1>1, <1>2
<1>4. \A j \in 1 .. Len(loads) - 1 : j \in DOMAIN loads /\ j + 1 \in DOMAIN loads
  BY <1>1
<1>5. QED
  BY <1>2, <1>3, <1>4

\* Nothing of the table and of who has been counted.
LEMMA KeyRoomRests ==
    ASSUME KeyRoomInv, UNCHANGED <<keys, crowded>>, KeyCounted' \subseteq KeyCounted
    PROVE  KeyRoomInv'
<1>1. ApiKeys!Active(keys)' = ApiKeys!Active(keys)
  BY DEF ApiKeys!Active
<1>2. QED
  BY <1>1 DEF KeyRoomInv

\* A list that was asked for is what was asked for last.
LEMMA KeyListsStep ==
    ASSUME ApiKeys!ConstantsAssumption, KeyInv, NEW i \in DOMAIN loads,
           ApiKeys!ListKeys(i) \/ ApiKeys!ListArrives(i) \/ ApiKeys!ListFails(i)
    PROVE  KeyInv'
<1>1. /\ UNCHANGED <<keys, calls, showCreate, unheard, crowded>>
      /\ ApiKeys!TypeOK /\ KeyLists
  BY DEF ApiKeys!ListKeys, ApiKeys!ListArrives, ApiKeys!ListFails,
         ApiKeys!server, ApiKeys!observed, KeyInv
<1>2. /\ loads \in Seq(ApiKeys!Loads) /\ Len(loads) \in Nat /\ keys \in ApiKeys!Lists
      /\ Len(loads) <= MaxLoads /\ MaxLoads \in Nat
      /\ DOMAIN loads = 1 .. Len(loads)
      /\ \A j \in DOMAIN loads : loads[j] \in ApiKeys!Loads
  BY <1>1, KeyTypes DEF ApiKeys!TypeOK, ApiKeys!ConstantsAssumption
<1>3. KeyRoomInv'
  BY <1>1, KeyRoomRests DEF KeyInv, KeyCounted
<1>4. KeyQuiet' <=> KeyQuiet
  BY <1>1 DEF KeyQuiet
<1>5. CASE ApiKeys!ListKeys(i)
  <2>1. /\ loads' = [loads EXCEPT ![i].rows = keys] /\ list' = list /\ fresh' = fresh
    BY <1>5 DEF ApiKeys!ListKeys, ApiKeys!observed
  <2>2. /\ [loads[i] EXCEPT !.rows = keys] \in ApiKeys!Loads
        /\ [loads[i] EXCEPT !.rows = keys].rows = keys
        /\ [loads[i] EXCEPT !.rows = keys].last = loads[i].last
    BY <1>2 DEF ApiKeys!Loads
  <2>3. /\ loads' \in Seq(ApiKeys!Loads) /\ Len(loads') = Len(loads)
        /\ DOMAIN loads' = DOMAIN loads
        /\ \A j \in DOMAIN loads : /\ loads'[j].last = loads[j].last
                                   /\ j # i => loads'[j] = loads[j]
        /\ loads'[i].rows = keys
    BY <1>2, <2>1, <2>2
  <2>4. ApiKeys!TypeOK'
    BY <1>1, <2>1, <2>3 DEF ApiKeys!TypeOK
  <2>5. KeyLists'
    BY <1>1, <1>4, <2>1, <2>3 DEF KeyLists
  <2>6. QED
    BY <1>3, <2>4, <2>5 DEF KeyInv
<1>6. CASE ApiKeys!ListArrives(i)
  <2>1. /\ loads' = ApiKeys!Without(i) /\ list' = loads[i].rows /\ fresh' = loads[i].last
        /\ loads[i].rows # None
    BY <1>6 DEF ApiKeys!ListArrives
  <2>2. /\ loads' \in Seq(ApiKeys!Loads) /\ Len(loads') = Len(loads) - 1
        /\ \A j \in DOMAIN loads' : \E k \in DOMAIN loads : loads'[j] = loads[k]
    BY <1>2, <2>1, KeyTaken
  <2>3. Len(loads') <= MaxLoads
    BY <1>2, <2>2
  <2>4. list' \in ApiKeys!Lists /\ fresh' \in BOOLEAN
    BY <1>2, <2>1 DEF ApiKeys!Loads
  <2>5. ApiKeys!TypeOK'
    BY <1>1, <2>2, <2>3, <2>4 DEF ApiKeys!TypeOK
  <2>6. KeyLists'
    BY <1>1, <1>4, <2>1, <2>2 DEF KeyLists
  <2>7. QED
    BY <1>3, <2>5, <2>6 DEF KeyInv
<1>7. CASE ApiKeys!ListFails(i)
  <2>1. loads' = ApiKeys!Without(i) /\ list' = list /\ fresh' = fresh
    BY <1>7 DEF ApiKeys!ListFails, ApiKeys!observed
  <2>2. /\ loads' \in Seq(ApiKeys!Loads) /\ Len(loads') = Len(loads) - 1
        /\ \A j \in DOMAIN loads' : \E k \in DOMAIN loads : loads'[j] = loads[k]
    BY <1>2, <2>1, KeyTaken
  <2>3. Len(loads') <= MaxLoads
    BY <1>2, <2>2
  <2>4. ApiKeys!TypeOK'
    BY <1>1, <2>1, <2>2, <2>3 DEF ApiKeys!TypeOK
  <2>5. KeyLists'
    BY <1>1, <1>4, <2>1, <2>2 DEF KeyLists
  <2>6. QED
    BY <1>3, <2>4, <2>5 DEF KeyInv
<1>8. QED
  BY <1>5, <1>6, <1>7

\* The form opens and closes.
LEMMA KeyFormStep ==
    ASSUME KeyInv, ApiKeys!OpenCreate \/ ApiKeys!CloseCreate
    PROVE  KeyInv'
<1>1. /\ UNCHANGED <<keys, calls, list, loads, fresh, unheard, crowded>>
      /\ showCreate' \in {"closed", "open"}
  BY DEF ApiKeys!OpenCreate, ApiKeys!CloseCreate, ApiKeys!server,
         ApiKeys!observed
<1>2. ApiKeys!TypeOK'
  BY <1>1 DEF KeyInv, ApiKeys!TypeOK
<1>3. KeyRoomInv'
  BY <1>1, KeyRoomRests DEF KeyInv, KeyCounted
<1>4. KeyLists'
  BY <1>1 DEF KeyInv, KeyLists, KeyQuiet
<1>5. QED
  BY <1>2, <1>3, <1>4 DEF KeyInv

\* A call is sent.
LEMMA KeyCallStep ==
    ASSUME ApiKeys!ConstantsAssumption, KeyInv, NEW op \in {"create", "rotate", "revoke"},
           NEW k \in Keys \cup {None}, ApiKeys!Call(op, k),
           UNCHANGED <<keys, list, loads, ApiKeys!observed>>
    PROVE  KeyInv'
<1>1. PICK s \in Slots :
         /\ calls[s] = None
         /\ calls' = [calls EXCEPT ![s] = [op |-> op, key |-> k, phase |-> "asked"]]
         /\ showCreate' = IF op = "create" THEN s ELSE showCreate
  BY DEF ApiKeys!Call
<1>2. /\ UNCHANGED <<keys, list, loads, fresh, unheard, crowded>>
      /\ calls \in [Slots -> ApiKeys!Calls \cup {None}] /\ None \notin ApiKeys!Calls
  BY DEF ApiKeys!observed, KeyInv, ApiKeys!TypeOK, ApiKeys!ConstantsAssumption
<1>3. [op |-> op, key |-> k, phase |-> "asked"] \in ApiKeys!Calls
  BY DEF ApiKeys!Calls
<1>4. /\ calls' \in [Slots -> ApiKeys!Calls \cup {None}]
      /\ \A r \in Slots : r # s => calls'[r] = calls[r]
      /\ calls'[s] # None /\ calls'[s].phase = "asked"
  BY <1>1, <1>2, <1>3
<1>5. ApiKeys!TypeOK'
  BY <1>1, <1>2, <1>4 DEF KeyInv, ApiKeys!TypeOK
<1>6. KeyRoomInv'
  BY <1>2, <1>4, KeyRoomRests DEF KeyInv, KeyCounted
<1>7. KeyLists'
  BY <1>1, <1>2, <1>4 DEF KeyInv, KeyLists, KeyQuiet
<1>8. QED
  BY <1>5, <1>6, <1>7 DEF KeyInv

\* A call goes on to its next phase.
LEMMA KeyOutcome ==
    ASSUME ApiKeys!ConstantsAssumption, ApiKeys!TypeOK, NEW s \in Slots, calls[s] # None,
           NEW p \in {"asked", "counted", "done"}, ApiKeys!Outcome(s, p)
    PROVE  /\ calls' \in [Slots -> ApiKeys!Calls \cup {None}]
           /\ \A r \in Slots : r # s => calls'[r] = calls[r]
           /\ calls'[s] # None /\ calls'[s].phase = p
<1>1. /\ calls \in [Slots -> ApiKeys!Calls \cup {None}] /\ calls[s] \in ApiKeys!Calls
      /\ None \notin ApiKeys!Calls
      /\ calls' = [calls EXCEPT ![s] = [calls[s] EXCEPT !.phase = p]]
  BY KeyTypes DEF ApiKeys!TypeOK, ApiKeys!Outcome
<1>2. [calls[s] EXCEPT !.phase = p] \in ApiKeys!Calls /\ [calls[s] EXCEPT !.phase = p].phase = p
  BY <1>1, KeyPhases
<1>3. QED
  BY <1>1, <1>2

\* keyRoom: there is room, and who else was counted makes it crowded.
LEMMA KeyRoomStep ==
    ASSUME ApiKeys!ConstantsAssumption, KeyInv, NEW s \in Slots, ApiKeys!keyRoom(s)
    PROVE  KeyInv'
<1>1. /\ calls[s] # None /\ calls[s].phase = "asked"
      /\ Cardinality(ApiKeys!Active(keys)) < MaxActive /\ ApiKeys!Outcome(s, "counted")
      /\ crowded' = (crowded \/ \E r \in Slots : calls[r] # None
                                                 /\ calls[r].phase = "counted")
      /\ UNCHANGED <<keys, list, loads, showCreate, fresh, unheard>>
  BY KeySets DEF ApiKeys!keyRoom, ApiKeys!Asked, ApiKeys!Room, ApiKeys!Counted,
         ApiKeys!page
<1>2. /\ calls' \in [Slots -> ApiKeys!Calls \cup {None}]
      /\ \A r \in Slots : r # s => calls'[r] = calls[r]
      /\ calls'[s] # None /\ calls'[s].phase = "counted"
  BY <1>1, KeyOutcome DEF KeyInv
<1>3. crowded' \in BOOLEAN /\ (~crowded' => ~crowded /\ KeyCounted = {})
  BY <1>1, Zenon DEF KeyCounted
<1>4. ApiKeys!TypeOK'
  BY <1>1, <1>2, <1>3 DEF KeyInv, ApiKeys!TypeOK
<1>5. KeyLists'
  BY <1>1, <1>2 DEF KeyInv, KeyLists, KeyQuiet
<1>6. KeyRoomInv'
  <2>1. ApiKeys!Active(keys)' = ApiKeys!Active(keys)
    BY <1>1 DEF ApiKeys!Active
  <2>2. KeyCounted = {} => KeyCounted' = {s}
    BY <1>2 DEF KeyCounted
  <2>3. QED
    BY <1>1, <1>3, <2>1, <2>2 DEF KeyInv, KeyRoomInv
<1>7. QED
  BY <1>4, <1>5, <1>6 DEF KeyInv

\* A key is made by a call that was counted.
LEMMA KeyMadeStep ==
    ASSUME ApiKeys!ConstantsAssumption, KeyInv, NEW s \in Slots, calls[s] # None,
           calls[s].phase = "counted", NEW k \in Keys, ApiKeys!Made(s, k)
    PROVE  KeyInv'
<1>1. /\ keys[k] = "none" /\ keys' = [keys EXCEPT ![k] = "active"]
      /\ ApiKeys!Outcome(s, "done")
      /\ UNCHANGED <<list, loads, showCreate, fresh, unheard, crowded>>
  BY DEF ApiKeys!Made, ApiKeys!page, ApiKeys!observed
<1>2. /\ calls' \in [Slots -> ApiKeys!Calls \cup {None}]
      /\ \A r \in Slots : r # s => calls'[r] = calls[r]
      /\ calls'[s] # None /\ calls'[s].phase = "done"
  BY <1>1, KeyOutcome DEF KeyInv
<1>3. keys \in [Keys -> ApiKeys!Statuses] /\ keys' \in ApiKeys!Lists
  BY <1>1 DEF KeyInv, ApiKeys!TypeOK, ApiKeys!Lists, ApiKeys!Statuses
<1>4. ApiKeys!TypeOK'
  BY <1>1, <1>2, <1>3 DEF KeyInv, ApiKeys!TypeOK
<1>5. KeyLists'
  BY <1>2 DEF KeyLists, KeyQuiet
<1>6. KeyRoomInv'
  <2>1. ApiKeys!Active(keys)' = ApiKeys!Active(keys) \cup {k} /\ k \notin ApiKeys!Active(keys)
    <3>1. keys # None /\ keys' # None
      BY <1>3 DEF ApiKeys!ConstantsAssumption, KeyInv, ApiKeys!TypeOK
    <3>2. QED
      BY <1>1, <1>3, <3>1 DEF ApiKeys!Active
  <2>2. /\ IsFiniteSet(ApiKeys!Active(keys)') /\ Cardinality(ApiKeys!Active(keys)) \in Nat
        /\ Cardinality(ApiKeys!Active(keys)') = Cardinality(ApiKeys!Active(keys)) + 1
    BY <2>1, FS_AddElement, FS_CardinalityType DEF KeyInv, KeyRoomInv
  <2>3. s \in KeyCounted
    BY DEF KeyCounted
  <2>4. ~crowded => KeyCounted' = {} /\ Cardinality(ApiKeys!Active(keys)') <= MaxActive
    <3>1. KeyCounted' \subseteq KeyCounted \ {s}
      BY <1>2 DEF KeyCounted
    <3>2. QED
      BY <2>2, <2>3, <3>1 DEF KeyInv, KeyRoomInv, ApiKeys!ConstantsAssumption
  <2>5. QED
    BY <1>1, <2>2, <2>4 DEF KeyRoomInv
<1>7. QED
  BY <1>4, <1>5, <1>6 DEF KeyInv

LEMMA KeyRevokeStep ==
    ASSUME ApiKeys!ConstantsAssumption, KeyInv, NEW s \in Slots, ApiKeys!RevokeKey(s)
    PROVE  KeyInv'
<1>1. /\ calls[s] # None /\ ApiKeys!Outcome(s, "done")
      /\ keys' = [keys EXCEPT ![calls[s].key] = "revoked"]
      /\ UNCHANGED <<list, loads, showCreate, fresh, unheard, crowded>>
  BY DEF ApiKeys!RevokeKey, ApiKeys!Asked, ApiKeys!page, ApiKeys!observed
<1>2. /\ calls' \in [Slots -> ApiKeys!Calls \cup {None}]
      /\ \A r \in Slots : r # s => calls'[r] = calls[r]
      /\ calls'[s] # None /\ calls'[s].phase = "done"
  BY <1>1, KeyOutcome DEF KeyInv
<1>3. keys \in [Keys -> ApiKeys!Statuses] /\ keys' \in ApiKeys!Lists
  BY <1>1 DEF KeyInv, ApiKeys!TypeOK, ApiKeys!Lists, ApiKeys!Statuses
<1>4. ApiKeys!TypeOK'
  BY <1>1, <1>2, <1>3 DEF KeyInv, ApiKeys!TypeOK
<1>5. KeyLists'
  BY <1>2 DEF KeyLists, KeyQuiet
<1>6. KeyRoomInv'
  <2>1. ApiKeys!Active(keys)' \subseteq ApiKeys!Active(keys) /\ KeyCounted' \subseteq KeyCounted
    <3>1. keys # None /\ keys' # None
      BY <1>3 DEF ApiKeys!ConstantsAssumption, KeyInv, ApiKeys!TypeOK
    <3>2. QED
      BY <1>1, <1>2, <1>3, <3>1 DEF ApiKeys!Active, KeyCounted
  <2>2. /\ IsFiniteSet(ApiKeys!Active(keys)') /\ Cardinality(ApiKeys!Active(keys)) \in Nat
        /\ Cardinality(ApiKeys!Active(keys)') \in Nat
        /\ Cardinality(ApiKeys!Active(keys)') <= Cardinality(ApiKeys!Active(keys))
    BY <2>1, FS_Subset, FS_CardinalityType DEF KeyInv, KeyRoomInv
  <2>3. QED
    BY <1>1, <2>1, <2>2 DEF KeyInv, KeyRoomInv, ApiKeys!ConstantsAssumption
<1>7. QED
  BY <1>4, <1>5, <1>6 DEF KeyInv

\* A call ends: the slot is free.
LEMMA KeyFree ==
    ASSUME ApiKeys!ConstantsAssumption, KeyInv, NEW s \in Slots,
           calls' = [calls EXCEPT ![s] = None], UNCHANGED <<keys, crowded>>
    PROVE  /\ calls' \in [Slots -> ApiKeys!Calls \cup {None}]
           /\ \A r \in Slots : calls'[r] = IF r = s THEN None ELSE calls[r]
           /\ KeyRoomInv'
<1>1. /\ calls' \in [Slots -> ApiKeys!Calls \cup {None}]
      /\ \A r \in Slots : calls'[r] = IF r = s THEN None ELSE calls[r]
  BY DEF KeyInv, ApiKeys!TypeOK
<1>2. KeyCounted' \subseteq KeyCounted
  BY <1>1 DEF KeyCounted
<1>3. QED
  BY <1>1, <1>2, KeyRoomRests DEF KeyInv

LEMMA KeySucceedsStep ==
    ASSUME ApiKeys!ConstantsAssumption, KeyInv, NEW s \in Slots, ApiKeys!Succeeds(s)
    PROVE  KeyInv'
<1> DEFINE older == [i \in DOMAIN loads |-> [loads[i] EXCEPT !.last = FALSE]]
           one == [rows |-> None, last |-> TRUE]
<1>1. /\ calls' = [calls EXCEPT ![s] = None] /\ Len(loads) < MaxLoads
      /\ loads' = Append(older, one) /\ fresh' = FALSE /\ unheard' = FALSE
      /\ showCreate' \in {"closed", showCreate}
      /\ UNCHANGED <<keys, list, crowded>>
  BY DEF ApiKeys!Succeeds, ApiKeys!Ask
<1>2. /\ calls' \in [Slots -> ApiKeys!Calls \cup {None}] /\ KeyRoomInv'
  BY <1>1, KeyFree
<1>3. /\ loads \in Seq(ApiKeys!Loads) /\ Len(loads) \in Nat /\ MaxLoads \in Nat
      /\ DOMAIN loads = 1 .. Len(loads)
      /\ \A j \in DOMAIN loads : loads[j] \in ApiKeys!Loads
  BY KeyTypes DEF KeyInv, ApiKeys!ConstantsAssumption
<1>4. older \in Seq(ApiKeys!Loads) /\ Len(older) = Len(loads)
      /\ \A j \in DOMAIN older : older[j].last = FALSE
  <2>1. ASSUME NEW x \in ApiKeys!Loads
        PROVE  [x EXCEPT !.last = FALSE] \in ApiKeys!Loads /\ [x EXCEPT !.last = FALSE].last = FALSE
    BY DEF ApiKeys!Loads
  <2>2. \A j \in DOMAIN loads : /\ [loads[j] EXCEPT !.last = FALSE] \in ApiKeys!Loads
                                /\ [loads[j] EXCEPT !.last = FALSE].last = FALSE
    BY <1>3, <2>1
  <2>3. older \in [1 .. Len(loads) -> ApiKeys!Loads] /\ \A j \in DOMAIN older : older[j].last = FALSE
    BY <1>3, <2>2
  <2>4. QED
    BY <1>3, <2>3
<1>5. one \in ApiKeys!Loads /\ one.rows = None
  BY DEF ApiKeys!Loads
<1> HIDE DEF older, one
<1>6. /\ loads' \in Seq(ApiKeys!Loads) /\ Len(loads') = Len(loads) + 1
      /\ \A j \in DOMAIN loads' : loads'[j].last => loads'[j].rows = None
  BY <1>1, <1>3, <1>4, <1>5
<1>7. Len(loads') <= MaxLoads
  BY <1>1, <1>3, <1>6
<1>8. ApiKeys!TypeOK'
  BY <1>1, <1>2, <1>6, <1>7 DEF KeyInv, ApiKeys!TypeOK
<1>9. KeyLists'
  BY <1>1, <1>6 DEF KeyLists
<1>10. QED
  BY <1>2, <1>8, <1>9 DEF KeyInv

LEMMA KeyFailsStep ==
    ASSUME ApiKeys!ConstantsAssumption, KeyInv, NEW s \in Slots, ApiKeys!Fails(s)
    PROVE  KeyInv'
<1>1. /\ calls[s] # None /\ calls' = [calls EXCEPT ![s] = None]
      /\ unheard' = (unheard \/ calls[s].phase = "done")
      /\ showCreate' \in {"open", showCreate}
      /\ UNCHANGED <<keys, list, loads, fresh, crowded>>
  BY DEF ApiKeys!Fails, ApiKeys!Settled
<1>2. /\ calls' \in [Slots -> ApiKeys!Calls \cup {None}] /\ KeyRoomInv'
      /\ \A r \in Slots : calls'[r] = IF r = s THEN None ELSE calls[r]
  BY <1>1, KeyFree
<1>3. unheard' \in BOOLEAN /\ (~unheard' => ~unheard /\ calls[s].phase # "done")
  BY <1>1, Zenon
<1>4. ApiKeys!TypeOK'
  BY <1>1, <1>2, <1>3 DEF KeyInv, ApiKeys!TypeOK
<1>5. KeyQuiet' => KeyQuiet
  BY <1>2, <1>3 DEF KeyQuiet
<1>6. KeyLists'
  BY <1>1, <1>5 DEF KeyInv, KeyLists
<1>7. QED
  BY <1>2, <1>4, <1>6 DEF KeyInv

LEMMA KeyInvInit ==
    ASSUME ApiKeys!ConstantsAssumption PROVE ApiKeys!Init => KeyInv
<1> SUFFICES ASSUME ApiKeys!Init PROVE KeyInv
  OBVIOUS
<1> DEFINE one == [rows |-> None, last |-> TRUE]
<1>1. /\ keys \in ApiKeys!Lists /\ keys # None /\ calls \in [Slots -> ApiKeys!Calls \cup {None}]
      /\ list \in ApiKeys!Lists \cup {None} /\ showCreate \in {"closed", "open"} \cup Slots
      /\ \A k \in Keys : keys[k] = "none"
      /\ \A s \in Slots : calls[s] = None
  BY DEF ApiKeys!Init, ApiKeys!Lists, ApiKeys!Statuses,
         ApiKeys!ConstantsAssumption
<1>2. loads = <<one>> /\ one \in ApiKeys!Loads /\ one.rows = None
  BY DEF ApiKeys!Init, ApiKeys!Loads
<1>3. {fresh, unheard, crowded} \subseteq BOOLEAN /\ ~fresh
  BY Zenon DEF ApiKeys!Init
<1> HIDE DEF one
<1>4. /\ loads \in Seq(ApiKeys!Loads) /\ Len(loads) = 1
      /\ \A i \in DOMAIN loads : loads[i].rows = None
  BY <1>2
<1>5. ApiKeys!TypeOK
  BY <1>1, <1>3, <1>4 DEF ApiKeys!TypeOK, ApiKeys!ConstantsAssumption
<1>6. KeyLists
  BY <1>3, <1>4 DEF KeyLists
<1>7. KeyRoomInv
  <2>1. ApiKeys!Active(keys) = {} /\ KeyCounted = {}
    BY <1>1 DEF ApiKeys!Active, KeyCounted
  <2>2. QED
    BY <2>1, FS_EmptySet DEF KeyRoomInv, ApiKeys!ConstantsAssumption
<1>8. QED
  BY <1>5, <1>6, <1>7 DEF KeyInv

LEMMA KeyInvStep ==
    ASSUME ApiKeys!ConstantsAssumption PROVE KeyInv /\ [ApiKeys!Next]_ApiKeys!vars => KeyInv'
<1> SUFFICES ASSUME KeyInv, [ApiKeys!Next]_ApiKeys!vars PROVE KeyInv'
  OBVIOUS
<1>1. CASE ApiKeys!submit
  BY <1>1, KeyCallStep DEF ApiKeys!submit
<1>2. ASSUME NEW k \in Keys, NEW op \in {"rotate", "revoke"}, ApiKeys!Row(op, k)
      PROVE  KeyInv'
  BY <1>2, KeyCallStep DEF ApiKeys!Row
<1>3. ASSUME NEW s \in Slots, ApiKeys!CreateKey(s) \/ ApiKeys!RotateKey(s) PROVE KeyInv'
  BY <1>3, KeyMadeStep DEF ApiKeys!CreateKey, ApiKeys!RotateKey, ApiKeys!Asked
<1>4. CASE UNCHANGED ApiKeys!vars
  <2>1. UNCHANGED <<keys, calls, list, loads, showCreate, fresh, unheard, crowded>>
    BY <1>4 DEF ApiKeys!vars, ApiKeys!server, ApiKeys!page, ApiKeys!observed
  <2>2. ApiKeys!TypeOK'
    BY <2>1 DEF KeyInv, ApiKeys!TypeOK
  <2>3. KeyRoomInv'
    BY <2>1, KeyRoomRests DEF KeyInv, KeyCounted
  <2>4. KeyLists'
    BY <2>1 DEF KeyInv, KeyLists, KeyQuiet
  <2>5. QED
    BY <2>2, <2>3, <2>4 DEF KeyInv
<1>5. QED
  BY <1>1, <1>2, <1>3, <1>4, KeyListsStep, KeyFormStep, KeyRoomStep,
     KeyRevokeStep,
     KeySucceedsStep, KeyFailsStep DEF ApiKeys!Next

LEMMA KeyInvariant ==
    ASSUME ApiKeys!ConstantsAssumption PROVE ApiKeys!Spec => []KeyInv
BY KeyInvInit, KeyInvStep, PTL DEF ApiKeys!Spec

-----------------------------------------------------------------------------
\* Every variable of the page of the keys keeps its type.
THEOREM KeyTypeCorrect ==
    ASSUME ApiKeys!ConstantsAssumption PROVE ApiKeys!Spec => []ApiKeys!TypeOK
<1>1. KeyInv => ApiKeys!TypeOK
  BY DEF KeyInv
<1>2. QED
  BY <1>1, KeyInvariant, PTL

(***************************************************************************)
(* keyRoom counts before the key is inserted: an account has more active   *)
(* keys than it may only if two calls were counted together.               *)
(***************************************************************************)
THEOREM KeyLimitCorrect ==
    ASSUME ApiKeys!ConstantsAssumption PROVE ApiKeys!Spec => []ApiKeys!KeysBounded
<1>1. KeyInv => ApiKeys!KeysBounded
  BY KeySets DEF KeyInv, KeyRoomInv, ApiKeys!KeysBounded
<1>2. QED
  BY <1>1, KeyInvariant, PTL

(***************************************************************************)
(* The page at rest with the list it asked for last shows the table, in    *)
(* whatever order the lists came, unless an answer to a call was lost.     *)
(***************************************************************************)
THEOREM KeyListCorrect ==
    ASSUME ApiKeys!ConstantsAssumption PROVE ApiKeys!Spec => []ApiKeys!ListRight
<1>1. ASSUME KeyInv PROVE ApiKeys!ListRight
  BY <1>1 DEF KeyInv, KeyLists, KeyQuiet, ApiKeys!ListRight
<1>2. QED
  BY <1>1, KeyInvariant, PTL

-----------------------------------------------------------------------------
(***************************************************************************)
(* The shell of the documentation: its types.                              *)
(***************************************************************************)
DocsMenu ==
    /\ DOMAIN manual \subseteq Sections
    /\ drawer # None => DOMAIN drawer \subseteq Sections

DocsArticle == watched \subseteq Pages /\ heading \in 0 .. MaxHeadings

DocsCode == copied \in BOOLEAN /\ timers \in 0 .. MaxCopies

DocsInv ==
    /\ path \in Pages /\ asked \in Asks \cup {NoText} /\ found \in BOOLEAN
    /\ DocsMenu /\ DocsArticle /\ DocsCode

\* A section with items is a section.
LEMMA DocsItems == ASSUME NEW s, Items(s) # {} PROVE s \in Sections
BY DEF Items, Sections

LEMMA DocsToggled ==
    ASSUME NEW m, NEW s \in Sections, DOMAIN m \subseteq Sections
    PROVE  DOMAIN Toggled(m, s) \subseteq Sections
BY DEF Toggled

LEMMA DocsMenuStays ==
    ASSUME DocsInv, UNCHANGED <<manual, drawer>> PROVE DocsMenu'
BY DEF DocsInv, DocsMenu

\* The menu and the search do not touch the article.
LEMMA DocsStays ==
    ASSUME DocsInv, UNCHANGED <<path, article, code>>, DocsMenu',
           asked' \in Asks \cup {NoText}, found' \in BOOLEAN
    PROVE  DocsInv'
<1>1. UNCHANGED <<path, heading, watched, copied, timers>>
  BY DEF article, code
<1>2. DocsArticle' /\ DocsCode' /\ path' \in Pages
  BY <1>1 DEF DocsInv, DocsArticle, DocsCode
<1>3. QED
  BY <1>2 DEF DocsInv

\* A timer more or less.
LEMMA DocsBlock ==
    ASSUME ConstantsAssumption, NEW n
    PROVE  /\ 0 \in 0 .. MaxCopies
           /\ n \in 0 .. MaxCopies /\ n < MaxCopies => n + 1 \in 0 .. MaxCopies
           /\ n \in 0 .. MaxCopies /\ n > 0 => n - 1 \in 0 .. MaxCopies
BY DEF ConstantsAssumption

LEMMA DocsInvInit ==
    ASSUME ConstantsAssumption, Init PROVE DocsInv
<1>1. path \in Pages /\ asked \in Asks \cup {NoText} /\ found \in BOOLEAN
  BY DEF Init
<1>2. DocsMenu
  BY DEF Init, DocsMenu
<1>3. DocsArticle
  BY DEF Init, DocsArticle, ConstantsAssumption
<1>4. timers = 0 /\ copied = FALSE
  BY DEF Init
<1>5. DocsCode
  BY <1>4, DocsBlock, Zenon DEF DocsCode
<1>6. QED
  BY <1>1, <1>2, <1>3, <1>5 DEF DocsInv

LEMMA DocsArrive ==
    ASSUME ConstantsAssumption, DocsInv, NEW p \in Pages, Arrive(p),
           asked' \in Asks \cup {NoText}, found' \in BOOLEAN
    PROVE  DocsInv'
<1>1. UNCHANGED manual /\ path' = p
  BY DEF Arrive
<1>2. CASE p = path
  <2>1. UNCHANGED <<path, article, code, drawer>>
    BY <1>1, <1>2 DEF Arrive
  <2>2. QED
    BY <1>1, <2>1, DocsStays, DocsMenuStays
<1>3. CASE p # path
  <2>1. drawer' = None /\ heading' = 1 /\ watched' = {p} /\ copied' = FALSE /\ timers' = 0
    BY <1>3 DEF Arrive, useHeadings
  <2>2. DocsMenu'
    BY <1>1, <2>1 DEF DocsInv, DocsMenu
  <2>3. DocsArticle'
    BY <1>1, <2>1 DEF ConstantsAssumption, DocsArticle
  <2>4. DocsCode'
    BY <2>1, DocsBlock, Zenon DEF DocsCode
  <2>5. QED
    BY <1>1, <2>2, <2>3, <2>4 DEF DocsInv
<1>4. QED
  BY <1>2, <1>3

LEMMA DocsInvStep ==
    ASSUME ConstantsAssumption, DocsInv, [Next]_vars
    PROVE  DocsInv'
<1>1. /\ path \in Pages /\ asked \in Asks \cup {NoText} /\ found \in BOOLEAN
      /\ MaxCopies \in Nat /\ MaxHeadings \in Nat
  BY DEF ConstantsAssumption, DocsInv, TypeOK
<1>2. ASSUME NEW s \in Toggles, toggle(s) PROVE DocsInv'
  <2>1. /\ s \in Sections /\ UNCHANGED <<path, article, search, code>>
        /\ \/ manual' = Toggled(manual, s) /\ UNCHANGED drawer
           \/ drawer # None /\ drawer' = Toggled(drawer, s) /\ UNCHANGED manual
    BY <1>2, DocsItems DEF toggle
  <2>2. DocsMenu'
    BY <2>1, DocsToggled DEF DocsInv, DocsMenu
  <2>3. QED
    BY <1>1, <2>1, <2>2, DocsStays DEF search
<1>3. ASSUME NEW p \in Pages, follow(p) PROVE DocsInv'
  BY <1>1, <1>3, DocsArrive DEF follow, search
<1>4. ASSUME NEW h \in 1..MaxHeadings, observe(h) PROVE DocsInv'
  <2>1. /\ UNCHANGED <<path, manual, drawer, watched, asked, found, copied, timers>>
        /\ heading' = h \/ heading' = 0
    BY <1>4 DEF observe, search, code
  <2>2. DocsArticle' /\ DocsCode' /\ DocsMenu'
    BY <1>1, <2>1 DEF DocsInv, DocsArticle, DocsCode, DocsMenu
  <2>3. QED
    BY <1>1, <2>1, <2>2 DEF DocsInv
<1>5. ASSUME NEW q \in Asks, type(q) PROVE DocsInv'
  BY <1>5, DocsStays, DocsMenuStays DEF type
<1>6. ASSUME NEW i \in DOMAIN results, go(i) PROVE DocsInv'
  BY <1>6, DocsArrive DEF go
<1>7. ASSUME toggleDrawer PROVE DocsInv'
  <2>1. /\ UNCHANGED <<path, manual, article, search, code>>
        /\ drawer' = <<>> \/ drawer' = None
    BY <1>7 DEF toggleDrawer
  <2>2. DocsMenu'
    BY <2>1 DEF DocsInv, DocsMenu
  <2>3. QED
    BY <1>1, <2>1, <2>2, DocsStays DEF search
<1>8. ASSUME Escape \/ Focus PROVE DocsInv'
  BY <1>1, <1>8, DocsStays, DocsMenuStays DEF Escape, Focus
<1>9. ASSUME copy \/ putOut PROVE DocsInv'
  <2>1. /\ UNCHANGED <<path, manual, drawer, heading, watched, asked, found>>
        /\ \/ timers < MaxCopies /\ copied' = TRUE /\ timers' = timers + 1
           \/ timers > 0 /\ copied' = FALSE /\ timers' = timers - 1
    BY <1>9 DEF copy, putOut, article, search
  <2>2. timers \in 0 .. MaxCopies
    BY DEF DocsInv, DocsCode
  <2>3. timers' \in 0 .. MaxCopies /\ copied' \in BOOLEAN
    BY <2>1, <2>2, DocsBlock, Zenon
  <2>4. DocsArticle' /\ DocsMenu'
    BY <2>1 DEF DocsInv, DocsArticle, DocsMenu
  <2>5. QED
    BY <1>1, <2>1, <2>3, <2>4 DEF DocsInv, DocsCode
<1>10. ASSUME UNCHANGED vars PROVE DocsInv'
  BY <1>1, <1>10, DocsStays, DocsMenuStays DEF vars, article, code
<1>11. QED
  BY <1>2, <1>3, <1>4, <1>5, <1>6, <1>7, <1>8, <1>9, <1>10 DEF Next

\* Every variable has its type: only pages that exist are shown, and only
\* sections of the menu are opened and closed.
THEOREM DocsTypeCorrect == ASSUME ConstantsAssumption PROVE Spec => []TypeOK
<1>1. DocsInv => TypeOK
  BY DEF DocsInv, DocsMenu, DocsArticle, DocsCode, TypeOK
<1>2. QED
  BY <1>1, DocsInvInit, DocsInvStep, PTL DEF Spec

-----------------------------------------------------------------------------
(***************************************************************************)
(* The menu of the documentation.  It has no variable, and its tables are  *)
(* written out twice in nav.ts, as sections with their items and as the    *)
(* order of reading: that they fit is worked out here from the tables.     *)
(***************************************************************************)

\* What the addresses are made of.
DocsWords ==
    {"docs", "js", "general", "quickstart", "integration", "cdn", "npm", "react",
     "vue", "typescript", "nextjs", "api", "geocode", "reverse", "directions",
     "places", "places-by-id", "errors", "reference", "security", "keys",
     "domains", "ips", "csp", "billing", "usage", "plans", "invoices", "faq",
     "dashboard"}

LEMMA DocsAppended ==
    ASSUME NEW a \in DocsWords, NEW b \in DocsWords, NEW c \in DocsWords
    PROVE  Append(<<a, b>>, c) = <<a, b, c>> /\ <<a, b, c>> \in Seq(DocsWords)
<1> DEFINE s == <<a, b>>
           t == <<a, b, c>>
<1>1. /\ s \in Seq(DocsWords) /\ Len(s) = 2 /\ s[1] = a /\ s[2] = b
      /\ t \in Seq(DocsWords) /\ Len(t) = 3 /\ t[1] = a /\ t[2] = b /\ t[3] = c
  OBVIOUS
<1> HIDE DEF s, t
<1>2. /\ Append(s, c) \in Seq(DocsWords) /\ Len(Append(s, c)) = 3
      /\ Append(s, c)[1] = a /\ Append(s, c)[2] = b /\ Append(s, c)[3] = c
  <2>1. /\ Append(s, c) \in Seq(DocsWords) /\ Len(Append(s, c)) = Len(s) + 1
        /\ \A i \in 1 .. Len(s) : Append(s, c)[i] = s[i]
        /\ Append(s, c)[Len(s) + 1] = c
    <3>1. s \in Seq(DocsWords)
      BY <1>1
    <3>2. QED
      BY <3>1, AppendProperties
  <2>2. Len(s) + 1 = 3 /\ 1 \in 1 .. Len(s) /\ 2 \in 1 .. Len(s)
    BY <1>1
  <2>3. Append(s, c)[1] = s[1] /\ Append(s, c)[2] = s[2]
    BY <2>1, <2>2
  <2>4. QED
    BY <1>1, <2>1, <2>2, <2>3
<1>3. Len(Append(s, c)) = Len(t) /\ \A i \in 1 .. Len(t) : Append(s, c)[i] = t[i]
  BY <1>1, <1>2
<1>4. Append(s, c) = t
  BY <1>1, <1>2, <1>3, SeqEqual
<1>5. QED
  BY <1>1, <1>4 DEF s, t

DocsBelow(s, names) == {<<"docs", s, x>> : x \in names}

\* The items of a section are below it.
LEMMA DocsSection ==
    ASSUME NEW s \in DocsWords, NEW xs \in Seq(DocsWords)
    PROVE  LET sec == Section(<<"docs", s>>, xs) IN
           /\ sec.href = <<"docs", s>>
           /\ sec.items \in Seq(Seq(DocsWords))
           /\ Range(sec.items) = DocsBelow(s, Range(xs))
<1> DEFINE items == [i \in DOMAIN xs |-> Append(<<"docs", s>>, xs[i])]
<1>1. "docs" \in DocsWords
  BY DEF DocsWords
<1>2. DOMAIN xs = 1 .. Len(xs) /\ Len(xs) \in Nat /\ \A i \in DOMAIN xs : xs[i] \in DocsWords
  OBVIOUS
<1>3. ASSUME NEW i \in DOMAIN xs
      PROVE  items[i] = <<"docs", s, xs[i]>> /\ items[i] \in Seq(DocsWords)
  <2>1. xs[i] \in DocsWords
    BY <1>2
  <2>2. items[i] = Append(<<"docs", s>>, xs[i])
    OBVIOUS
  <2>3. QED
    BY <1>1, <2>1, <2>2, DocsAppended
<1>4. DOMAIN items = DOMAIN xs /\ Section(<<"docs", s>>, xs) = [href |-> <<"docs", s>>, items |-> items]
  BY DEF Section
<1>5. items \in [1 .. Len(xs) -> Seq(DocsWords)]
  <2>1. \A i \in DOMAIN xs : items[i] \in Seq(DocsWords)
    BY <1>3
  <2>2. QED
    BY <1>2, <2>1
<1> HIDE DEF items
<1>6. items \in Seq(Seq(DocsWords))
  BY <1>2, <1>5
<1>7. Range(items) = DocsBelow(s, Range(xs))
  BY <1>3, <1>4 DEF Range, DocsBelow
<1> DEFINE sec == Section(<<"docs", s>>, xs)
<1>8. sec.href = <<"docs", s>> /\ sec.items = items
  BY <1>4
<1>9. QED
  BY <1>6, <1>7, <1>8

LEMMA DocsPagesAre ==
    Pages = {<<"docs">>, <<"docs", "js">>, <<"docs", "integration">>, <<"docs", "api">>,
             <<"docs", "security">>, <<"docs", "billing">>, <<"docs", "faq">>,
             <<"docs", "api", "reference">>}
            \cup DocsBelow("js", {"general", "quickstart"})
            \cup DocsBelow("integration", {"cdn", "npm", "react", "vue", "typescript", "nextjs"})
            \cup DocsBelow("api", {"geocode", "reverse", "directions", "places",
                                   "places-by-id", "errors"})
            \cup DocsBelow("security", {"keys", "domains", "ips", "csp"})
            \cup DocsBelow("billing", {"usage", "plans", "invoices"})
<1>1. Pages = {DOCS_ORDER[i] : i \in 1 .. 29}
  <2>1. DOMAIN DOCS_ORDER = 1 .. 29
    BY DEF DOCS_ORDER
  <2>2. QED
    BY <2>1 DEF Pages, Range
<1>2. Pages = {<<"docs">>, <<"docs", "js">>, <<"docs", "js", "general">>,
       <<"docs", "js", "quickstart">>, <<"docs", "integration">>,
       <<"docs", "integration", "cdn">>, <<"docs", "integration", "npm">>,
       <<"docs", "integration", "react">>, <<"docs", "integration", "vue">>,
       <<"docs", "integration", "typescript">>, <<"docs", "integration", "nextjs">>,
       <<"docs", "api">>, <<"docs", "api", "geocode">>, <<"docs", "api", "reverse">>,
       <<"docs", "api", "directions">>, <<"docs", "api", "places">>,
       <<"docs", "api", "places-by-id">>, <<"docs", "api", "errors">>,
       <<"docs", "api", "reference">>, <<"docs", "security">>,
       <<"docs", "security", "keys">>, <<"docs", "security", "domains">>,
       <<"docs", "security", "ips">>, <<"docs", "security", "csp">>,
       <<"docs", "billing">>, <<"docs", "billing", "usage">>,
       <<"docs", "billing", "plans">>, <<"docs", "billing", "invoices">>,
       <<"docs", "faq">>}
  BY <1>1, SMTT(60) DEF DOCS_ORDER
<1>3. QED
  BY <1>2 DEF DocsBelow

LEMMA DocsRangeAppend ==
    ASSUME NEW S, NEW q \in Seq(S), NEW e \in S
    PROVE  Append(q, e) \in Seq(S) /\ Range(Append(q, e)) = Range(q) \cup {e}
<1> DEFINE n == Len(q)
           r == Append(q, e)
<1>1. n \in Nat /\ DOMAIN q = 1 .. n
  BY LenProperties
<1>2. /\ r \in Seq(S) /\ Len(r) = n + 1 /\ r[n + 1] = e
      /\ \A i \in 1 .. n : r[i] = q[i]
  BY AppendProperties
<1> HIDE DEF n, r
<1>3. DOMAIN r = 1 .. n + 1
  BY <1>2, LenProperties
<1>4. \A x : x \in Range(r) <=> x \in Range(q) \cup {e}
  BY <1>1, <1>2, <1>3 DEF Range
<1>5. QED
  BY <1>2, <1>4 DEF r

DocsRow(i, href, items) ==
    /\ DOCS_NAV[i].href = href
    /\ DOCS_NAV[i].items \in Seq(Seq(DocsWords)) /\ Range(DOCS_NAV[i].items) = items

\* A section without items.
LEMMA DocsBare ==
    ASSUME NEW h PROVE /\ Section(h, <<>>).href = h
                       /\ Section(h, <<>>).items \in Seq(Seq(DocsWords))
                       /\ Range(Section(h, <<>>).items) = {}
<1>1. Section(h, <<>>).href = h /\ Section(h, <<>>).items = <<>>
  BY DEF Section
<1>2. Range(<<>>) = {} /\ <<>> \in Seq(Seq(DocsWords))
  BY DEF Range
<1>3. QED
  BY <1>1, <1>2

\* The menu, written out.
LEMMA DocsMenuIs ==
    /\ DOMAIN DOCS_NAV = 1 .. 12
    /\ DocsRow(1, <<"docs">>, {})
    /\ DocsRow(2, <<"docs", "js">>, DocsBelow("js", {"general", "quickstart"}))
    /\ DocsRow(3, <<"docs", "integration">>,
               DocsBelow("integration", {"cdn", "npm", "react", "vue", "typescript", "nextjs"})
                   \cup {Csp})
    /\ DocsRow(4, <<"docs", "api">>,
               DocsBelow("api", {"geocode", "reverse", "directions", "places",
                                 "places-by-id", "errors"}))
    /\ DocsRow(5, <<"docs", "api", "reference">>, {})
    /\ DocsRow(6, <<"docs", "security">>,
               DocsBelow("security", {"keys", "domains", "ips", "csp"}))
    /\ DocsRow(7, <<"docs", "billing">>,
               DocsBelow("billing", {"usage", "plans", "invoices"}))
    /\ DocsRow(8, <<"docs", "faq">>, {})
    /\ DocsRow(9, <<"dashboard">>, {}) /\ DocsRow(10, <<"keys">>, {})
    /\ DocsRow(11, <<"usage">>, {}) /\ DocsRow(12, <<"billing">>, {})
<1>1. DOMAIN DOCS_NAV = 1 .. 12
  BY DEF DOCS_NAV
<1>2. DocsRow(1, <<"docs">>, {}) /\ DocsRow(5, <<"docs", "api", "reference">>, {})
  BY DocsBare DEF DocsRow, DOCS_NAV
<1>3. /\ DocsRow(8, <<"docs", "faq">>, {})
      /\ DocsRow(9, <<"dashboard">>, {}) /\ DocsRow(10, <<"keys">>, {})
      /\ DocsRow(11, <<"usage">>, {}) /\ DocsRow(12, <<"billing">>, {})
  BY DocsBare DEF DocsRow, DOCS_NAV
<1>4. DocsRow(2, <<"docs", "js">>, DocsBelow("js", {"general", "quickstart"}))
  <2> DEFINE xs == <<"general", "quickstart">>
  <2>1. xs \in Seq(DocsWords) /\ "js" \in DocsWords /\ Range(xs) = {"general", "quickstart"}
    BY DEF DocsWords, Range
  <2>2. DOCS_NAV[2] = Section(<<"docs", "js">>, xs)
    BY DEF DOCS_NAV
  <2>3. QED
    BY <2>1, <2>2, DocsSection DEF DocsRow
<1>5. DocsRow(4, <<"docs", "api">>,
               DocsBelow("api", {"geocode", "reverse", "directions", "places",
                                 "places-by-id", "errors"}))
  <2> DEFINE xs == <<"geocode", "reverse", "directions", "places", "places-by-id", "errors">>
  <2>1. /\ xs \in Seq(DocsWords) /\ "api" \in DocsWords
        /\ Range(xs) = {"geocode", "reverse", "directions", "places", "places-by-id", "errors"}
    BY DEF DocsWords, Range
  <2>2. DOCS_NAV[4] = Section(<<"docs", "api">>, xs)
    BY DEF DOCS_NAV
  <2>3. QED
    BY <2>1, <2>2, DocsSection DEF DocsRow
<1>6. DocsRow(6, <<"docs", "security">>, DocsBelow("security", {"keys", "domains", "ips", "csp"}))
  <2> DEFINE xs == <<"keys", "domains", "ips", "csp">>
  <2>1. /\ xs \in Seq(DocsWords) /\ "security" \in DocsWords
        /\ Range(xs) = {"keys", "domains", "ips", "csp"}
    BY DEF DocsWords, Range
  <2>2. DOCS_NAV[6] = Section(<<"docs", "security">>, xs)
    BY DEF DOCS_NAV
  <2>3. QED
    BY <2>1, <2>2, DocsSection DEF DocsRow
<1>7. DocsRow(7, <<"docs", "billing">>, DocsBelow("billing", {"usage", "plans", "invoices"}))
  <2> DEFINE xs == <<"usage", "plans", "invoices">>
  <2>1. /\ xs \in Seq(DocsWords) /\ "billing" \in DocsWords
        /\ Range(xs) = {"usage", "plans", "invoices"}
    BY DEF DocsWords, Range
  <2>2. DOCS_NAV[7] = Section(<<"docs", "billing">>, xs)
    BY DEF DOCS_NAV
  <2>3. QED
    BY <2>1, <2>2, DocsSection DEF DocsRow
<1>8. DocsRow(3, <<"docs", "integration">>,
               DocsBelow("integration", {"cdn", "npm", "react", "vue", "typescript", "nextjs"})
                   \cup {Csp})
  <2> DEFINE xs == <<"cdn", "npm", "react", "vue", "typescript", "nextjs">>
             sec == Section(<<"docs", "integration">>, xs)
  <2>1. /\ xs \in Seq(DocsWords) /\ "integration" \in DocsWords
        /\ Range(xs) = {"cdn", "npm", "react", "vue", "typescript", "nextjs"}
    BY DEF DocsWords, Range
  <2>2. DOCS_NAV[3].href = sec.href /\ DOCS_NAV[3].items = Append(sec.items, Csp)
    BY DEF DOCS_NAV, Integration, Section
  <2>3. /\ sec.href = <<"docs", "integration">> /\ sec.items \in Seq(Seq(DocsWords))
        /\ Range(sec.items) = DocsBelow("integration", {"cdn", "npm", "react", "vue", "typescript", "nextjs"})
    BY <2>1, DocsSection
  <2>4. Csp \in Seq(DocsWords)
    BY DEF Csp, DocsWords
  <2> DEFINE it == sec.items
  <2> HIDE DEF sec
  <2>5. \A q \in Seq(Seq(DocsWords)) : /\ Append(q, Csp) \in Seq(Seq(DocsWords))
                                       /\ Range(Append(q, Csp)) = Range(q) \cup {Csp}
    BY <2>4, DocsRangeAppend
  <2>6. QED
    BY <2>2, <2>3, <2>5 DEF DocsRow
<1>9. QED
  BY <1>1, <1>2, <1>3, <1>4, <1>5, <1>6, <1>7, <1>8

\* A sequence is a prefix of another one if it agrees with it as far as it goes.
LEMMA DocsPrefix ==
    ASSUME NEW S, NEW s \in Seq(S), NEW p \in Seq(S)
    PROVE  IsPrefix(s, p) <=> Len(s) <= Len(p) /\ \A i \in 1 .. Len(s) : s[i] = p[i]
<1>1. Len(s) \in Nat /\ Len(p) \in Nat
  OBVIOUS
<1>2. SubSeq(s, 1, Len(s)) = s
  BY SubSeqFull
<1>3. ASSUME Len(s) <= Len(p)
      PROVE  SubSeq(p, 1, Len(s)) = s <=> \A i \in 1 .. Len(s) : s[i] = p[i]
  <2> DEFINE n == Len(s)
             q == SubSeq(p, 1, n)
  <2>1. \A i \in 1 .. n : p[i] \in S
    BY <1>1, <1>3, ElementOfSeq
  <2>2. n \in Int /\ 1 \in Int /\ n - 1 + 1 = n
    BY <1>1
  <2>3. q \in Seq(S) /\ Len(q) = n /\ \A i \in 1 .. n : q[i] = p[i]
    <3>1. /\ q \in Seq(S) /\ Len(q) = IF 1 <= n THEN n - 1 + 1 ELSE 0
          /\ \A i \in 1 .. n - 1 + 1 : q[i] = p[1 + i - 1]
      BY <2>1, <2>2, SubSeqProperties
    <3>2. \A i \in 1 .. n : 1 + i - 1 = i
      OBVIOUS
    <3>3. QED
      BY <1>1, <2>2, <3>1, <3>2
  <2> HIDE DEF q, n
  <2>4. ASSUME \A i \in 1 .. n : s[i] = p[i] PROVE q = s
    <3>1. Len(q) = Len(s) /\ \A i \in 1 .. Len(q) : q[i] = s[i]
      BY <2>3, <2>4 DEF n
    <3>2. QED
      BY <2>3, <3>1, SeqEqual
  <2>5. QED
    BY <2>3, <2>4 DEF q, n
<1>4. QED
  BY <1>2, <1>3 DEF IsPrefix

\* The sections.
LEMMA DocsSectionsAre ==
    Sections = {<<"docs">>, <<"docs", "js">>, <<"docs", "integration">>,
                <<"docs", "api">>, <<"docs", "api", "reference">>,
                <<"docs", "security">>, <<"docs", "billing">>, <<"docs", "faq">>,
                <<"dashboard">>, <<"keys">>, <<"usage">>, <<"billing">>}
<1>1. Sections = {DOCS_NAV[i].href : i \in 1 .. 12}
  BY DocsMenuIs DEF Sections
<1>2. /\ DOCS_NAV[1].href = <<"docs">> /\ DOCS_NAV[2].href = <<"docs", "js">>
      /\ DOCS_NAV[3].href = <<"docs", "integration">> /\ DOCS_NAV[4].href = <<"docs", "api">>
      /\ DOCS_NAV[5].href = <<"docs", "api", "reference">>
      /\ DOCS_NAV[6].href = <<"docs", "security">> /\ DOCS_NAV[7].href = <<"docs", "billing">>
      /\ DOCS_NAV[8].href = <<"docs", "faq">> /\ DOCS_NAV[9].href = <<"dashboard">>
      /\ DOCS_NAV[10].href = <<"keys">> /\ DOCS_NAV[11].href = <<"usage">>
      /\ DOCS_NAV[12].href = <<"billing">>
  BY DocsMenuIs, Zenon DEF DocsRow
<1>3. 1 .. 12 = {1, 2, 3, 4, 5, 6, 7, 8, 9, 10, 11, 12}
  OBVIOUS
<1> DEFINE h(i) == DOCS_NAV[i].href
<1>4. Sections = {h(i) : i \in {1, 2, 3, 4, 5, 6, 7, 8, 9, 10, 11, 12}}
  BY <1>1, <1>3
<1>5. \A F : F = {h(i) : i \in {1, 2, 3, 4, 5, 6, 7, 8, 9, 10, 11, 12}} =>
          F = {h(1), h(2), h(3), h(4), h(5), h(6), h(7), h(8), h(9), h(10), h(11), h(12)}
  <2> HIDE DEF h
  <2>1. QED
    OBVIOUS
<1>6. Sections = {h(1), h(2), h(3), h(4), h(5), h(6), h(7), h(8), h(9), h(10), h(11), h(12)}
  BY <1>4, <1>5, Zenon
<1>7. QED
  BY <1>2, <1>6, Zenon

\* What the sections look like.
LEMMA DocsSectionShape ==
    ASSUME NEW s \in Sections
    PROVE  /\ s \in Seq(DocsWords)
           /\ \/ s = <<"docs">>
              \/ Len(s) = 1 /\ s[1] # "docs"
              \/ Len(s) = 2 /\ s[1] = "docs"
              \/ Len(s) = 3 /\ s = <<"docs", "api", "reference">>
<1>1. \A a \in DocsWords : <<a>> \in Seq(DocsWords) /\ Len(<<a>>) = 1 /\ <<a>>[1] = a
  OBVIOUS
<1>2. \A a, b \in DocsWords : /\ <<a, b>> \in Seq(DocsWords) /\ Len(<<a, b>>) = 2
                              /\ <<a, b>>[1] = a /\ <<a, b>>[2] = b
  OBVIOUS
<1>3. \A a, b, c \in DocsWords : <<a, b, c>> \in Seq(DocsWords) /\ Len(<<a, b, c>>) = 3
  OBVIOUS
<1>4. /\ "docs" \in DocsWords /\ "js" \in DocsWords /\ "integration" \in DocsWords
      /\ "api" \in DocsWords /\ "reference" \in DocsWords /\ "security" \in DocsWords
      /\ "billing" \in DocsWords /\ "faq" \in DocsWords /\ "dashboard" \in DocsWords
      /\ "keys" \in DocsWords /\ "usage" \in DocsWords
  BY DEF DocsWords
<1>5. CASE s = <<"docs">>
  BY <1>1, <1>4, <1>5
<1>6. CASE s \in {<<"dashboard">>, <<"keys">>, <<"usage">>, <<"billing">>}
  BY <1>1, <1>4, <1>6
<1>7. CASE s = <<"docs", "api", "reference">>
  BY <1>3, <1>4, <1>7
<1>8. CASE s \in {<<"docs", "js">>, <<"docs", "integration">>, <<"docs", "api">>,
                  <<"docs", "security">>, <<"docs", "billing">>, <<"docs", "faq">>}
  <2>1. PICK a \in DocsWords : s = <<"docs", a>>
    BY <1>4, <1>8, Zenon
  <2>2. QED
    BY <1>2, <1>4, <2>1
<1>9. QED
  BY <1>5, <1>6, <1>7, <1>8, DocsSectionsAre

\* A section that an address of the documentation lies below.
LEMMA DocsStrictly ==
    ASSUME NEW p \in Seq(DocsWords), Len(p) \in 1 .. 3, p[1] = "docs",
           NEW s \in Sections
    PROVE  s # <<"docs">> /\ IsStrictPrefix(s, p) <=>
               Len(p) = 3 /\ s = <<"docs", p[2]>>
<1>1. s \in Seq(DocsWords)
  BY DocsSectionShape
<1>2. IsPrefix(s, p) <=> Len(s) <= Len(p) /\ \A i \in 1 .. Len(s) : s[i] = p[i]
  BY <1>1, DocsPrefix
<1>3. Len(s) = Len(p) /\ (\A i \in 1 .. Len(s) : s[i] = p[i]) => s = p
  BY <1>1, SeqEqual
<1>4. Len(s) \in Nat
  BY <1>1
<1>5. ASSUME s # <<"docs">>, IsStrictPrefix(s, p)
      PROVE  Len(p) = 3 /\ s = <<"docs", p[2]>>
  <2>1. Len(s) < Len(p) /\ \A i \in 1 .. Len(s) : s[i] = p[i]
    BY <1>2, <1>3, <1>4, <1>5 DEF IsStrictPrefix
  <2>2. Len(s) # 3
    BY <2>1
  <2>3. Len(s) # 1
    BY <1>5, <2>1, DocsSectionShape
  <2>4. Len(s) = 2 /\ s[1] = "docs"
    BY <1>5, <2>2, <2>3, DocsSectionShape
  <2>5. Len(p) = 3 /\ s[2] = p[2]
    <3>1. 2 \in 1 .. 2 /\ 2 < Len(p)
      BY <2>1, <2>4
    <3>2. s[2] = p[2]
      BY <2>1, <2>4, <3>1
    <3>3. \A n \in 1 .. 3 : 2 < n => n = 3
      OBVIOUS
    <3>4. QED
      BY <3>1, <3>2, <3>3
  <2>6. s = <<"docs", p[2]>>
    <3>1. p[2] \in DocsWords /\ "docs" \in DocsWords
      BY <2>5, ElementOfSeq DEF DocsWords
    <3> DEFINE t == <<"docs", p[2]>>
    <3>2. t \in Seq(DocsWords) /\ Len(t) = 2 /\ t[1] = "docs" /\ t[2] = p[2]
      BY <3>1
    <3> HIDE DEF t
    <3>3. Len(s) = Len(t) /\ \A i \in 1 .. Len(s) : s[i] = t[i]
      BY <2>4, <2>5, <3>2
    <3>4. s = t
      BY <1>1, <3>2, <3>3, SeqEqual
    <3>5. QED
      BY <3>4 DEF t
  <2>7. QED
    BY <2>5, <2>6
<1>6. ASSUME Len(p) = 3, s = <<"docs", p[2]>>
      PROVE  s # <<"docs">> /\ IsStrictPrefix(s, p)
  <2>1. Len(s) = 2 /\ s[1] = "docs" /\ s[2] = p[2]
    BY <1>6
  <2>2. IsPrefix(s, p) /\ s # p
    <3>1. \A i \in 1 .. 2 : s[i] = p[i]
      <4>1. \A i \in 1 .. 2 : i = 1 \/ i = 2
        OBVIOUS
      <4>2. s[1] = p[1] /\ s[2] = p[2]
        BY <2>1
      <4>3. QED
        BY <4>1, <4>2, Zenon
    <3>2. Len(s) # Len(p) /\ Len(s) <= Len(p)
      BY <1>6, <2>1
    <3>3. QED
      BY <1>2, <2>1, <3>1, <3>2
  <2>3. s # <<"docs">>
    BY <2>1
  <2>4. QED
    BY <2>2, <2>3 DEF IsStrictPrefix
<1>7. QED
  BY <1>5, <1>6

\* A page is a section or an item of the section named by its first two parts.
DocsTop(p) == <<"docs", p[2]>>
LEMMA DocsPageShape ==
    ASSUME NEW p \in Pages
    PROVE  /\ p \in Seq(DocsWords) /\ Len(p) \in 1 .. 3 /\ p[1] = "docs"
           /\ Len(p) = 3 => DocsTop(p) \in Sections
           /\ p \in Sections \/ (Len(p) = 3 /\ p \in Items(DocsTop(p)))
           /\ \/ p \in Sections /\ \A i \in DOMAIN DOCS_NAV : p \notin Range(DOCS_NAV[i].items)
              \/ p \notin Sections /\ \E i \in DOMAIN DOCS_NAV : p \in Range(DOCS_NAV[i].items)
<1>1. \A a \in DocsWords : <<a>> \in Seq(DocsWords) /\ Len(<<a>>) = 1 /\ <<a>>[1] = a
  OBVIOUS
<1>2. \A a, b \in DocsWords : /\ <<a, b>> \in Seq(DocsWords) /\ Len(<<a, b>>) = 2
                              /\ <<a, b>>[1] = a /\ <<a, b>>[2] = b
  OBVIOUS
<1>3. \A a, b, c \in DocsWords :
          /\ <<a, b, c>> \in Seq(DocsWords) /\ Len(<<a, b, c>>) = 3
          /\ <<a, b, c>>[1] = a /\ <<a, b, c>>[2] = b
  OBVIOUS
<1>4. /\ "docs" \in DocsWords /\ "js" \in DocsWords /\ "integration" \in DocsWords
      /\ "api" \in DocsWords /\ "reference" \in DocsWords /\ "security" \in DocsWords
      /\ "billing" \in DocsWords /\ "faq" \in DocsWords
  BY DEF DocsWords
\* The items: three parts each, and never the section of three parts.
<1>5. ASSUME NEW i \in DOMAIN DOCS_NAV, NEW q \in Range(DOCS_NAV[i].items)
      PROVE  Len(q) = 3 /\ q # <<"docs", "api", "reference">>
  <2>1. ASSUME NEW a, NEW X, "reference" \notin X, NEW r \in DocsBelow(a, X)
        PROVE  Len(r) = 3 /\ r # <<"docs", "api", "reference">>
    BY <2>1 DEF DocsBelow
  <2>2. Len(Csp) = 3 /\ Csp # <<"docs", "api", "reference">>
    BY DEF Csp
  <2>3. /\ "reference" \notin {"general", "quickstart"}
        /\ "reference" \notin {"cdn", "npm", "react", "vue", "typescript", "nextjs"}
        /\ "reference" \notin {"geocode", "reverse", "directions", "places", "places-by-id", "errors"}
        /\ "reference" \notin {"keys", "domains", "ips", "csp"}
        /\ "reference" \notin {"usage", "plans", "invoices"}
    OBVIOUS
  <2>4. CASE i \in {1, 5, 8, 9, 10, 11, 12}
    <3>1. Range(DOCS_NAV[i].items) = {}
      BY <2>4, DocsMenuIs DEF DocsRow
    <3>2. QED
      BY <3>1
  <2>5. CASE i = 2
    <3>1. q \in DocsBelow("js", {"general", "quickstart"})
      BY <2>5, DocsMenuIs, Zenon DEF DocsRow
    <3>2. QED
      BY <2>1, <2>3, <3>1
  <2>6. CASE i = 3
    <3>1. q \in DocsBelow("integration", {"cdn", "npm", "react", "vue", "typescript", "nextjs"})
              \cup {Csp}
      BY <2>6, DocsMenuIs, Zenon DEF DocsRow
    <3>2. QED
      BY <2>1, <2>2, <2>3, <3>1
  <2>7. CASE i = 4
    <3>1. q \in DocsBelow("api", {"geocode", "reverse", "directions", "places", "places-by-id", "errors"})
      BY <2>7, DocsMenuIs, Zenon DEF DocsRow
    <3>2. QED
      BY <2>1, <2>3, <3>1
  <2>8. CASE i = 6
    <3>1. q \in DocsBelow("security", {"keys", "domains", "ips", "csp"})
      BY <2>8, DocsMenuIs, Zenon DEF DocsRow
    <3>2. QED
      BY <2>1, <2>3, <3>1
  <2>9. CASE i = 7
    <3>1. q \in DocsBelow("billing", {"usage", "plans", "invoices"})
      BY <2>9, DocsMenuIs, Zenon DEF DocsRow
    <3>2. QED
      BY <2>1, <2>3, <3>1
  <2>10. i \in 1 .. 12
    BY DocsMenuIs
  <2>11. QED
    BY <2>4, <2>5, <2>6, <2>7, <2>8, <2>9, <2>10
\* The sections.
<1>6. \A q \in Sections : Len(q) # 3 \/ q = <<"docs", "api", "reference">>
  <2>1. Len(<<"docs">>) = 1
    OBVIOUS
  <2>2. QED
    BY <2>1, DocsSectionShape
<1>7. CASE p \in {<<"docs">>, <<"docs", "js">>, <<"docs", "integration">>, <<"docs", "api">>,
                  <<"docs", "security">>, <<"docs", "billing">>, <<"docs", "faq">>,
                  <<"docs", "api", "reference">>}
  <2>1. p \in Sections
    BY <1>7, DocsSectionsAre
  <2>2. p \in Seq(DocsWords) /\ Len(p) \in 1 .. 3 /\ p[1] = "docs"
    <3>1. CASE p = <<"docs">>
      BY <1>1, <1>4, <3>1
    <3>2. CASE p = <<"docs", "api", "reference">>
      BY <1>3, <1>4, <3>2
    <3>3. CASE \E a \in DocsWords : p = <<"docs", a>>
      BY <1>2, <1>4, <3>3
    <3>4. QED
      BY <1>4, <1>7, <3>1, <3>2, <3>3, Zenon
  <2>3. Len(p) = 3 => DocsTop(p) \in Sections
    <3>1. Len(p) = 3 => p = <<"docs", "api", "reference">>
      BY <2>1, <1>6
    <3>2. p = <<"docs", "api", "reference">> => DocsTop(p) = <<"docs", "api">>
      BY DEF DocsTop
    <3>3. QED
      BY <3>1, <3>2, DocsSectionsAre
  <2>4. \A i \in DOMAIN DOCS_NAV : p \notin Range(DOCS_NAV[i].items)
    BY <2>1, <1>5, <1>6
  <2>5. QED
    BY <2>1, <2>2, <2>3, <2>4
<1>8. ASSUME NEW i \in 1 .. 12, NEW a \in DocsWords, NEW X, X \subseteq DocsWords,
             DOCS_NAV[i].href = <<"docs", a>>,
             DocsBelow(a, X) \subseteq Range(DOCS_NAV[i].items),
             p \in DocsBelow(a, X)
      PROVE  /\ p \in Seq(DocsWords) /\ Len(p) = 3 /\ p[1] = "docs"
             /\ DocsTop(p) \in Sections
             /\ p \in Items(DocsTop(p))
             /\ p \notin Sections /\ \E j \in DOMAIN DOCS_NAV : p \in Range(DOCS_NAV[j].items)
  <2>1. PICK x \in DocsWords : p = <<"docs", a, x>>
    BY <1>8 DEF DocsBelow
  <2>2. p \in Seq(DocsWords) /\ Len(p) = 3 /\ p[1] = "docs" /\ p[2] = a
    BY <1>3, <1>4, <2>1
  <2>3. i \in DOMAIN DOCS_NAV /\ p \in Range(DOCS_NAV[i].items)
    BY <1>8, DocsMenuIs
  <2>4. DocsTop(p) = DOCS_NAV[i].href
    BY <1>8, <2>2 DEF DocsTop
  <2>5. DocsTop(p) \in Sections
    BY <2>3, <2>4 DEF Sections
  <2>6. p \in Items(DocsTop(p))
    BY <2>3, <2>4 DEF Items
  <2>7. p \notin Sections
    BY <1>5, <1>6, <2>3
  <2>8. QED
    BY <2>2, <2>3, <2>5, <2>6, <2>7
<1>9. CASE p \in DocsBelow("js", {"general", "quickstart"})
  <2> DEFINE X == {"general", "quickstart"}
  <2>1. X \subseteq DocsWords /\ "js" \in DocsWords /\ 2 \in 1 .. 12
    BY DEF DocsWords
  <2>2. /\ DOCS_NAV[2].href = <<"docs", "js">>
        /\ DocsBelow("js", X) \subseteq Range(DOCS_NAV[2].items)
    BY DocsMenuIs, Zenon DEF DocsRow
  <2>3. p \in DocsBelow("js", X)
    BY <1>9
  <2> HIDE DEF X
  <2>4. /\ p \in Seq(DocsWords) /\ Len(p) = 3 /\ p[1] = "docs"
        /\ DocsTop(p) \in Sections /\ p \in Items(DocsTop(p)) /\ p \notin Sections
        /\ \E j \in DOMAIN DOCS_NAV : p \in Range(DOCS_NAV[j].items)
    BY <1>8, <2>1, <2>2, <2>3
  <2>5. QED
    BY <2>4
<1>10. CASE p \in DocsBelow("integration", {"cdn", "npm", "react", "vue", "typescript", "nextjs"})
  <2> DEFINE X == {"cdn", "npm", "react", "vue", "typescript", "nextjs"}
  <2>1. X \subseteq DocsWords /\ "integration" \in DocsWords /\ 3 \in 1 .. 12
    BY DEF DocsWords
  <2>2. /\ DOCS_NAV[3].href = <<"docs", "integration">>
        /\ DocsBelow("integration", X) \subseteq Range(DOCS_NAV[3].items)
    BY DocsMenuIs, Zenon DEF DocsRow
  <2>3. p \in DocsBelow("integration", X)
    BY <1>10
  <2> HIDE DEF X
  <2>4. /\ p \in Seq(DocsWords) /\ Len(p) = 3 /\ p[1] = "docs"
        /\ DocsTop(p) \in Sections /\ p \in Items(DocsTop(p)) /\ p \notin Sections
        /\ \E j \in DOMAIN DOCS_NAV : p \in Range(DOCS_NAV[j].items)
    BY <1>8, <2>1, <2>2, <2>3
  <2>5. QED
    BY <2>4
<1>11. CASE p \in DocsBelow("api", {"geocode", "reverse", "directions", "places",
                                    "places-by-id", "errors"})
  <2> DEFINE X == {"geocode", "reverse", "directions", "places", "places-by-id", "errors"}
  <2>1. X \subseteq DocsWords /\ "api" \in DocsWords /\ 4 \in 1 .. 12
    BY DEF DocsWords
  <2>2. /\ DOCS_NAV[4].href = <<"docs", "api">>
        /\ DocsBelow("api", X) \subseteq Range(DOCS_NAV[4].items)
    BY DocsMenuIs, Zenon DEF DocsRow
  <2>3. p \in DocsBelow("api", X)
    BY <1>11
  <2> HIDE DEF X
  <2>4. /\ p \in Seq(DocsWords) /\ Len(p) = 3 /\ p[1] = "docs"
        /\ DocsTop(p) \in Sections /\ p \in Items(DocsTop(p)) /\ p \notin Sections
        /\ \E j \in DOMAIN DOCS_NAV : p \in Range(DOCS_NAV[j].items)
    BY <1>8, <2>1, <2>2, <2>3
  <2>5. QED
    BY <2>4
<1>12. CASE p \in DocsBelow("security", {"keys", "domains", "ips", "csp"})
  <2> DEFINE X == {"keys", "domains", "ips", "csp"}
  <2>1. X \subseteq DocsWords /\ "security" \in DocsWords /\ 6 \in 1 .. 12
    BY DEF DocsWords
  <2>2. /\ DOCS_NAV[6].href = <<"docs", "security">>
        /\ DocsBelow("security", X) \subseteq Range(DOCS_NAV[6].items)
    BY DocsMenuIs, Zenon DEF DocsRow
  <2>3. p \in DocsBelow("security", X)
    BY <1>12
  <2> HIDE DEF X
  <2>4. /\ p \in Seq(DocsWords) /\ Len(p) = 3 /\ p[1] = "docs"
        /\ DocsTop(p) \in Sections /\ p \in Items(DocsTop(p)) /\ p \notin Sections
        /\ \E j \in DOMAIN DOCS_NAV : p \in Range(DOCS_NAV[j].items)
    BY <1>8, <2>1, <2>2, <2>3
  <2>5. QED
    BY <2>4
<1>13. CASE p \in DocsBelow("billing", {"usage", "plans", "invoices"})
  <2> DEFINE X == {"usage", "plans", "invoices"}
  <2>1. X \subseteq DocsWords /\ "billing" \in DocsWords /\ 7 \in 1 .. 12
    BY DEF DocsWords
  <2>2. /\ DOCS_NAV[7].href = <<"docs", "billing">>
        /\ DocsBelow("billing", X) \subseteq Range(DOCS_NAV[7].items)
    BY DocsMenuIs, Zenon DEF DocsRow
  <2>3. p \in DocsBelow("billing", X)
    BY <1>13
  <2> HIDE DEF X
  <2>4. /\ p \in Seq(DocsWords) /\ Len(p) = 3 /\ p[1] = "docs"
        /\ DocsTop(p) \in Sections /\ p \in Items(DocsTop(p)) /\ p \notin Sections
        /\ \E j \in DOMAIN DOCS_NAV : p \in Range(DOCS_NAV[j].items)
    BY <1>8, <2>1, <2>2, <2>3
  <2>5. QED
    BY <2>4
<1>14. QED
  BY <1>7, <1>9, <1>10, <1>11, <1>12, <1>13, DocsPagesAre

\* The sections an address lies in.
DocsHits(p) == {s \in Sections : s = p \/ (s # <<"docs">> /\ IsStrictPrefix(s, p))}

LEMMA DocsHitsAre ==
    ASSUME NEW p \in Pages
    PROVE  DocsHits(p) = IF Len(p) = 3 THEN {DocsTop(p)} \cup ({p} \cap Sections) ELSE {p}
<1>1. /\ p \in Seq(DocsWords) /\ Len(p) \in 1 .. 3 /\ p[1] = "docs"
      /\ Len(p) = 3 => DocsTop(p) \in Sections
      /\ p \in Sections \/ Len(p) = 3
  BY DocsPageShape
<1>2. \A s \in Sections : s # <<"docs">> /\ IsStrictPrefix(s, p) <=> Len(p) = 3 /\ s = DocsTop(p)
  BY <1>1, DocsStrictly DEF DocsTop
<1>3. \A s : s \in DocsHits(p) <=> s \in Sections /\ (s = p \/ (Len(p) = 3 /\ s = DocsTop(p)))
  BY <1>2 DEF DocsHits
<1>4. QED
  BY <1>1, <1>3

\* The section of a page.
LEMMA DocsSectionFor ==
    ASSUME NEW p \in Pages
    PROVE  /\ sectionFor(p) \in Sections
           /\ p \in Sections => sectionFor(p) = p
           /\ p \notin Sections => p \in Items(sectionFor(p))
<1> DEFINE H == DocsHits(p)
           longest(s) == \A t \in H : Len(t) <= Len(s)
<1>1. sectionFor(p) = IF H = {} THEN None ELSE CHOOSE s \in H : longest(s)
  BY DEF sectionFor, DocsHits
<1>2. /\ p \in Seq(DocsWords) /\ Len(p) \in 1 .. 3
      /\ Len(p) = 3 => DocsTop(p) \in Sections
      /\ p \in Sections \/ (Len(p) = 3 /\ p \in Items(DocsTop(p)))
  BY DocsPageShape
<1>3. H = IF Len(p) = 3 THEN {DocsTop(p)} \cup ({p} \cap Sections) ELSE {p}
  BY DocsHitsAre
<1>4. Len(DocsTop(p)) = 2
  BY DEF DocsTop
<1> HIDE DEF H
<1>5. CASE p \in Sections
  <2>1. p \in H /\ longest(p)
    <3>1. p \in H /\ \A t \in H : t = p \/ (Len(p) = 3 /\ t = DocsTop(p))
      BY <1>3, <1>5
    <3>2. ASSUME NEW t \in H PROVE Len(t) <= Len(p)
      BY <1>2, <1>4, <3>1
    <3>3. QED
      BY <3>1, <3>2
  <2>2. \A s \in H : longest(s) => s = p
    <3>1. ASSUME NEW s \in H, longest(s) PROVE s = p
      <4>1. Len(p) <= Len(s)
        BY <2>1, <3>1
      <4>2. s = p \/ (Len(p) = 3 /\ s = DocsTop(p))
        BY <1>3, <3>1
      <4>3. QED
        BY <1>4, <4>1, <4>2
    <3>2. QED
      BY <3>1
  <2> HIDE DEF longest
  <2>3. sectionFor(p) = p
    BY <1>1, <2>1, <2>2
  <2>4. QED
    BY <1>5, <2>3
<1>6. CASE p \notin Sections
  <2>1. H = {DocsTop(p)} /\ DocsTop(p) \in Sections /\ p \in Items(DocsTop(p))
    BY <1>2, <1>3, <1>6
  <2>2. longest(DocsTop(p))
    BY <1>4, <2>1
  <2> HIDE DEF longest
  <2>3. sectionFor(p) = DocsTop(p)
    BY <1>1, <2>1, <2>2
  <2>4. QED
    BY <1>6, <2>1, <2>3
<1>7. QED
  BY <1>5, <1>6

LEMMA DocsLeast ==
    ASSUME NEW S, S \subseteq Nat, S # {}
    PROVE  \E c \in S : \A d \in S : c <= d
<1> DEFINE Less == OpToRel(<, Nat)
<1>1. IsWellFoundedOn(Less, Nat)
  BY NatLessThanWellFounded
<1>2. \A i, j \in Nat : i < j => <<i, j>> \in Less
  BY Zenon DEF OpToRel
<1> HIDE DEF Less
<1>3. PICK c \in S : \A d \in S : ~(<<d, c>> \in Less)
  BY <1>1, WFMin
<1>4. ASSUME NEW d \in S PROVE c <= d
  <2>1. c \in Nat /\ d \in Nat /\ ~(<<d, c>> \in Less)
    BY <1>3
  <2>2. QED
    BY <1>2, <2>1
<1>5. QED
  BY <1>4

\* The name of a page comes from a section exactly if the page is not one itself.
LEMMA DocsLabel ==
    ASSUME NEW p \in Pages, None \notin Sections
    PROVE  pageLabel(p) # None <=> p # sectionFor(p)
<1> DEFINE H == {i \in DOMAIN DOCS_NAV : p \in Range(DOCS_NAV[i].items)}
           least(i) == \A j \in H : i <= j
<1>1. pageLabel(p) = IF H = {} THEN None ELSE DOCS_NAV[CHOOSE i \in H : least(i)].href
  BY DEF pageLabel
<1>2. (p \in Sections /\ H = {}) \/ (p \notin Sections /\ H # {})
  <2>1. \/ p \in Sections /\ \A i \in DOMAIN DOCS_NAV : p \notin Range(DOCS_NAV[i].items)
        \/ p \notin Sections /\ \E i \in DOMAIN DOCS_NAV : p \in Range(DOCS_NAV[i].items)
    BY DocsPageShape
  <2>2. QED
    BY <2>1
<1>3. H \subseteq DOMAIN DOCS_NAV /\ H \subseteq Nat
  BY DocsMenuIs
<1> HIDE DEF H
<1>4. p = sectionFor(p) <=> p \in Sections
  BY DocsSectionFor
<1>5. CASE H = {}
  BY <1>1, <1>2, <1>4, <1>5
<1>6. CASE H # {}
  <2>1. \E c \in H : least(c)
    BY <1>3, <1>6, DocsLeast
  <2> HIDE DEF least
  <2> DEFINE c == CHOOSE i \in H : least(i)
  <2>2. c \in H
    BY <2>1
  <2> HIDE DEF c
  <2>3. DOCS_NAV[c].href \in Sections
    BY <1>3, <2>2 DEF Sections
  <2>4. pageLabel(p) = DOCS_NAV[c].href
    BY <1>1, <1>6 DEF c
  <2>5. QED
    BY <1>2, <1>4, <1>6, <2>3, <2>4
<1>7. QED
  BY <1>5, <1>6

\* The top bar lights a link on every page.
LEMMA DocsLit ==
    ASSUME NEW p \in Pages, None \notin Sections \cup Pages
    PROVE  activeLink(p) # None
<1>1. /\ <<"docs", "api">> \in Sections /\ <<"docs", "faq">> \in Sections
      /\ <<"dashboard">> \in Sections /\ <<"docs">> \in Sections
  BY DocsSectionsAre
<1>2. <<"docs", "billing", "plans">> \in Pages
  BY DocsPagesAre DEF DocsBelow
<1>3. p[1] = "docs"
  BY DocsPageShape
<1> DEFINE a == <<"docs", "api">>
           f == <<"docs", "faq">>
           h == <<"dashboard">>
           d == <<"docs">>
           b == <<"docs", "billing", "plans">>
<1>4. activeLink(p) \in {a, b, f, h, d}
  BY <1>3 DEF activeLink
<1>5. None \notin {a, b, f, h, d}
  BY <1>1, <1>2
<1>6. QED
  BY <1>4, <1>5, Zenon

\* An old address is no page, and the one it leads to is.
LEMMA DocsRedirects ==
    \A r \in Redirects : r[1] \notin Pages /\ r[2] \in Pages
<1>1. \A r \in Redirects : r[1] \notin Pages
  BY DocsPagesAre DEF Redirects, DocsBelow
<1>2. \A r \in Redirects : r[2] \in Pages
  BY DocsPagesAre DEF Redirects, DocsBelow, Csp
<1>3. QED
  BY <1>1, <1>2

\* Joined one after the other, sequences have the elements they had apart.
LEMMA DocsInduct ==
    ASSUME NEW n \in Nat, NEW T, 1 \in T, \A i \in T : i \in Nat /\ i < n => i + 1 \in T
    PROVE  1 .. n \subseteq T
<1> DEFINE B == {i \in 1 .. n : i \notin T}
<1>1. ASSUME B # {} PROVE FALSE
  <2>1. PICK c \in B : \A d \in B : c <= d
    <3>1. B \subseteq Nat
      OBVIOUS
    <3> HIDE DEF B
    <3>2. QED
      BY <1>1, <3>1, DocsLeast
  <2>2. c \in 2 .. n /\ c - 1 \notin B
    BY <2>1
  <2>3. c - 1 \in T /\ c - 1 \in Nat /\ c - 1 < n /\ (c - 1) + 1 = c
    BY <2>2
  <2>4. c \in T
    BY <2>3
  <2>5. QED
    BY <2>1, <2>4
<1>2. QED
  BY <1>1

DocsJoined(q, f, i) == IF i = 1 THEN q[i] ELSE f[i - 1] \o q[i]

LEMMA DocsSolved ==
    ASSUME NEW q, NEW n \in Nat \ {0}
    PROVE  \E f : f = [i \in 1 .. n |-> DocsJoined(q, f, i)]
<1> DEFINE T == {m \in Nat : \E f : f = [i \in 1 .. m |-> DocsJoined(q, f, i)]}
<1>1. 1 \in T
  <2> DEFINE g == [i \in 1 .. 1 |-> q[i]]
  <2>1. g = [i \in 1 .. 1 |-> DocsJoined(q, g, i)]
    BY DEF DocsJoined
  <2>2. QED
    BY <2>1
<1>2. ASSUME NEW m \in T, m \in Nat, m < n, m # 0 PROVE m + 1 \in T
  <2>1. PICK f : f = [i \in 1 .. m |-> DocsJoined(q, f, i)]
    OBVIOUS
  <2> DEFINE g == [i \in 1 .. m + 1 |-> IF i = m + 1 THEN DocsJoined(q, f, i) ELSE f[i]]
  <2>2. \A i \in 1 .. m : g[i] = f[i]
    BY <1>2
  <2>3. g[m + 1] = DocsJoined(q, f, m + 1)
    BY <1>2
  <2>4. \A i \in 1 .. m : f[i] = DocsJoined(q, f, i)
    BY <2>1
  <2>5. \A h \in {g} : h = [i \in 1 .. m + 1 |-> h[i]]
    OBVIOUS
  <2> HIDE DEF g
  <2>6. ASSUME NEW i \in 1 .. m + 1 PROVE g[i] = DocsJoined(q, g, i)
    <3>1. g[i] = DocsJoined(q, f, i)
      BY <1>2, <2>2, <2>3, <2>4
    <3>2. i = 1 \/ g[i - 1] = f[i - 1]
      BY <1>2, <2>2
    <3>3. QED
      BY <3>1, <3>2 DEF DocsJoined
  <2>7. g = [i \in 1 .. m + 1 |-> DocsJoined(q, g, i)]
    BY <2>5, <2>6
  <2>8. \E h : h = [i \in 1 .. m + 1 |-> DocsJoined(q, h, i)]
    BY <2>7, Zenon
  <2>9. m + 1 \in Nat
    BY <1>2
  <2>10. QED
    BY <2>8, <2>9, Zenon
<1>3. 1 .. n \subseteq T \ {0}
  <2> DEFINE U == T \ {0}
  <2>1. 1 \in U /\ \A i \in U : i \in Nat /\ i < n => i + 1 \in U
    BY <1>1, <1>2
  <2> HIDE DEF U
  <2>2. 1 .. n \subseteq U
    BY <2>1, DocsInduct
  <2>3. QED
    BY <2>2 DEF U
<1>4. QED
  BY <1>3

LEMMA DocsRangeJoined ==
    ASSUME NEW S, NEW s \in Seq(S), NEW t \in Seq(S)
    PROVE  s \o t \in Seq(S) /\ Range(s \o t) = Range(s) \cup Range(t)
<1> DEFINE n == Len(s)
           m == Len(t)
           r == s \o t
<1>1. /\ n \in Nat /\ m \in Nat /\ DOMAIN s = 1 .. n /\ DOMAIN t = 1 .. m
      /\ r \in Seq(S) /\ DOMAIN r = 1 .. (n + m)
      /\ \A i \in 1 .. n : r[i] = s[i]
      /\ \A i \in 1 .. m : r[n + i] = t[i]
  OBVIOUS
<1> HIDE DEF n, m, r
<1>2. ASSUME NEW x \in Range(r) PROVE x \in Range(s) \cup Range(t)
  <2>1. PICK i \in 1 .. (n + m) : x = r[i]
    BY <1>1 DEF Range
  <2>2. CASE i <= n
    BY <1>1, <2>1, <2>2 DEF Range
  <2>3. CASE n < i
    <3>1. i - n \in 1 .. m /\ n + (i - n) = i
      BY <1>1, <2>1, <2>3
    <3>2. x = t[i - n]
      BY <1>1, <2>1, <3>1
    <3>3. QED
      BY <1>1, <3>1, <3>2 DEF Range
  <2>4. QED
    BY <1>1, <2>1, <2>2, <2>3
<1>3. ASSUME NEW x \in Range(s) PROVE x \in Range(r)
  <2>1. PICK i \in 1 .. n : x = s[i]
    BY <1>1 DEF Range
  <2>2. i \in 1 .. (n + m) /\ r[i] = s[i]
    BY <1>1
  <2>3. QED
    BY <1>1, <2>1, <2>2 DEF Range
<1>4. ASSUME NEW x \in Range(t) PROVE x \in Range(r)
  <2>1. PICK i \in 1 .. m : x = t[i]
    BY <1>1 DEF Range
  <2>2. n + i \in 1 .. (n + m) /\ r[n + i] = t[i]
    BY <1>1
  <2>3. QED
    BY <1>1, <2>1, <2>2 DEF Range
<1>5. QED
  BY <1>1, <1>2, <1>3, <1>4 DEF r

LEMMA DocsFlattened ==
    ASSUME NEW S, NEW q \in Seq(Seq(S)), q # <<>>
    PROVE  /\ FlattenSeq(q) \in Seq(S)
           /\ Range(FlattenSeq(q)) = UNION {Range(q[i]) : i \in DOMAIN q}
<1> DEFINE n == Len(q)
           f == CHOOSE f : f = [i \in 1 .. n |-> DocsJoined(q, f, i)]
<1>1. n \in Nat \ {0} /\ DOMAIN q = 1 .. n /\ \A i \in 1 .. n : q[i] \in Seq(S)
  OBVIOUS
<1>2. FlattenSeq(q) = f[n]
  BY <1>1 DEF FlattenSeq, DocsJoined
<1> HIDE DEF n
<1>3. f = [i \in 1 .. n |-> DocsJoined(q, f, i)]
  BY <1>1, DocsSolved
<1> HIDE DEF f
<1>4. \A i \in 1 .. n : f[i] = DocsJoined(q, f, i)
  BY <1>3
<1> DEFINE Upto(m) == UNION {Range(q[i]) : i \in 1 .. m}
           T == {i \in 1 .. n : f[i] \in Seq(S) /\ Range(f[i]) = Upto(i)}
<1>5. 1 \in T
  <2>1. f[1] = q[1] /\ 1 \in 1 .. n
    BY <1>1, <1>4 DEF DocsJoined
  <2>2. Upto(1) = Range(q[1])
    OBVIOUS
  <2>3. QED
    BY <1>1, <2>1, <2>2
<1>6. ASSUME NEW i \in T, i \in Nat, i < n PROVE i + 1 \in T
  <2>1. i + 1 \in 1 .. n /\ i + 1 # 1 /\ (i + 1) - 1 = i
    BY <1>1, <1>6
  <2>2. f[i + 1] = f[i] \o q[i + 1]
    BY <1>4, <2>1 DEF DocsJoined
  <2>3. f[i] \in Seq(S) /\ q[i + 1] \in Seq(S)
    BY <1>1, <2>1
  <2>4. f[i] \o q[i + 1] \in Seq(S) /\ Range(f[i] \o q[i + 1]) = Range(f[i]) \cup Range(q[i + 1])
    BY <2>3, DocsRangeJoined
  <2>5. Upto(i + 1) = Upto(i) \cup Range(q[i + 1])
    <3>1. 1 .. i + 1 = (1 .. i) \cup {i + 1}
      BY <2>1
    <3>2. QED
      BY <3>1
  <2>6. QED
    BY <2>1, <2>2, <2>4, <2>5
<1> HIDE DEF T
<1>7. 1 .. n \subseteq T
  BY <1>1, <1>5, <1>6, DocsInduct
<1>8. n \in T
  BY <1>1, <1>7
<1>9. f[n] \in Seq(S) /\ Range(f[n]) = Upto(n)
  BY <1>8 DEF T
<1>10. QED
  BY <1>1, <1>2, <1>9

\* The index holds the sections and the items.
LEMMA DocsIndex ==
    Range(DOCS_INDEX) = Sections \cup UNION {Range(DOCS_NAV[i].items) : i \in DOMAIN DOCS_NAV}
<1> DEFINE q == [i \in DOMAIN DOCS_NAV |-> <<DOCS_NAV[i].href>> \o DOCS_NAV[i].items]
           A == Seq(DocsWords)
<1>1. DOMAIN DOCS_NAV = 1 .. 12
  BY DocsMenuIs
<1>2. \A i \in 1 .. 12 : DOCS_NAV[i].items \in Seq(A)
  <2> DEFINE good(i) == DOCS_NAV[i].items \in Seq(A)
  <2>1. \A i, h, x : DocsRow(i, h, x) => good(i)
    BY DEF DocsRow
  <2>2. /\ good(1) /\ good(2) /\ good(3) /\ good(4) /\ good(5) /\ good(6)
        /\ good(7) /\ good(8) /\ good(9) /\ good(10) /\ good(11) /\ good(12)
    <3> HIDE DEF good
    <3>1. QED
      BY <2>1, DocsMenuIs, Zenon
  <2>3. \A i \in 1 .. 12 : i \in {1, 2, 3, 4, 5, 6, 7, 8, 9, 10, 11, 12}
    OBVIOUS
  <2>4. \A i \in 1 .. 12 : good(i)
    <3> HIDE DEF good
    <3>1. QED
      BY <2>2, <2>3, Zenon
  <2>5. QED
    BY <2>4
<1>3. \A i \in 1 .. 12 : DOCS_NAV[i].href \in A
  BY <1>1, DocsSectionShape DEF Sections
<1>4. ASSUME NEW i \in 1 .. 12
      PROVE  /\ q[i] \in Seq(A)
             /\ Range(q[i]) = {DOCS_NAV[i].href} \cup Range(DOCS_NAV[i].items)
  <2> DEFINE h == DOCS_NAV[i].href
             t == DOCS_NAV[i].items
  <2>1. h \in A /\ t \in Seq(A)
    BY <1>2, <1>3
  <2>2. q[i] = <<h>> \o t
    BY <1>1
  <2> HIDE DEF h, t, A
  <2>3. <<h>> \in Seq(A) /\ Range(<<h>>) = {h}
    BY <2>1 DEF Range
  <2>4. q[i] \in Seq(A) /\ Range(q[i]) = {h} \cup Range(t)
    <3> DEFINE u == <<h>>
    <3>1. u \in Seq(A) /\ t \in Seq(A) /\ Range(u) = {h} /\ q[i] = u \o t
      BY <2>1, <2>2, <2>3
    <3> HIDE DEF u
    <3>2. u \o t \in Seq(A) /\ Range(u \o t) = Range(u) \cup Range(t)
      BY <3>1, DocsRangeJoined
    <3>3. QED
      BY <3>1, <3>2, Zenon
  <2>5. QED
    BY <2>4 DEF h, t
<1>5. DOCS_INDEX = FlattenSeq(q)
  BY DEF DOCS_INDEX
<1>6. DOMAIN q = 1 .. 12
  BY <1>1
<1>7. q \in Seq(Seq(A)) /\ q # <<>>
  <2>1. q \in [1 .. 12 -> Seq(A)]
    BY <1>1, <1>4
  <2> HIDE DEF q, A
  <2>2. q \in Seq(Seq(A))
    <3> DEFINE X == Seq(A)
    <3> HIDE DEF X
    <3>1. \A n \in Nat : \A g \in [1 .. n -> X] : g \in Seq(X)
      OBVIOUS
    <3>2. q \in [1 .. 12 -> X] /\ 12 \in Nat
      BY <2>1 DEF X
    <3>3. q \in Seq(X)
      BY <3>1, <3>2
    <3>4. QED
      BY <3>3 DEF X
  <2>3. q # <<>>
    BY <1>6
  <2>4. QED
    BY <2>2, <2>3
<1> HIDE DEF q, A
<1>8. Range(DOCS_INDEX) = UNION {Range(q[i]) : i \in 1 .. 12}
  BY <1>5, <1>6, <1>7, DocsFlattened
<1>9. \A i \in DOMAIN DOCS_NAV : Range(q[i]) = {DOCS_NAV[i].href} \cup Range(DOCS_NAV[i].items)
  BY <1>1, <1>4
<1>10. Range(DOCS_INDEX) = UNION {Range(q[i]) : i \in DOMAIN DOCS_NAV}
  BY <1>1, <1>8
<1> DEFINE items(i) == Range(DOCS_NAV[i].items)
<1>11. Sections \cup UNION {items(i) : i \in DOMAIN DOCS_NAV} = Range(DOCS_INDEX)
  <2>1. \A x : x \in Range(DOCS_INDEX) <=> \E i \in DOMAIN DOCS_NAV : x \in Range(q[i])
    BY <1>10
  <2>2. \A i \in DOMAIN DOCS_NAV : \A x : x \in Range(q[i]) <=> x = DOCS_NAV[i].href \/ x \in items(i)
    BY <1>9
  <2> HIDE DEF items
  <2>3. \A x : x \in Sections \cup UNION {items(i) : i \in DOMAIN DOCS_NAV} <=>
            \E i \in DOMAIN DOCS_NAV : x = DOCS_NAV[i].href \/ x \in items(i)
    BY Zenon DEF Sections
  <2>4. QED
    BY <2>1, <2>2, <2>3, Zenon
<1>12. QED
  BY <1>11

\* The pages are what the index holds, without the cabinet.
LEMMA DocsPagesIndexed ==
    Pages = Range(DOCS_INDEX) \ {<<"dashboard">>, <<"keys">>, <<"usage">>, <<"billing">>}
<1> DEFINE I == UNION {Range(DOCS_NAV[i].items) : i \in DOMAIN DOCS_NAV}
           C == {<<"dashboard">>, <<"keys">>, <<"usage">>, <<"billing">>}
<1>1. \A p \in Pages : p \in Sections \/ p \in I
  BY DocsPageShape
<1>2. \A p \in Pages : p \notin C
  BY DocsPageShape
<1>3. \A s \in Sections : s \in C \/ s \in Pages
  BY DocsSectionsAre, DocsPagesAre, Zenon
<1>4. ASSUME NEW i \in DOMAIN DOCS_NAV, NEW p \in Range(DOCS_NAV[i].items) PROVE p \in Pages
  <2>1. i \in 1 .. 12
    BY DocsMenuIs
  <2>2. CASE i \in {1, 5, 8, 9, 10, 11, 12}
    <3>1. Range(DOCS_NAV[i].items) = {}
      BY <2>2, DocsMenuIs DEF DocsRow
    <3>2. QED
      BY <3>1
  <2>3. CASE i = 2
    BY <2>3, DocsMenuIs, DocsPagesAre, Zenon DEF DocsRow
  <2>4. CASE i = 3
    <3>1. Csp \in DocsBelow("security", {"keys", "domains", "ips", "csp"})
      BY DEF Csp, DocsBelow
    <3>2. QED
      BY <2>4, <3>1, DocsMenuIs, DocsPagesAre, Zenon DEF DocsRow
  <2>5. CASE i = 4
    BY <2>5, DocsMenuIs, DocsPagesAre, Zenon DEF DocsRow
  <2>6. CASE i = 6
    BY <2>6, DocsMenuIs, DocsPagesAre, Zenon DEF DocsRow
  <2>7. CASE i = 7
    BY <2>7, DocsMenuIs, DocsPagesAre, Zenon DEF DocsRow
  <2>8. QED
    BY <2>1, <2>2, <2>3, <2>4, <2>5, <2>6, <2>7
<1>5. \A p \in I : p \in Pages
  BY <1>4
<1>6. Range(DOCS_INDEX) = Sections \cup I
  BY DocsIndex
<1> HIDE DEF I, C
<1>7. Pages = Range(DOCS_INDEX) \ C
  BY <1>1, <1>2, <1>3, <1>5, <1>6
<1>8. QED
  BY <1>7 DEF C

\* The menu is what MenuRight says.
LEMMA DocsMenuCorrect == ASSUME ConstantsAssumption PROVE MenuRight
<1>1. None \notin Sections \cup Pages
  BY DEF ConstantsAssumption
<1>2. ASSUME NEW p \in Pages
      PROVE  /\ sectionFor(p) # None
             /\ p = sectionFor(p) \/ p \in Items(sectionFor(p))
             /\ activeLink(p) # None
             /\ pageLabel(p) # None <=> p # sectionFor(p)
  <2>1. sectionFor(p) # None
    BY <1>1, DocsSectionFor
  <2>2. p = sectionFor(p) \/ p \in Items(sectionFor(p))
    BY DocsSectionFor
  <2>3. activeLink(p) # None
    BY <1>1, DocsLit
  <2>4. pageLabel(p) # None <=> p # sectionFor(p)
    BY <1>1, DocsLabel
  <2>5. QED
    BY <2>1, <2>2, <2>3, <2>4
<1>3. QED
  BY <1>2, DocsPagesIndexed, DocsRedirects DEF MenuRight

-----------------------------------------------------------------------------
(***************************************************************************)
(* The three side by side, as the run explores them: a step of one is one  *)
(* the others do not see.                                                  *)
(***************************************************************************)
LEMMA PagesParts ==
    PagesSpec => Spec /\ ApiKeys!Spec /\ Views!Spec
<1>1. PagesInit => Init /\ ApiKeys!Init /\ Views!Init
  BY DEF PagesInit
<1>2. [PagesNext]_<<part, keysVars, viewVars, docsVars>>
          => [Next]_vars /\ [ApiKeys!Next]_ApiKeys!vars /\ [Views!Next]_Views!vars
  <2>1. UNCHANGED docsVars => UNCHANGED vars
    BY DEF docsVars, vars
  <2>2. UNCHANGED keysVars => UNCHANGED ApiKeys!vars
    BY DEF keysVars, ApiKeys!vars, ApiKeys!server, ApiKeys!page,
           ApiKeys!observed
  <2>3. UNCHANGED viewVars => UNCHANGED Views!vars
    BY DEF viewVars, Views!vars, Views!shows, Views!account, Views!observed
  <2>4. QED
    BY <2>1, <2>2, <2>3, Zenon DEF PagesNext, DocsStep, KeysStep, ViewStep
<1>3. QED
  BY <1>1, <1>2, PTL DEF PagesSpec, Spec, ApiKeys!Spec, Views!Spec

\* The types of all three.
THEOREM TypesCorrect == PagesSpec => []TypesOK
<1>1. PagesSpec => []TypeOK /\ []ApiKeys!TypeOK /\ []Views!TypeOK
  BY DocsAssumption, KeysAssumption, ViewsAssumption, PagesParts,
     DocsTypeCorrect, KeyTypeCorrect, ViewTypeCorrect, PTL
<1>2. TypeOK /\ ApiKeys!TypeOK /\ Views!TypeOK => TypesOK
  BY DEF TypesOK
<1>3. QED
  BY <1>1, <1>2, PTL

\* Requests that are checked one after the other keep the limits of an account.
THEOREM LimitsCorrect == PagesSpec => []LimitsRight
<1>1. PagesSpec => []ApiKeys!KeysBounded /\ []Views!OneRequest
  BY KeysAssumption, ViewsAssumption, PagesParts, KeyLimitCorrect,
     ViewRequestCorrect, PTL
<1>2. ApiKeys!KeysBounded /\ Views!OneRequest => LimitsRight
  BY DEF LimitsRight
<1>3. QED
  BY <1>1, <1>2, PTL

(***************************************************************************)
(* What every page at rest shows is right: the list of keys is the one the *)
(* server has, the usage and the bill are those of the account, and every  *)
(* page of the documentation is in the menu (MenuRight).                   *)
(***************************************************************************)
THEOREM ShownCorrect == PagesSpec => []ShownRight
<1>1. PagesSpec => []ApiKeys!ListRight /\ []Views!UsageRight /\ []Views!BillRight
  BY KeysAssumption, ViewsAssumption, RangesAssumption, PagesParts,
     KeyListCorrect, ViewUsageCorrect, ViewBillCorrect, PTL
<1>2. MenuRight
  BY DocsAssumption, DocsMenuCorrect
<1>3. ApiKeys!ListRight /\ Views!UsageRight /\ Views!BillRight => ShownRight
  BY <1>2 DEF ShownRight
<1>4. QED
  BY <1>1, <1>3, PTL
===============================================================================
