------------------------------- MODULE Billing -------------------------------
(***************************************************************************)
(* Subscriptions and invoices of developer accounts: the staff operations  *)
(* of adminapi/devstaff_pg.go, the hourly job of adminapi/devstaff.go, and *)
(* the tables of migrations/0012_developer_platform.sql, all in PostgreSQL *)
(* at READ COMMITTED.                                                      *)
(*                                                                         *)
(* A staff operation locks the row of its account first and is one step.   *)
(* The job's INSERT .. SELECT does not: it reads a snapshot, then waits    *)
(* for the foreign-key check of each row it inserts, so an operation of    *)
(* the staff may be committed between the two halves.                      *)
(***************************************************************************)
EXTENDS Integers, FiniteSets

CONSTANTS
    Accounts,
    Jobs,        \* whoever runs IssueDueInvoices: the ticker, staff by hand
    Month,       \* days of a billing period
    PayWithin,   \* days from issue to due_at
    MaxOpen,     \* open invoices after which no more are issued
    MaxDay,      \* bound: the last day
    MaxSwitches  \* bound: changes of the flags of an account

ASSUME PeriodAssumption == Month \in Nat \ {0}
ASSUME DaysAssumption == PayWithin \in Nat /\ MaxDay \in Nat
ASSUME MaxOpenAssumption == MaxOpen \in Nat \ {0}
ASSUME SwitchesAssumption == MaxSwitches \in Nat
ASSUME JobsAssumption == IsFiniteSet(Jobs)

VARIABLES
    day,
    subscription, since, ecosystem,   \* dev_accounts
    invoices,    \* invoices[a]: billing_invoices of a
    job,         \* job[j]: the statement j runs, NoJob if none
    switches,
    stale        \* (observation) a row of the job came after such a change

accountVars == <<subscription, since, ecosystem>>
vars == <<day, accountVars, invoices, job, switches, stale>>

Days == 0 .. MaxDay
NoDate == -1
NoJob == [running |-> FALSE]
Invoices == [start: Days, end: Nat, due: Nat, status: {"open", "paid", "void"}]

Open(a) == {i \in invoices[a] : i.status = "open"}

Init ==
    /\ day = 0
    /\ subscription = [a \in Accounts |-> FALSE]
    /\ since = [a \in Accounts |-> NoDate]
    /\ ecosystem = [a \in Accounts |-> FALSE]
    /\ invoices = [a \in Accounts |-> {}]
    /\ job = [j \in Jobs |-> NoJob]
    /\ switches = 0
    /\ stale = [a \in Accounts |-> FALSE]

Tick ==
    /\ day < MaxDay
    /\ day' = day + 1
    /\ UNCHANGED <<accountVars, invoices, job, switches, stale>>

-----------------------------------------------------------------------------
(***************************************************************************)
(* issueSQL.  The next period begins where the last one of any status ends,*)
(* or with the subscription if that is later.                              *)
(***************************************************************************)
Latest(S) == CHOOSE d \in S : \A e \in S : e <= d
\* (mutant) void invoices are passed over
NextStartNotVoid(sinceA, issued) ==
    Latest({sinceA} \cup {i.end : i \in {k \in issued : k.status # "void"}})
NextStart(sinceA, issued) == Latest({sinceA} \cup {i.end : i \in issued})

\* (mutants) the period need not have begun; open invoices are not counted
DueEarly(on, eco, sinceA, issued, today) ==
    /\ on /\ ~eco /\ sinceA # NoDate
    /\ Cardinality({i \in issued : i.status = "open"}) < MaxOpen
DueUnlimited(on, eco, sinceA, issued, today) ==
    /\ on /\ ~eco /\ sinceA # NoDate
    /\ NextStart(sinceA, issued) <= today

Due(on, eco, sinceA, issued, today) ==
    /\ on
    /\ ~eco
    /\ sinceA # NoDate
    /\ Cardinality({i \in issued : i.status = "open"}) < MaxOpen
    /\ NextStart(sinceA, issued) <= today

Invoice(start, today) ==
    [start |-> start, end |-> start + Month, due |-> today + PayWithin,
     status |-> "open"]

\* (mutant) the conflict is on the account alone
InsertOnce(issued, start, today) ==
    IF issued # {} THEN issued ELSE {Invoice(start, today)}

\* ON CONFLICT (account_id, period_start) DO NOTHING.
Insert(issued, start, today) ==
    IF \E i \in issued : i.start = start THEN issued
    ELSE issued \cup {Invoice(start, today)}

\* What the job reads of dev_accounts.
Row(a) == <<subscription[a], since[a], ecosystem[a]>>

\* The job's statement takes its snapshot: the accounts due, and from when.
JobReads(j) ==
    LET due == {a \in Accounts : Due(subscription[a], ecosystem[a], since[a],
                                     invoices[a], day)}
    IN  /\ job[j] = NoJob
        /\ due # {}
        /\ job' = [job EXCEPT ![j] =
              [running |-> TRUE, now |-> day, row |-> [a \in due |-> Row(a)],
               start |-> [a \in due |-> NextStart(since[a], invoices[a])]]]
        /\ UNCHANGED <<day, accountVars, invoices, switches, stale>>

\* Its rows, those that do not conflict, are inserted and committed.
JobInserts(j) ==
    /\ job[j].running
    /\ invoices' = [a \in Accounts |->
          IF a \in DOMAIN job[j].start
          THEN Insert(invoices[a], job[j].start[a], job[j].now)
          ELSE invoices[a]]
    /\ stale' = [a \in Accounts |->
          \/ stale[a]
          \/ /\ a \in DOMAIN job[j].start
             /\ invoices'[a] # invoices[a]
             /\ Row(a) # job[j].row[a]]
    /\ job' = [job EXCEPT ![j] = NoJob]
    /\ UNCHANGED <<day, accountVars, switches>>

\* The statement fails or times out: nothing is inserted.
JobFails(j) ==
    /\ job[j].running
    /\ job' = [job EXCEPT ![j] = NoJob]
    /\ UNCHANGED <<day, accountVars, invoices, switches, stale>>

-----------------------------------------------------------------------------
Switched == switches < MaxSwitches /\ switches' = switches + 1

\* SetSubscription(on): the flag, then the first invoice, if one is due.
SubscribeOn(a) ==
    LET s == IF subscription[a] THEN since[a] ELSE day
    IN  /\ Switched
        /\ subscription' = [subscription EXCEPT ![a] = TRUE]
        /\ since' = [since EXCEPT ![a] = s]
        /\ invoices' = [invoices EXCEPT ![a] =
              IF Due(TRUE, ecosystem[a], s, @, day)
              THEN Insert(@, NextStart(s, @), day) ELSE @]
        /\ UNCHANGED <<day, ecosystem, job, stale>>

\* (mutant) the open invoices stay
SubscribeOffKeeps(a) ==
    /\ Switched
    /\ subscription' = [subscription EXCEPT ![a] = FALSE]
    /\ UNCHANGED <<day, since, ecosystem, invoices, job, stale>>

\* SetSubscription(off): open invoices are void, unless it was off before.
SubscribeOff(a) ==
    /\ Switched
    /\ subscription' = [subscription EXCEPT ![a] = FALSE]
    /\ invoices' = [invoices EXCEPT ![a] =
          IF subscription[a]
          THEN {IF i.status = "open" THEN [i EXCEPT !.status = "void"] ELSE i :
                   i \in @}
          ELSE @]
    /\ UNCHANGED <<day, since, ecosystem, job, stale>>

SetEcosystem(a, on) ==
    /\ Switched
    /\ ecosystem' = [ecosystem EXCEPT ![a] = on]
    /\ UNCHANGED <<day, subscription, since, invoices, job, stale>>

Close(a, i, status) ==
    /\ i \in Open(a)
    /\ invoices' = [invoices EXCEPT ![a] =
                       (@ \ {i}) \cup {[i EXCEPT !.status = status]}]
    /\ UNCHANGED <<day, accountVars, job, switches, stale>>

MarkPaid(a, i) == Close(a, i, "paid")
VoidInvoice(a, i) == Close(a, i, "void")

AccountStep(a) ==
    \/ SubscribeOn(a)
    \/ SubscribeOff(a)
    \/ \E on \in BOOLEAN : SetEcosystem(a, on)
    \/ \E i \in invoices[a] : MarkPaid(a, i) \/ VoidInvoice(a, i)

JobStep(j) == JobReads(j) \/ JobInserts(j) \/ JobFails(j)

Next ==
    \/ Tick
    \/ \E a \in Accounts : AccountStep(a)
    \/ \E j \in Jobs : JobStep(j)

Spec == Init /\ [][Next]_vars

(***************************************************************************)
(* Fairness: the ticker of RunBilling fires every hour for as long as the  *)
(* staff server runs, and the database does not refuse every statement.    *)
(***************************************************************************)
Fairness == \A j \in Jobs : WF_vars(JobReads(j)) /\ SF_vars(JobInserts(j))
FairSpec == Spec /\ Fairness

-----------------------------------------------------------------------------
TypeOK ==
    /\ day \in Days
    /\ subscription \in [Accounts -> BOOLEAN]
    /\ since \in [Accounts -> Days \cup {NoDate}]
    /\ ecosystem \in [Accounts -> BOOLEAN]
    /\ invoices \in [Accounts -> SUBSET Invoices]
    /\ \A j \in Jobs : job[j].running =>
          /\ job[j].now \in Days
          /\ DOMAIN job[j].start \subseteq Accounts
          /\ \A a \in DOMAIN job[j].start : job[j].start[a] \in Days
    /\ switches \in 0 .. MaxSwitches
    /\ stale \in [Accounts -> BOOLEAN]

Overlap(i, k) == i.start < k.end /\ k.start < i.end

(***************************************************************************)
(* Nobody is billed twice for a day: whatever jobs, payments and switches  *)
(* of the subscription meet, the periods of an account are disjoint, void  *)
(* ones included, unless the job inserted a row for an account that changed*)
(* after its snapshot.                                                     *)
(***************************************************************************)
PeriodsDisjoint ==
    \A a \in Accounts : ~stale[a] =>
        \A i, k \in invoices[a] : i # k => ~Overlap(i, k)

\* Whoever has no statement under way that will bill account a.
NotBilling(a) == {j \in Jobs : ~(job[j].running /\ a \in DOMAIN job[j].start)}

(***************************************************************************)
(* "The debt does not pile up": no account has more than MaxOpen open      *)
(* invoices, although the count and the insert of two jobs interleave.     *)
(* When the account changes between the two halves of a job there may be   *)
(* more, but for every job that may run only one, and none while it runs.  *)
(***************************************************************************)
DebtBounded ==
    \A a \in Accounts :
        /\ ~stale[a] => Cardinality(Open(a)) <= MaxOpen
        /\ Cardinality(Open(a)) <= MaxOpen + Cardinality(NotBilling(a))

(***************************************************************************)
(* An account without a subscription owes nothing: the job never bills it  *)
(* by itself, only on a snapshot that a switch has overtaken.  Even then   *)
(* each statement under way at the switch leaves at most one invoice, and  *)
(* no later one adds to them: the overtaken snapshots are used up.         *)
(***************************************************************************)
NothingOwedWhenOff ==
    \A a \in Accounts : ~subscription[a] =>
        /\ ~stale[a] => Open(a) = {}
        /\ Cardinality(Open(a)) <= Cardinality(NotBilling(a))

\* Every invoice that falls due is issued, or is no longer due.
DueIsIssued ==
    \A a \in Accounts :
        []<>~Due(subscription[a], ecosystem[a], since[a], invoices[a], day)

(***************************************************************************)
(* devstaff_pg.go says of SetSubscription: when it is switched off, unpaid *)
(* invoices are void.  So an account that is off has no open invoice.      *)
(***************************************************************************)
OffMeansNoneOpen == \A a \in Accounts : ~subscription[a] => Open(a) = {}

(***************************************************************************)
(* devstaff_pg.go says of SetSubscription: when it is switched on, the     *)
(* first invoice is issued at once.                                        *)
(***************************************************************************)
FirstInvoiceAtOnce ==
    [][\A a \in Accounts :
          ~subscription[a] /\ subscription'[a] /\ ~ecosystem[a]
              => Open(a)' # {}]_vars
=============================================================================
