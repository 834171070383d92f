-------------------------------- MODULE Meter --------------------------------
(***************************************************************************)
(* The usage meter of the /v2 developer API: internal/devplatform/meter.go,*)
(* the monthly-cap tail of Platform.Authorize, the deferred Record of the  *)
(* /v2 wrapper, and the life of the one cmd/api process that owns them.    *)
(*                                                                         *)
(* The code keeps sums per (key, day, api).  Here a request is followed by *)
(* name, and a sum is the number of requests it stands for: pending and    *)
(* batch are the sets of requests whose unit they hold, and db[r] says how *)
(* many times the unit of r has been added to api_usage_daily.  Days are   *)
(* abstracted to months, the only unit the monthly cap tells apart.        *)
(***************************************************************************)
EXTENDS Integers, FiniteSets

CONSTANTS
    Requests,      \* the /v2 requests of a behaviour
    Keys,          \* API keys
    Accounts,      \* developer accounts
    KeyOf,         \* the key a request is made with
    AccountOf,     \* the account that owns a key
    Statuses,      \* final HTTP statuses the handlers produce
    MonthlyCap,    \* Plan.MonthlyCap of the free plan
    MaxMonth,      \* bound: the last month of the clock
    MaxRestarts,   \* bound: how often the process is started again
    MaxAmbiguous   \* bound: commits that are reported as failures

ASSUME RequestsAssumption == IsFiniteSet(Requests)
ASSUME KeyOfAssumption == KeyOf \in [Requests -> Keys]
ASSUME AccountOfAssumption == AccountOf \in [Keys -> Accounts]
ASSUME StatusesAssumption == Statuses \subseteq Nat
ASSUME BoundsAssumption ==
    /\ MonthlyCap \in Nat \ {0}
    /\ MaxMonth \in Nat
    /\ MaxRestarts \in Nat
    /\ MaxAmbiguous \in Nat

VARIABLES
    clock,         \* the current month
    pc,            \* pc[r]: where request r is
    ms,            \* ms[r]: the month MonthUsed captured for r, 0 outside it
    month,         \* month[r]: the month Record captured for r
    kind,          \* kind[r]: what classify made of r's status
    counter,       \* Meter.counter: the month counters, by account
    pending,       \* Meter.pending
    flusher,       \* where Flush is
    batch,         \* the batch Flush took from pending
    final,         \* TRUE: the Flush under way is the one Run makes at the end
    phase,         \* the life of the process (cmd/api main)
    exit,          \* how the last process ended
    restarts,
    db,            \* db[r]: times the unit of r was added to api_usage_daily
    ambiguous,     \* WriteUsage calls that committed and returned an error
    mine,          \* (observation) requests this process put into pending
    drift          \* (observation) what the last load of a counter missed

processVars == <<counter, pending, flusher, batch, final>>
requestVars == <<pc, ms, month, kind>>
tableVars   == <<db, ambiguous>>
flushVars   == <<pending, flusher, batch, final>>
vars == <<clock, requestVars, processVars, phase, exit, restarts,
          tableVars, mine, drift>>

Months == 0 .. MaxMonth
Kinds == {"none", "counted", "error"}
Phases == {"up", "draining", "stopping", "down"}
\* "over": denied, limited or cut off, so that no usage is recorded.
PCs == {"new", "authorize", "running", "finished", "pended", "done", "over"}
InFlightPCs == {"authorize", "running", "finished", "pended"}

Owner(r) == AccountOf[KeyOf[r]]
InFlight(r) == pc[r] \in InFlightPCs
Alive == phase # "down"

(***************************************************************************)
(* What a final status means for the bill: 429 is neither usage nor error. *)
(***************************************************************************)
classify(status) ==
    IF status = 429 THEN "none"
    ELSE IF status \in 200 .. 399 \/ status = 404 THEN "counted"
    ELSE "error"

(***************************************************************************)
(* Store.MonthUsage: the sum of the requests column over the keys of an    *)
(* account for every day from the start of the month on; later months are  *)
(* not cut off.                                                            *)
(***************************************************************************)
UsageUnits(a, from) ==
    UNION {{r} \X (1 .. db[r]) :
              r \in {q \in Requests : /\ Owner(q) = a
                                      /\ kind[q] = "counted"
                                      /\ month[q] >= from}}
\* (mutant) the errors of the period taken off the requests
MonthUsageLessErrors(a, from) ==
    Cardinality(UsageUnits(a, from)) -
        Cardinality({r \in Requests : db[r] > 0 /\ kind[r] = "error"})
MonthUsage(a, from) == Cardinality(UsageUnits(a, from))

NotReady == [ready |-> FALSE, month |-> 0, value |-> 0]

(***************************************************************************)
(* Observations.  Counted: requests Record has put into pending, by        *)
(* account and month.  Half: those whose second step is still to come, so  *)
(* that the month counter does not show them yet.                          *)
(***************************************************************************)
Recorded == {r \in Requests : pc[r] \in {"pended", "done"}}
Counted(a, m) == {r \in Recorded : /\ Owner(r) = a
                                   /\ kind[r] = "counted"
                                   /\ month[r] = m}
Half(a, m) == {r \in Counted(a, m) : pc[r] = "pended"}

Init ==
    /\ clock = 0
    /\ pc = [r \in Requests |-> "new"]
    /\ ms = [r \in Requests |-> 0]
    /\ month = [r \in Requests |-> 0]
    /\ kind = [r \in Requests |-> "none"]
    /\ counter = [a \in Accounts |-> NotReady]
    /\ pending = {}
    /\ flusher = "idle"
    /\ batch = {}
    /\ final = FALSE
    /\ phase = "up"
    /\ exit = "none"
    /\ restarts = 0
    /\ db = [r \in Requests |-> 0]
    /\ ambiguous = 0
    /\ mine = {}
    /\ drift = [a \in Accounts |-> 0]

-----------------------------------------------------------------------------
Tick ==
    /\ clock < MaxMonth
    /\ clock' = clock + 1
    /\ UNCHANGED <<requestVars, processVars, phase, exit, restarts, tableVars,
                   mine, drift>>

-----------------------------------------------------------------------------
(***************************************************************************)
(* Authorize, once the key is known and the rate limiter agreed.  Staff    *)
(* switch an account's subscription at any time and the plan a request     *)
(* sees may be up to 15 s old, so any request may find a plan with or      *)
(* without a monthly cap.  With one, MonthUsed first captures the month,   *)
(* then waits for the mutex of the account's counter: the two are steps of *)
(* their own, and a month may pass between them.                           *)
(***************************************************************************)
ArriveUncapped(r) ==
    /\ phase = "up"
    /\ pc[r] = "new"
    /\ pc' = [pc EXCEPT ![r] = "running"]
    /\ UNCHANGED <<clock, ms, month, kind, processVars, phase, exit, restarts,
                   tableVars, mine, drift>>

ArriveCapped(r) ==
    /\ phase = "up"
    /\ pc[r] = "new"
    /\ pc' = [pc EXCEPT ![r] = "authorize"]
    /\ ms' = [ms EXCEPT ![r] = clock]
    /\ UNCHANGED <<clock, month, kind, processVars, phase, exit, restarts,
                   tableVars, mine, drift>>

\* (mutant) one request too many
VerdictOffByOne(used0) == IF used0 > MonthlyCap THEN "over" ELSE "running"
Verdict(used0) == IF used0 >= MonthlyCap THEN "over" ELSE "running"

HasCounter(r) == /\ counter[Owner(r)].ready
                 /\ counter[Owner(r)].month = ms[r]

MonthUsedCached(r) ==
    /\ pc[r] = "authorize"
    /\ HasCounter(r)
    /\ pc' = [pc EXCEPT ![r] = Verdict(counter[Owner(r)].value)]
    /\ ms' = [ms EXCEPT ![r] = 0]
    /\ UNCHANGED <<clock, month, kind, processVars, phase, exit,
                   restarts, tableVars, mine, drift>>

(***************************************************************************)
(* The counter is not of the captured month: it is read from the database, *)
(* under its mutex, so nothing else touches it meanwhile and the SELECT,   *)
(* the assignment and the comparison are one step.                         *)
(***************************************************************************)
MonthUsedLoads(r) ==
    LET a == Owner(r)
        v == MonthUsage(a, ms[r])
    IN  /\ pc[r] = "authorize"
        /\ ~HasCounter(r)
        /\ counter' = [counter EXCEPT ![a] =
                          [ready |-> TRUE, month |-> ms[r], value |-> v]]
        /\ drift' = [drift EXCEPT ![a] = v + Cardinality(Half(a, ms[r]))
                                           - Cardinality(Counted(a, ms[r]))]
        /\ pc' = [pc EXCEPT ![r] = Verdict(v)]
        /\ ms' = [ms EXCEPT ![r] = 0]
        /\ UNCHANGED <<clock, month, kind, flushVars, phase, exit,
                       restarts, tableVars, mine>>

\* The SELECT fails: 503, and the counter stays as it was.
MonthUsedFails(r) ==
    /\ pc[r] = "authorize"
    /\ ~HasCounter(r)
    /\ pc' = [pc EXCEPT ![r] = "over"]
    /\ ms' = [ms EXCEPT ![r] = 0]
    /\ UNCHANGED <<clock, month, kind, processVars, phase, exit,
                   restarts, tableVars, mine, drift>>

(***************************************************************************)
(* The handler ends with a status (500 if it wrote none) and the deferred  *)
(* Record begins: it returns at once for a 429, else captures the month.   *)
(***************************************************************************)
Finish(r, status) ==
    /\ pc[r] = "running"
    /\ kind' = [kind EXCEPT ![r] = classify(status)]
    /\ \/ /\ classify(status) = "none"
          /\ pc' = [pc EXCEPT ![r] = "over"]
          /\ UNCHANGED month
       \/ /\ classify(status) # "none"
          /\ pc' = [pc EXCEPT ![r] = "finished"]
          /\ month' = [month EXCEPT ![r] = clock]
    /\ UNCHANGED <<clock, ms, processVars, phase, exit, restarts,
                   tableVars, mine, drift>>

\* Record, first critical section: the unit joins pending under m.mu.
RecordPending(r) ==
    /\ pc[r] = "finished"
    /\ pending' = pending \cup {r}
    /\ mine' = mine \cup {r}
    /\ pc' = [pc EXCEPT ![r] = IF kind[r] = "counted" THEN "pended" ELSE "done"]
    /\ UNCHANGED <<clock, ms, month, kind, counter, flusher, batch,
                   final, phase, exit, restarts, tableVars, drift>>

\* (mutant) the month of the counter is not compared
RecordCounterAnyMonth(r) ==
    LET a == Owner(r) IN
    /\ pc[r] = "pended"
    /\ counter' = IF counter[a].ready
                  THEN [counter EXCEPT ![a].value = @ + 1] ELSE counter
    /\ pc' = [pc EXCEPT ![r] = "done"]
    /\ UNCHANGED <<clock, ms, month, kind, flushVars, phase, exit,
                   restarts, tableVars, mine, drift>>

\* Record, second critical section: the month counter, if it is of that month.
RecordCounter(r) ==
    LET a == Owner(r) IN
    /\ pc[r] = "pended"
    /\ counter' = IF counter[a].ready /\ counter[a].month = month[r]
                  THEN [counter EXCEPT ![a].value = @ + 1]
                  ELSE counter
    /\ pc' = [pc EXCEPT ![r] = "done"]
    /\ UNCHANGED <<clock, ms, month, kind, flushVars, phase, exit,
                   restarts, tableVars, mine, drift>>

-----------------------------------------------------------------------------
(***************************************************************************)
(* The end of the process: memory is gone, requests in flight are cut off. *)
(* A request whose unit is in pending has been recorded all the same.      *)
(***************************************************************************)
Die(how) ==
    /\ phase' = "down"
    /\ exit' = how
    /\ pc' = [r \in Requests |-> IF pc[r] = "pended" THEN "done"
                                 ELSE IF InFlight(r) THEN "over" ELSE pc[r]]
    /\ ms' = [r \in Requests |-> 0]
    /\ counter' = [a \in Accounts |-> NotReady]
    /\ pending' = {}
    /\ flusher' = "idle" /\ batch' = {}
    /\ final' = FALSE
    /\ UNCHANGED <<clock, month, kind, restarts, mine, drift>>

(***************************************************************************)
(* Flush takes pending and touched under m.mu.  With nothing pending it    *)
(* returns at once (no step).  Run calls it on every tick and, when its    *)
(* context is cancelled, a last time.                                      *)
(***************************************************************************)
FlushTakes(last) ==
    /\ flusher = "idle"
    /\ pending # {}
    /\ flusher' = "writing"
    /\ batch' = pending
    /\ pending' = {}
    /\ final' = last
    /\ UNCHANGED <<clock, requestVars, counter, phase, exit, restarts,
                   tableVars, mine, drift>>

FlushTick == Alive /\ FlushTakes(FALSE)
FlushLast == phase = "stopping" /\ FlushTakes(TRUE)

\* (mutant) the end does not wait for a Flush that is under way
NothingLeftToTake ==
    /\ phase = "stopping"
    /\ pending = {}
    /\ Die("clean")
    /\ UNCHANGED tableVars

\* The last Flush finds nothing to write.
NothingLeft ==
    /\ phase = "stopping"
    /\ flusher = "idle"
    /\ pending = {}
    /\ Die("clean")
    /\ UNCHANGED tableVars

\* (mutant) rows without counted requests are skipped, errors and all
WrittenIfCounted(b) ==
    [r \in Requests |-> IF r \in b /\ kind[r] = "counted" THEN db[r] + 1
                        ELSE db[r]]
Written(b) == [r \in Requests |-> IF r \in b THEN db[r] + 1 ELSE db[r]]

\* One INSERT .. ON CONFLICT DO UPDATE adds the whole batch, or nothing.
WriteCommits ==
    /\ flusher = "writing"
    /\ db' = Written(batch)
    /\ flusher' = "touching"
    /\ batch' = {}
    /\ UNCHANGED <<clock, requestVars, counter, pending,
                   final, phase, exit, restarts, ambiguous,
                   mine, drift>>

\* (mutant) a failed batch is not merged back
MergeBackDrops ==
    \/ /\ ~final
       /\ flusher' = "idle" /\ batch' = {}
       /\ UNCHANGED <<clock, requestVars, counter, pending, final, phase, exit,
                      restarts, mine, drift>>
    \/ final /\ Die("unflushed")

(***************************************************************************)
(* WriteUsage returned an error: the batch is merged back into pending.    *)
(* The 8 s context may end after the server committed, and the context of  *)
(* a regular Flush is cancelled when the process stops, so an error does   *)
(* not say that nothing was written.  Run gives up after the last Flush.   *)
(***************************************************************************)
MergeBack ==
    \/ /\ ~final
       /\ pending' = pending \cup batch
       /\ flusher' = "idle" /\ batch' = {}
       /\ UNCHANGED <<clock, requestVars, counter, final, phase, exit,
                      restarts, mine, drift>>
    \/ final /\ Die("unflushed")

WriteFails ==
    /\ flusher = "writing"
    /\ MergeBack
    /\ UNCHANGED tableVars

WriteAmbiguous ==
    /\ flusher = "writing"
    /\ ambiguous < MaxAmbiguous
    /\ ambiguous' = ambiguous + 1
    /\ db' = Written(batch)
    /\ MergeBack

(***************************************************************************)
(* TouchKeys sets api_keys.last_used_at, which nothing modelled here reads,*)
(* and an error of it is only logged.  The touched keys are taken, merged  *)
(* and dropped with the batch; they are the keys of its requests.          *)
(***************************************************************************)
FlushTouches ==
    /\ flusher = "touching"
    /\ UNCHANGED tableVars
    /\ \/ /\ ~final
          /\ flusher' = "idle"
          /\ UNCHANGED <<clock, requestVars, counter, pending,
                         batch, final, phase, exit, restarts, mine, drift>>
       \/ final /\ Die("clean")

-----------------------------------------------------------------------------
(***************************************************************************)
(* main: on SIGTERM no request is accepted any more and Shutdown waits for *)
(* those in flight; then the meter's context is cancelled.  Crash is every *)
(* other end: a kill, Shutdown's 15 s or the last Flush's 10 s running out.*)
(***************************************************************************)
Terminate ==
    /\ phase = "up"
    /\ phase' = "draining"
    /\ UNCHANGED <<clock, requestVars, processVars, exit, restarts,
                   tableVars, mine, drift>>

Drained ==
    /\ phase = "draining"
    /\ \A r \in Requests : ~InFlight(r)
    /\ phase' = "stopping"
    /\ UNCHANGED <<clock, requestVars, processVars, exit, restarts,
                   tableVars, mine, drift>>

Crash ==
    /\ Alive
    /\ Die("crash")
    /\ UNCHANGED tableVars

Restart ==
    /\ phase = "down"
    /\ restarts < MaxRestarts
    /\ restarts' = restarts + 1
    /\ phase' = "up"
    /\ exit' = "none"
    /\ mine' = {}
    /\ UNCHANGED <<clock, requestVars, processVars, tableVars, drift>>

RequestStep(r) ==
    \/ ArriveUncapped(r)
    \/ ArriveCapped(r)
    \/ MonthUsedCached(r)
    \/ MonthUsedLoads(r)
    \/ MonthUsedFails(r)
    \/ \E status \in Statuses : Finish(r, status)
    \/ RecordPending(r)
    \/ RecordCounter(r)

FlushStep ==
    \/ FlushTick
    \/ FlushLast
    \/ NothingLeft
    \/ WriteCommits
    \/ WriteFails
    \/ WriteAmbiguous
    \/ FlushTouches

Next ==
    \/ Tick
    \/ \E r \in Requests : RequestStep(r)
    \/ FlushStep
    \/ Terminate
    \/ Drained
    \/ Crash
    \/ Restart

Spec == Init /\ [][Next]_vars

(***************************************************************************)
(* Fairness.  Run's ticker fires every 10 s and nothing else runs in its   *)
(* goroutine, so Flush is called again and again and ends (both its calls  *)
(* have a timeout); the database does not refuse every write for ever.     *)
(***************************************************************************)
Fairness ==
    /\ WF_vars(FlushTick)
    /\ WF_vars(FlushTouches)
    /\ SF_vars(WriteCommits)

FairSpec == Spec /\ Fairness

-----------------------------------------------------------------------------
TypeOK ==
    /\ clock \in Months
    /\ pc \in [Requests -> PCs]
    /\ ms \in [Requests -> Months]
    /\ month \in [Requests -> Months]
    /\ kind \in [Requests -> Kinds]
    /\ counter \in [Accounts -> [ready: BOOLEAN, month: Months, value: Nat]]
    /\ pending \subseteq Requests
    /\ flusher \in {"idle", "writing", "touching"}
    /\ batch \subseteq Requests
    /\ final \in BOOLEAN
    /\ phase \in Phases
    /\ exit \in {"none", "clean", "unflushed", "crash"}
    /\ restarts \in 0 .. MaxRestarts
    /\ db \in [Requests -> Nat]
    /\ ambiguous \in 0 .. MaxAmbiguous
    /\ mine \subseteq Requests
    /\ drift \in [Accounts -> Int]

(***************************************************************************)
(* Nothing the living process recorded is lost between pending, the batch  *)
(* of a Flush and the table, whatever the swaps, merges and failures; and  *)
(* after a clean exit everything the process recorded is in the table.     *)
(***************************************************************************)
UsageKept ==
    Alive \/ exit = "clean" =>
        \A r \in mine : r \in pending \cup batch \/ db[r] > 0

(***************************************************************************)
(* A request is added to the table at most once, and once more for every   *)
(* commit that was reported as an error: a merged-back batch, a second     *)
(* Record or a restart never bill a unit that is still to be written.      *)
(***************************************************************************)
Waiting(r) == IF r \in pending \cup batch THEN 1 ELSE 0
UsageNotRepeated ==
    /\ pending \cap batch = {}
    /\ \A r \in Requests : db[r] + Waiting(r) <= 1 + ambiguous

\* Usage is written exactly: not lost, and not more often than is explained.
UsageExact == UsageKept /\ UsageNotRepeated

(***************************************************************************)
(* The meter implements a ledger: seen from the bill, maps, batches, swaps *)
(* and merges are invisible, usage is noted once and settled once.         *)
(***************************************************************************)
L == INSTANCE Ledger WITH
        noted <- Recorded,
        owed <- pending \cup batch,
        table <- db,
        doubts <- ambiguous,
        exit <- IF exit \in {"unflushed", "crash"} THEN "failed" ELSE exit
ImplementsLedger == L!Spec

(***************************************************************************)
(* What the properties above rest on: where units can be in each phase *)
(* of the process, and that a request not recorded yet has none.           *)
(***************************************************************************)
MemoryInv ==
    /\ Alive => exit = "none"
    /\ phase \in {"stopping", "down"} => \A r \in Requests : ~InFlight(r)
    /\ phase = "down" => pending = {} /\ flusher = "idle"
    /\ flusher # "writing" => batch = {}
    /\ final => phase = "stopping" /\ flusher # "idle" /\ pending = {}
    /\ \A r \in Requests \ Recorded :
          r \notin pending \cup batch \cup mine /\ db[r] = 0

UsageInv == MemoryInv /\ UsageKept /\ UsageNotRepeated

(***************************************************************************)
(* The second, in-memory account of the same requests agrees with the      *)
(* first: since its last load a month counter moves by exactly the         *)
(* requests recorded for its month, those between Record's two critical    *)
(* sections excepted, so its error is the one the load made.               *)
(***************************************************************************)
CounterConserved ==
    \A a \in Accounts : counter[a].ready =>
        counter[a].value + Cardinality(Half(a, counter[a].month)) =
            Cardinality(Counted(a, counter[a].month)) + drift[a]

\* Only usage, not errors, reaches the second critical section.
PendedInv == \A r \in Requests : pc[r] = "pended" => kind[r] = "counted"

CounterInv == CounterConserved /\ PendedInv

(***************************************************************************)
(* The monthly cap: a capped request is let through only while fewer than  *)
(* MonthlyCap requests of its account and month are completely recorded,   *)
(* unless the counter was loaded while usage was still unflushed.          *)
(***************************************************************************)
Granted(r) == pc[r] = "authorize" /\ pc'[r] = "running"
CapEnforced ==
    [][\A r \in Requests :
          Granted(r) /\ drift'[Owner(r)] >= 0 =>
              Cardinality(Counted(Owner(r), ms[r]) \ Half(Owner(r), ms[r]))
                  < MonthlyCap]_vars

(***************************************************************************)
(* Usage waiting in memory is eventually in the table, or the process has  *)
(* ended without a successful last Flush.                                  *)
(***************************************************************************)
EventuallyWritten ==
    \A r \in Requests :
        r \in pending ~> db[r] > 0 \/ exit \in {"unflushed", "crash"}

(***************************************************************************)
(* meter.go says of the month counter that nothing is counted twice in it: *)
(* it never exceeds the requests recorded for its account and month.       *)
(***************************************************************************)
NeverCountedTwice ==
    \A a \in Accounts : counter[a].ready =>
        counter[a].value <= Cardinality(Counted(a, counter[a].month))
=============================================================================
