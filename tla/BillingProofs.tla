----------------------------- MODULE BillingProofs ---------------------------
(***************************************************************************)
(* Proofs about Billing, for all accounts, jobs, periods and switches.     *)
(***************************************************************************)
EXTENDS Billing, FiniteSetTheorems, TLAPS

-----------------------------------------------------------------------------
(***************************************************************************)
(* What the statements do to the invoices S of one account whose           *)
(* subscription is since x.                                                *)
(***************************************************************************)
Ends(x, S) == {x} \cup {i.end : i \in S}
Bounded(x, S) == \E d \in Ends(x, S) : \A e \in Ends(x, S) : e <= d
OpenOf(S) == {i \in S : i.status = "open"}
Disjoint(S) == \A i, k \in S : i # k => ~Overlap(i, k)
Whole(S) == S \subseteq Invoices /\ \A i \in S : i.end = i.start + Month

\* A start read from a snapshot: it is the next one, or it was used.
Fits(s, x, S) ==
    \/ \E i \in S : i.start = s
    \/ s = NextStart(x, S) /\ Cardinality(OpenOf(S)) < MaxOpen

LEMMA InvoiceShape ==
    ASSUME NEW i \in Invoices
    PROVE  /\ i.start \in Days /\ i.start \in Nat /\ i.end \in Nat
           /\ i.status \in {"open", "paid", "void"}
BY DEF Invoices, Days

LEMMA NextStartTop ==
    ASSUME NEW x, NEW S, Bounded(x, S)
    PROVE  /\ NextStart(x, S) \in Ends(x, S)
           /\ \A e \in Ends(x, S) : e <= NextStart(x, S)
BY DEF NextStart, Latest, Bounded, Ends

LEMMA SameEnds ==
    ASSUME NEW x, NEW S, NEW R, Ends(x, S) = Ends(x, R)
    PROVE  /\ NextStart(x, S) = NextStart(x, R)
           /\ Bounded(x, S) <=> Bounded(x, R)
BY DEF NextStart, Bounded, Ends

\* Insert keeps whole invoices whole, and one more may be open.
LEMMA InsertShape ==
    ASSUME NEW S, Whole(S), IsFiniteSet(S),
           NEW start \in Days, NEW today \in Days
    PROVE  LET R == Insert(S, start, today) IN
           /\ Whole(R) /\ IsFiniteSet(R) /\ S \subseteq R
           /\ \E i \in R : i.start = start
           /\ \A i \in R : i \in S \/ i.start = start
           /\ Cardinality(OpenOf(R)) <= Cardinality(OpenOf(S)) + 1
           /\ \/ R = S
              \/ R = S \cup {Invoice(start, today)}
                    /\ \A i \in S : i.start # start
<1> DEFINE n == Invoice(start, today)
           R == Insert(S, start, today)
<1>1. /\ n \in Invoices /\ n.start = start /\ n.end = start + Month
      /\ n.status = "open"
  BY PeriodAssumption, DaysAssumption DEF Invoice, Invoices, Days
<1>2. CASE \E i \in S : i.start = start
  <2>1. R = S
    BY <1>2 DEF Insert
  <2>2. IsFiniteSet(OpenOf(S))
    BY FS_Subset DEF OpenOf
  <2>3. Cardinality(OpenOf(S)) \in Nat
    BY <2>2, FS_CardinalityType
  <2>4. QED
    BY <1>2, <2>1, <2>3
<1>3. CASE ~\E i \in S : i.start = start
  <2>1. R = S \cup {n} /\ n \notin S
    BY <1>1, <1>3 DEF Insert
  <2>2. Whole(R)
    BY <1>1, <2>1 DEF Whole
  <2>3. IsFiniteSet(R)
    BY <2>1, FS_AddElement
  <2>4. IsFiniteSet(OpenOf(S)) /\ OpenOf(R) = OpenOf(S) \cup {n}
        /\ n \notin OpenOf(S)
    BY <1>1, <2>1, FS_Subset DEF OpenOf
  <2>5. Cardinality(OpenOf(R)) = Cardinality(OpenOf(S)) + 1
    BY <2>4, FS_AddElement
  <2>6. Cardinality(OpenOf(S)) \in Nat
    BY <2>4, FS_CardinalityType
  <2>7. QED
    BY <1>1, <1>3, <2>1, <2>2, <2>3, <2>5, <2>6
<1>4. QED
  BY <1>2, <1>3

LEMMA InsertBounded ==
    ASSUME NEW S, Whole(S), IsFiniteSet(S), NEW x \in Int, Bounded(x, S),
           NEW start \in Days, NEW today \in Days
    PROVE  Bounded(x, Insert(S, start, today))
<1> DEFINE n == Invoice(start, today)
           R == Insert(S, start, today)
           N == NextStart(x, S)
<1>1. CASE R = S
  BY <1>1
<1>2. CASE R = S \cup {n}
  <2>1. n.end = start + Month /\ n.end \in Nat
    BY PeriodAssumption, DaysAssumption DEF Invoice, Days
  <2>2. Ends(x, R) = Ends(x, S) \cup {n.end}
    BY <1>2 DEF Ends
  <2>3. \A e \in Ends(x, S) : e \in Int
    BY InvoiceShape DEF Ends, Whole
  <2>4. N \in Ends(x, S) /\ \A e \in Ends(x, S) : e <= N
    BY NextStartTop
  <2>5. CASE N <= n.end
    <3>1. n.end \in Ends(x, R) /\ \A e \in Ends(x, R) : e <= n.end
      BY <2>1, <2>2, <2>3, <2>4, <2>5
    <3>2. QED
      BY <3>1 DEF Bounded
  <2>6. CASE ~(N <= n.end)
    <3>1. N \in Ends(x, R) /\ \A e \in Ends(x, R) : e <= N
      BY <2>1, <2>2, <2>3, <2>4, <2>6
    <3>2. QED
      BY <3>1 DEF Bounded
  <2>7. QED
    BY <2>5, <2>6
<1>3. QED
  BY <1>1, <1>2, InsertShape

\* An invoice that begins where all others have ended overlaps none.
LEMMA InsertAtTop ==
    ASSUME NEW S, Whole(S), IsFiniteSet(S), NEW x \in Int, Bounded(x, S),
           Disjoint(S), NEW start \in Days, NEW today \in Days,
           start = NextStart(x, S)
    PROVE  Disjoint(Insert(S, start, today))
<1> DEFINE n == Invoice(start, today)
           R == Insert(S, start, today)
<1>1. CASE R = S
  BY <1>1
<1>2. CASE R = S \cup {n}
  <2>1. n.start = start
    BY DEF Invoice
  <2>2. ASSUME NEW i \in S PROVE ~Overlap(i, n) /\ ~Overlap(n, i)
    <3>1. i.end <= start
      BY NextStartTop DEF Ends
    <3>2. i.end \in Nat /\ start \in Int
      BY InvoiceShape DEF Whole, Days
    <3>3. QED
      BY <2>1, <3>1, <3>2 DEF Overlap
  <2>3. QED
    BY <1>2, <2>2 DEF Disjoint
<1>3. QED
  BY <1>1, <1>2, InsertShape

LEMMA InsertFits ==
    ASSUME NEW S, Whole(S), IsFiniteSet(S), NEW x,
           NEW start \in Days, NEW today \in Days,
           start = NextStart(x, S), NEW s, Fits(s, x, S)
    PROVE  Fits(s, x, Insert(S, start, today))
BY InsertShape DEF Fits

\* Invoices that are paid or void, and nothing else of them changed.
LEMMA Restatus ==
    ASSUME NEW S, Whole(S), IsFiniteSet(S), NEW x,
           NEW f \in [S -> Invoices],
           \A i \in S : /\ f[i].start = i.start /\ f[i].end = i.end
                        /\ f[i].status = "open" => f[i] = i,
           NEW R, R = {f[i] : i \in S}
    PROVE  /\ Whole(R) /\ IsFiniteSet(R)
           /\ Bounded(x, S) => Bounded(x, R)
           /\ Disjoint(S) => Disjoint(R)
           /\ OpenOf(R) \subseteq OpenOf(S)
           /\ Cardinality(OpenOf(R)) <= Cardinality(OpenOf(S))
           /\ \A s : Fits(s, x, S) => Fits(s, x, R)
<1>1. Whole(R)
  BY DEF Whole
<1>2. IsFiniteSet(R)
  <2>1. f \in Surjection(S, R)
    BY DEF Surjection
  <2>2. QED
    BY <2>1, FS_Surjection
<1>3. Ends(x, R) = Ends(x, S)
  BY DEF Ends
<1>4. NextStart(x, S) = NextStart(x, R) /\ (Bounded(x, S) => Bounded(x, R))
  BY <1>3, SameEnds
<1>5. Disjoint(S) => Disjoint(R)
  BY DEF Disjoint, Overlap
<1>6. OpenOf(R) \subseteq OpenOf(S)
  BY DEF OpenOf
<1>7. IsFiniteSet(OpenOf(S))
  BY FS_Subset DEF OpenOf
<1>8. /\ Cardinality(OpenOf(R)) <= Cardinality(OpenOf(S))
      /\ Cardinality(OpenOf(R)) \in Nat /\ Cardinality(OpenOf(S)) \in Nat
  BY <1>6, <1>7, FS_Subset, FS_CardinalityType
<1>9. ASSUME NEW s, Fits(s, x, S) PROVE Fits(s, x, R)
  <2>1. CASE \E i \in S : i.start = s
    <3>1. \E i \in R : i.start = s
      BY <2>1
    <3>2. QED
      BY <3>1 DEF Fits
  <2>2. CASE s = NextStart(x, S) /\ Cardinality(OpenOf(S)) < MaxOpen
    BY <1>4, <1>8, <2>2, MaxOpenAssumption DEF Fits
  <2>3. QED
    BY <1>9, <2>1, <2>2 DEF Fits
<1>10. QED
  BY <1>1, <1>2, <1>4, <1>5, <1>6, <1>8, <1>9

-----------------------------------------------------------------------------
(***************************************************************************)
(* Why the job does no harm.  The snapshot of a job under way is still     *)
(* right, or the invoice it would issue was issued by somebody else, as    *)
(* long as since is what the job has read: since only grows, so one that   *)
(* has changed never comes back.  Nothing is said of an account once a     *)
(* job has inserted a row for it although it had changed.                  *)
(***************************************************************************)
AccountInv(a) ==
    /\ Whole(invoices[a]) /\ IsFiniteSet(invoices[a])
    /\ since[a] \in Days \cup {NoDate} /\ since[a] <= day
    /\ Bounded(since[a], invoices[a])
    /\ ~stale[a] =>
          /\ Disjoint(invoices[a])
          /\ Cardinality(OpenOf(invoices[a])) <= MaxOpen
          /\ ~subscription[a] => OpenOf(invoices[a]) = {}

\* What job x has read of account a.
ReadInv(x, a) ==
    /\ a \in Accounts /\ x.start[a] \in Days
    /\ x.row[a][1] = TRUE
    /\ x.row[a][2] \in Days /\ x.row[a][2] <= since[a]
    /\ ~stale[a] /\ x.row[a][2] = since[a] =>
          Fits(x.start[a], since[a], invoices[a])

JobInv(j) ==
    \/ job[j] = NoJob
    \/ /\ job[j].running = TRUE /\ job[j].now \in Days
       /\ \A a \in DOMAIN job[j].start : ReadInv(job[j], a)

FlagsInv ==
    /\ day \in Days
    /\ subscription \in [Accounts -> BOOLEAN]
    /\ since \in [Accounts -> Days \cup {NoDate}]
    /\ ecosystem \in [Accounts -> BOOLEAN]
    /\ DOMAIN invoices = Accounts /\ invoices = [a \in Accounts |-> invoices[a]]
    /\ DOMAIN job = Jobs
    /\ switches \in 0 .. MaxSwitches
    /\ stale \in [Accounts -> BOOLEAN]

Inv ==
    /\ FlagsInv
    /\ \A a \in Accounts : AccountInv(a)
    /\ \A j \in Jobs : JobInv(j)

LEMMA InvInit == Init => Inv
<1> SUFFICES ASSUME Init PROVE Inv
  OBVIOUS
<1>1. 0 \in Days
  BY DaysAssumption DEF Days
<1>2. FlagsInv
  BY <1>1, SwitchesAssumption DEF Init, FlagsInv
<1>3. ASSUME NEW a \in Accounts PROVE AccountInv(a)
  <2>1. invoices[a] = {} /\ since[a] = NoDate /\ day = 0
    BY DEF Init
  <2>2. Ends(NoDate, {}) = {NoDate} /\ NoDate \in Int /\ NoDate <= 0
    BY DEF Ends, NoDate
  <2>3. Bounded(NoDate, {})
    BY <2>2 DEF Bounded
  <2>4. OpenOf({}) = {} /\ Cardinality({}) = 0 /\ IsFiniteSet({})
    BY FS_EmptySet DEF OpenOf
  <2>5. QED
    BY <2>1, <2>2, <2>3, <2>4, MaxOpenAssumption DEF AccountInv, Whole, Disjoint
<1>4. ASSUME NEW j \in Jobs PROVE JobInv(j)
  BY DEF Init, JobInv
<1>5. QED
  BY <1>2, <1>3, <1>4 DEF Inv

LEMMA FlagsNumbers ==
    ASSUME FlagsInv
    PROVE  /\ day \in Nat /\ MaxDay \in Nat /\ MaxOpen \in Nat /\ MaxOpen >= 1
           /\ \A a \in Accounts : since[a] \in Int
           /\ \A d \in Days : d \in Nat
BY DaysAssumption, MaxOpenAssumption DEF FlagsInv, Days, NoDate

\* An account and a job's view of it that nothing touches.
LEMMA AccountStays ==
    ASSUME NEW a, AccountInv(a), FlagsInv,
           invoices'[a] = invoices[a], since'[a] = since[a],
           subscription'[a] = subscription[a], stale'[a] = stale[a],
           day' = day \/ day' = day + 1, a \in Accounts
    PROVE  AccountInv(a)'
<1>1. since[a] <= day'
  BY FlagsNumbers DEF AccountInv
<1>2. QED
  BY <1>1 DEF AccountInv

LEMMA JobsStay ==
    ASSUME NEW j \in Jobs, JobInv(j), job'[j] = job[j],
           \A a \in Accounts :
              /\ stale'[a] = stale[a] /\ since'[a] = since[a]
              /\ invoices'[a] = invoices[a]
    PROVE  JobInv(j)'
BY DEF JobInv, ReadInv

\* A due account was found by a snapshot that tells the truth.
LEMMA DueFits ==
    ASSUME Inv, NEW a \in Accounts, NEW x \in Days, x <= day,
           Bounded(x, invoices[a]),
           NEW on, NEW eco, Due(on, eco, x, invoices[a], day)
    PROVE  /\ NextStart(x, invoices[a]) \in Days
           /\ Cardinality(OpenOf(invoices[a])) < MaxOpen
<1> DEFINE N == NextStart(x, invoices[a])
<1>1. N <= day /\ Cardinality(OpenOf(invoices[a])) < MaxOpen
  BY DEF Due, OpenOf
<1>2. N \in Ends(x, invoices[a]) /\ x <= N
  BY NextStartTop DEF Ends
<1>3. N \in Nat
  BY <1>2, InvoiceShape, FlagsNumbers DEF Ends, Inv, AccountInv, Whole
<1>4. day \in 0 .. MaxDay
  BY DEF Inv, FlagsInv, Days
<1>5. QED
  BY <1>1, <1>3, <1>4, DaysAssumption DEF Days

-----------------------------------------------------------------------------
(***************************************************************************)
(* Inv, action by action.                                                  *)
(***************************************************************************)
LEMMA QuietStep ==
    ASSUME Inv, UNCHANGED <<accountVars, invoices, stale>>,
           \/ Tick
           \/ UNCHANGED day /\ (UNCHANGED switches \/ Switched),
           DOMAIN job' = Jobs,
           NEW k, \A j \in Jobs : j # k => job'[j] = job[j],
           k \in Jobs => JobInv(k)'
    PROVE  Inv'
<1>1. day' = day \/ day' = day + 1
  BY DEF Tick
<1>2. FlagsInv'
  <2>1. day' \in Days
    BY DaysAssumption DEF Inv, FlagsInv, Tick, Days
  <2>2. switches' \in 0 .. MaxSwitches
    BY SwitchesAssumption DEF Inv, FlagsInv, Tick, Switched
  <2>3. QED
    BY <2>1, <2>2 DEF Inv, FlagsInv, accountVars
<1>3. ASSUME NEW a \in Accounts PROVE AccountInv(a)'
  BY <1>1, <1>3, AccountStays DEF Inv, accountVars
<1>4. ASSUME NEW j \in Jobs PROVE JobInv(j)'
  BY <1>4, JobsStay DEF Inv, accountVars
<1>5. QED
  BY <1>2, <1>3, <1>4 DEF Inv

LEMMA JobReadsStep ==
    ASSUME Inv, NEW j \in Jobs, JobReads(j)
    PROVE  Inv'
<1> DEFINE due == {a \in Accounts : Due(subscription[a], ecosystem[a], since[a],
                                        invoices[a], day)}
           x == [running |-> TRUE, now |-> day, row |-> [a \in due |-> Row(a)],
                 start |-> [a \in due |-> NextStart(since[a], invoices[a])]]
<1>1. job' = [job EXCEPT ![j] = x]
      /\ UNCHANGED <<day, accountVars, invoices, switches, stale>>
  BY DEF JobReads
<1>2. DOMAIN job' = Jobs /\ job'[j] = x
      /\ \A k \in Jobs : k # j => job'[k] = job[k]
  BY <1>1 DEF Inv, FlagsInv
<1>3. UNCHANGED <<day, subscription, since, ecosystem, invoices, stale>>
  BY <1>1 DEF accountVars
<1>4. ASSUME NEW a \in due PROVE ReadInv(x, a)'
  <2>1. AccountInv(a) /\ subscription[a] \in BOOLEAN /\ a \in Accounts
    BY <1>4 DEF Inv, FlagsInv
  <2>2. subscription[a] = TRUE /\ since[a] \in Days /\ since[a] <= day
    BY <1>4, <2>1 DEF Due, AccountInv
  <2>3. Bounded(since[a], invoices[a])
    BY <2>1 DEF AccountInv
  <2>4. x.start[a] = NextStart(since[a], invoices[a])
        /\ x.row[a] = <<subscription[a], since[a], ecosystem[a]>>
    BY <1>4 DEF Row
  <2>5. x.start[a] \in Days /\ Cardinality(OpenOf(invoices[a])) < MaxOpen
    BY <1>4, <2>1, <2>2, <2>3, <2>4, DueFits
  <2>6. since[a] <= since[a]
    BY <2>2, FlagsNumbers DEF Inv
  <2>7. x.start'[a] = x.start[a] /\ x.row'[a] = x.row[a]
    BY <1>3 DEF Row
  <2>8. Fits(x.start[a], since[a], invoices[a])
    BY <2>4, <2>5 DEF Fits
  <2> HIDE DEF x
  <2>9. QED
    BY <1>3, <2>1, <2>2, <2>4, <2>5, <2>6, <2>7, <2>8 DEF ReadInv
<1>5. JobInv(j)'
  <2>1. /\ job'[j].running = TRUE /\ job'[j].now \in Days
        /\ DOMAIN job'[j].start = due
    BY <1>2 DEF Inv, FlagsInv
  <2>2. ASSUME NEW a \in due
        PROVE  ReadInv(job[j], a)'
    <3>1. ReadInv(x, a)'
      BY <2>2, <1>4
    <3>2. x' = x
      BY <1>3 DEF Row
    <3>3. QED
      BY <1>2, <3>1, <3>2 DEF ReadInv
  <2>3. QED
    BY <2>1, <2>2 DEF JobInv
<1>6. QED
  BY <1>1, <1>2, <1>5, QuietStep

LEMMA JobFailsStep ==
    ASSUME Inv, NEW j \in Jobs, JobFails(j)
    PROVE  Inv'
<1>1. job' = [job EXCEPT ![j] = NoJob]
      /\ UNCHANGED <<day, accountVars, invoices, switches, stale>>
  BY DEF JobFails
<1>2. DOMAIN job' = Jobs /\ job'[j] = NoJob
      /\ \A k \in Jobs : k # j => job'[k] = job[k]
  BY <1>1 DEF Inv, FlagsInv
<1>3. JobInv(j)'
  BY <1>2 DEF JobInv
<1>4. QED
  BY <1>1, <1>2, <1>3, QuietStep

\* What the second half of a job does to an account it has read.
LEMMA JobInsertsAccount ==
    ASSUME Inv, NEW j \in Jobs, JobInserts(j), NEW a \in DOMAIN job[j].start
    PROVE  /\ AccountInv(a)'
           /\ \A s : ~stale'[a] /\ Fits(s, since[a], invoices[a])
                        => Fits(s, since[a], invoices'[a])
<1> DEFINE S == invoices[a]
           R == invoices'[a]
           start == job[j].start[a]
           now == job[j].now
<1>1. /\ job[j].running = TRUE /\ now \in Days /\ ReadInv(job[j], a)
  BY DEF Inv, JobInv, JobInserts, NoJob
<1>2. a \in Accounts /\ start \in Days /\ AccountInv(a)
  BY <1>1 DEF ReadInv, Inv
<1>3. R = Insert(S, start, now)
  BY <1>2 DEF JobInserts
<1>4. ~stale'[a] => ~stale[a] /\ (R = S \/ Row(a) = job[j].row[a])
  <2>1. stale'[a] = \/ stale[a]
                    \/ /\ a \in DOMAIN job[j].start
                       /\ R # S
                       /\ Row(a) # job[j].row[a]
    BY <1>2 DEF JobInserts
  <2>2. QED
    BY <2>1
<1>5. UNCHANGED <<day, subscription, since>>
  BY DEF JobInserts, accountVars
<1>6. /\ Whole(S) /\ IsFiniteSet(S) /\ since[a] \in Int /\ Bounded(since[a], S)
  BY <1>2, FlagsNumbers DEF AccountInv, Inv
<1>7. /\ Whole(R) /\ IsFiniteSet(R) /\ S \subseteq R
      /\ \E i \in R : i.start = start
      /\ Cardinality(OpenOf(R)) <= Cardinality(OpenOf(S)) + 1
      /\ R = S \/ \A i \in S : i.start # start
  <2> DEFINE I == Insert(S, start, now)
  <2>1. /\ Whole(I) /\ IsFiniteSet(I) /\ S \subseteq I
        /\ \E i \in I : i.start = start
        /\ Cardinality(OpenOf(I)) <= Cardinality(OpenOf(S)) + 1
        /\ I = S \/ \A i \in S : i.start # start
    BY <1>1, <1>2, <1>6, InsertShape
  <2> HIDE DEF I
  <2>2. I = R
    BY <1>3 DEF I
  <2>3. QED
    BY <2>1, <2>2
<1>8. Bounded(since[a], R)
  BY <1>1, <1>2, <1>3, <1>6, InsertBounded
<1>9. ASSUME ~stale'[a], R # S
      PROVE  /\ subscription[a] = TRUE /\ ~stale[a] /\ Disjoint(S)
             /\ start = NextStart(since[a], S)
             /\ Cardinality(OpenOf(S)) < MaxOpen
  <2>1. ~stale[a] /\ Row(a) = job[j].row[a]
    BY <1>4, <1>9
  <2>2. subscription[a] = TRUE /\ since[a] = job[j].row[a][2]
    BY <1>1, <2>1 DEF Row, ReadInv
  <2>3. Fits(start, since[a], S)
    BY <1>1, <2>1, <2>2 DEF ReadInv
  <2>4. QED
    BY <1>2, <1>7, <1>9, <2>1, <2>2, <2>3 DEF Fits, AccountInv
<1>10. ~stale'[a] =>
          /\ Disjoint(R)
          /\ Cardinality(OpenOf(R)) <= MaxOpen
          /\ ~subscription[a] => OpenOf(R) = {}
  <2>1. CASE R = S
    BY <1>2, <1>4, <2>1 DEF AccountInv
  <2>2. ASSUME R # S, ~stale'[a]
        PROVE  Disjoint(R) /\ Cardinality(OpenOf(R)) <= MaxOpen /\ subscription[a]
    <3>1. Disjoint(R)
      BY <1>1, <1>2, <1>3, <1>6, <1>9, <2>2, InsertAtTop
    <3>2. Cardinality(OpenOf(R)) \in Nat /\ Cardinality(OpenOf(S)) \in Nat
      BY <1>6, <1>7, FS_Subset, FS_CardinalityType DEF OpenOf
    <3>3. Cardinality(OpenOf(R)) <= MaxOpen
      <4>1. Cardinality(OpenOf(S)) < MaxOpen
        BY <1>9, <2>2
      <4>2. Cardinality(OpenOf(R)) <= Cardinality(OpenOf(S)) + 1
        BY <1>7
      <4>3. QED
        BY <3>2, <4>1, <4>2, MaxOpenAssumption
    <3>4. QED
      BY <1>9, <2>2, <3>1, <3>3
  <2>3. QED
    BY <2>1, <2>2
<1>11. AccountInv(a)'
  BY <1>2, <1>5, <1>7, <1>8, <1>10 DEF AccountInv
<1>12. ASSUME NEW s, ~stale'[a], Fits(s, since[a], S)
       PROVE  Fits(s, since[a], R)
  <2>1. CASE R = S
    BY <1>12, <2>1
  <2>2. CASE R # S
    BY <1>1, <1>2, <1>3, <1>6, <1>9, <1>12, <2>2, InsertFits
  <2>3. QED
    BY <2>1, <2>2
<1>13. QED
  BY <1>11, <1>12

LEMMA JobInsertsStep ==
    ASSUME Inv, NEW j \in Jobs, JobInserts(j)
    PROVE  Inv'
<1>1. /\ UNCHANGED <<day, subscription, since, ecosystem, switches>>
      /\ job' = [job EXCEPT ![j] = NoJob]
      /\ DOMAIN invoices' = Accounts
      /\ invoices' = [a \in Accounts |-> invoices'[a]]
  BY DEF JobInserts, accountVars
<1>2. DOMAIN job' = Jobs /\ job'[j] = NoJob
      /\ \A k \in Jobs : k # j => job'[k] = job[k]
  BY <1>1 DEF Inv, FlagsInv
<1>3. stale' \in [Accounts -> BOOLEAN] /\ \A a \in Accounts : stale[a] => stale'[a]
  BY DEF JobInserts, Inv, FlagsInv
<1>4. FlagsInv'
  BY <1>1, <1>2, <1>3 DEF Inv, FlagsInv
<1>5. ASSUME NEW a \in Accounts, a \notin DOMAIN job[j].start
      PROVE  invoices'[a] = invoices[a] /\ stale'[a] = stale[a]
  BY <1>5 DEF JobInserts, Inv, FlagsInv
<1>6. ASSUME NEW a \in Accounts PROVE AccountInv(a)'
  <2>1. CASE a \in DOMAIN job[j].start
    BY <2>1, JobInsertsAccount
  <2>2. CASE a \notin DOMAIN job[j].start
    BY <1>1, <1>5, <1>6, <2>2, AccountStays DEF Inv
  <2>3. QED
    BY <2>1, <2>2
<1>7. ASSUME NEW k \in Jobs PROVE JobInv(k)'
  <2>1. CASE k = j
    BY <1>2, <2>1 DEF JobInv
  <2>2. CASE k # j
    <3>1. job'[k] = job[k]
      BY <1>2, <2>2
    <3>2. ASSUME job[k] # NoJob, NEW a \in DOMAIN job[k].start
          PROVE  ReadInv(job[k], a)'
      <4>1. ReadInv(job[k], a) /\ a \in Accounts
        BY <3>2 DEF Inv, JobInv, ReadInv
      <4>2. \A s : ~stale'[a] /\ Fits(s, since[a], invoices[a])
                      => Fits(s, since[a], invoices'[a])
        BY <1>5, <4>1, JobInsertsAccount
      <4>3. ~stale'[a] => ~stale[a]
        BY <1>3, <4>1
      <4>4. QED
        BY <1>1, <3>1, <4>1, <4>2, <4>3 DEF ReadInv
    <3>3. QED
      BY <3>1, <3>2 DEF Inv, JobInv, ReadInv
  <2>3. QED
    BY <2>1, <2>2
<1>8. QED
  BY <1>4, <1>6, <1>7 DEF Inv

(***************************************************************************)
(* A step of the staff changes one account.  What jobs have read of it     *)
(* stays right if what fits still fits, or since has moved on.             *)
(***************************************************************************)
LEMMA StaffStep ==
    ASSUME Inv, NEW a \in Accounts, UNCHANGED <<day, job, stale>>, FlagsInv',
           AccountInv(a)', since[a] <= since'[a],
           \A b \in Accounts : b # a =>
              /\ invoices'[b] = invoices[b] /\ since'[b] = since[b]
              /\ subscription'[b] = subscription[b],
           ~stale[a] /\ since'[a] = since[a] =>
              \A s : Fits(s, since[a], invoices[a])
                        => Fits(s, since[a], invoices'[a])
    PROVE  Inv'
<1>1. ASSUME NEW b \in Accounts PROVE AccountInv(b)'
  BY <1>1, AccountStays DEF Inv
<1>2. ASSUME NEW j \in Jobs PROVE JobInv(j)'
  <2>1. ASSUME job[j] # NoJob, NEW b \in DOMAIN job[j].start
        PROVE  ReadInv(job[j], b)'
    <3>1. ReadInv(job[j], b) /\ b \in Accounts
      BY <2>1 DEF Inv, JobInv, ReadInv
    <3>2. CASE b # a
      BY <3>1, <3>2 DEF ReadInv
    <3>3. CASE b = a
      <4>1. since[a] \in Int /\ since'[a] \in Int /\ job[j].row[a][2] \in Int
        BY <3>1, <3>3, FlagsNumbers DEF Inv, ReadInv, FlagsInv, Days, NoDate
      <4>2. /\ job[j].row[a][2] <= since'[a]
            /\ job[j].row[a][2] = since'[a] => since'[a] = since[a]
        BY <3>1, <3>3, <4>1 DEF ReadInv
      <4>3. QED
        BY <3>1, <3>3, <4>2 DEF ReadInv
    <3>4. QED
      BY <3>2, <3>3
  <2>2. QED
    BY <2>1 DEF Inv, JobInv, ReadInv
<1>3. QED
  BY <1>1, <1>2 DEF Inv

\* Nothing happens, or a day passes.
LEMMA IdleStep ==
    ASSUME Inv, UNCHANGED <<accountVars, invoices, job, stale>>,
           Tick \/ UNCHANGED <<day, switches>>
    PROVE  Inv'
<1>1. DOMAIN job' = Jobs /\ \A j \in Jobs : job'[j] = job[j]
  BY DEF Inv, FlagsInv
<1>2. ASSUME NEW j \in Jobs PROVE JobInv(j)'
  BY <1>1, JobsStay DEF Inv, accountVars
<1>3. UNCHANGED <<accountVars, invoices, stale>>
  OBVIOUS
<1>4. Tick \/ (UNCHANGED day /\ (UNCHANGED switches \/ Switched))
  OBVIOUS
<1>5. 0 \in Jobs => JobInv(0)'
  BY <1>2
<1>6. QED
  BY <1>1, <1>3, <1>4, <1>5, QuietStep

LEMMA SwitchesStay ==
    ASSUME switches \in 0 .. MaxSwitches, Switched
    PROVE  switches' \in 0 .. MaxSwitches
BY SwitchesAssumption DEF Switched

LEMMA SetEcosystemStep ==
    ASSUME Inv, NEW a \in Accounts, NEW on \in BOOLEAN, SetEcosystem(a, on)
    PROVE  Inv'
<1>1. /\ UNCHANGED <<day, subscription, since, invoices, job, stale>>
      /\ ecosystem' = [ecosystem EXCEPT ![a] = on]
  BY DEF SetEcosystem
<1>2. switches' \in 0 .. MaxSwitches
  BY SwitchesStay DEF SetEcosystem, Inv, FlagsInv
<1>3. FlagsInv'
  BY <1>1, <1>2 DEF Inv, FlagsInv
<1>4. AccountInv(a)'
  BY <1>1, AccountStays DEF Inv
<1>5. since[a] <= since'[a]
  BY <1>1, FlagsNumbers DEF Inv
<1>6. QED
  BY <1>1, <1>3, <1>4, <1>5, StaffStep

LEMMA SubscribeOffStep ==
    ASSUME Inv, NEW a \in Accounts, SubscribeOff(a)
    PROVE  Inv'
<1> DEFINE S == invoices[a]
           R == invoices'[a]
           f == [i \in S |-> IF i.status = "open"
                             THEN [i EXCEPT !.status = "void"] ELSE i]
<1>1. /\ UNCHANGED <<day, since, ecosystem, job, stale>>
      /\ subscription' = [subscription EXCEPT ![a] = FALSE]
      /\ DOMAIN invoices' = Accounts
      /\ invoices' = [b \in Accounts |-> invoices'[b]]
      /\ \A b \in Accounts : b # a => /\ invoices'[b] = invoices[b]
                                     /\ subscription'[b] = subscription[b]
  BY DEF SubscribeOff, Inv, FlagsInv
<1>2. R = IF subscription[a] THEN {f[i] : i \in S} ELSE S
  <2>1. R = IF subscription[a]
            THEN {IF i.status = "open" THEN [i EXCEPT !.status = "void"] ELSE i :
                     i \in S}
            ELSE S
    BY DEF SubscribeOff, Inv, FlagsInv
  <2>2. {f[i] : i \in S} =
           {IF i.status = "open" THEN [i EXCEPT !.status = "void"] ELSE i :
               i \in S}
    OBVIOUS
  <2>3. QED
    BY <2>1, <2>2
<1>3. switches' \in 0 .. MaxSwitches
  BY SwitchesStay DEF SubscribeOff, Inv, FlagsInv
<1>4. FlagsInv'
  BY <1>1, <1>3 DEF Inv, FlagsInv
<1>5. AccountInv(a) /\ Whole(S) /\ IsFiniteSet(S) /\ Bounded(since[a], S)
  BY DEF Inv, AccountInv
<1>6. since[a] <= since'[a]
  BY <1>1, FlagsNumbers DEF Inv
<1>7. CASE ~subscription[a]
  <2>1. subscription'[a] = subscription[a] /\ R = S
    BY <1>1, <1>2, <1>7 DEF Inv, FlagsInv
  <2>2. AccountInv(a)'
    BY <1>1, <1>5, <2>1, AccountStays DEF Inv
  <2>3. QED
    BY <1>1, <1>4, <1>6, <2>1, <2>2, StaffStep
<1>8. CASE subscription[a]
  <2>1. ASSUME NEW i \in S
        PROVE  /\ f[i] \in Invoices
               /\ f[i].start = i.start /\ f[i].end = i.end
               /\ f[i].status # "open"
    <3>1. i \in Invoices
      BY <1>5 DEF Whole
    <3>2. CASE i.status = "open"
      BY <3>1, <3>2 DEF Invoices
    <3>3. CASE i.status # "open"
      BY <3>1, <3>3
    <3>4. QED
      BY <3>2, <3>3
  <2>2. f \in [S -> Invoices] /\ R = {f[i] : i \in S}
    BY <1>2, <1>8, <2>1
  <2>3. /\ Whole(R) /\ IsFiniteSet(R) /\ Bounded(since[a], R)
        /\ Disjoint(S) => Disjoint(R)
        /\ Cardinality(OpenOf(R)) <= Cardinality(OpenOf(S))
        /\ \A s : Fits(s, since[a], S) => Fits(s, since[a], R)
    <3> HIDE DEF f
    <3>1. QED
      BY <1>5, <2>1, <2>2, Restatus
  <2>4. OpenOf(R) = {}
    <3>1. \A r \in R : r.status # "open"
      BY <2>1, <2>2
    <3>2. QED
      BY <3>1 DEF OpenOf
  <2>5. Cardinality(OpenOf(R)) = 0
    BY <2>4, FS_EmptySet
  <2>6. AccountInv(a)'
    BY <1>1, <1>5, <2>3, <2>4, <2>5, MaxOpenAssumption DEF AccountInv
  <2>7. QED
    BY <1>1, <1>4, <1>6, <2>3, <2>6, StaffStep
<1>9. QED
  BY <1>7, <1>8

LEMMA CloseStep ==
    ASSUME Inv, NEW a \in Accounts, NEW k, NEW st \in {"paid", "void"},
           Close(a, k, st)
    PROVE  Inv'
<1> DEFINE S == invoices[a]
           R == invoices'[a]
           f == [i \in S |-> IF i = k THEN [i EXCEPT !.status = st] ELSE i]
<1>1. /\ UNCHANGED <<day, subscription, since, ecosystem, job, switches, stale>>
      /\ DOMAIN invoices' = Accounts
      /\ invoices' = [b \in Accounts |-> invoices'[b]]
      /\ \A b \in Accounts : b # a => invoices'[b] = invoices[b]
      /\ R = (S \ {k}) \cup {[k EXCEPT !.status = st]}
      /\ k \in S
  BY DEF Close, Open, accountVars, Inv, FlagsInv
<1>2. FlagsInv'
  BY <1>1 DEF Inv, FlagsInv
<1>3. AccountInv(a) /\ Whole(S) /\ IsFiniteSet(S) /\ Bounded(since[a], S)
  BY DEF Inv, AccountInv
<1>4. since[a] <= since'[a]
  BY <1>1, FlagsNumbers DEF Inv
<1>5. ASSUME NEW i \in S
      PROVE  /\ f[i] \in Invoices
             /\ f[i].start = i.start /\ f[i].end = i.end
             /\ f[i].status = "open" => f[i] = i
  <2>1. i \in Invoices
    BY <1>3 DEF Whole
  <2>2. CASE i = k
    BY <2>1, <2>2 DEF Invoices
  <2>3. CASE i # k
    BY <2>1, <2>3
  <2>4. QED
    BY <2>2, <2>3
<1>6. f \in [S -> Invoices]
  BY <1>5
<1>7. R = {f[i] : i \in S}
  BY <1>1
<1>8. /\ Whole(R) /\ IsFiniteSet(R) /\ Bounded(since[a], R)
      /\ Disjoint(S) => Disjoint(R)
      /\ OpenOf(R) \subseteq OpenOf(S)
      /\ Cardinality(OpenOf(R)) <= Cardinality(OpenOf(S))
      /\ \A s : Fits(s, since[a], S) => Fits(s, since[a], R)
  <2> HIDE DEF f
  <2>1. QED
    BY <1>3, <1>5, <1>6, <1>7, Restatus
<1>9. /\ Cardinality(OpenOf(R)) \in Nat /\ Cardinality(OpenOf(S)) \in Nat
  BY <1>3, <1>8, FS_Subset, FS_CardinalityType DEF OpenOf
<1>10. AccountInv(a)'
  <2> HIDE DEF f
  <2>1. ~stale[a] => /\ Disjoint(R)
                     /\ Cardinality(OpenOf(R)) <= MaxOpen
                     /\ ~subscription[a] => OpenOf(R) = {}
    <3>1. ~stale[a] => Cardinality(OpenOf(S)) <= MaxOpen
      BY <1>3 DEF AccountInv
    <3>2. ~stale[a] => Cardinality(OpenOf(R)) <= MaxOpen
      BY <1>8, <1>9, <3>1, MaxOpenAssumption
    <3>3. QED
      BY <1>3, <1>8, <3>2 DEF AccountInv
  <2>2. QED
    BY <1>1, <1>3, <1>8, <2>1 DEF AccountInv
<1>11. QED
  BY <1>1, <1>2, <1>4, <1>8, <1>10, StaffStep

\* A subscription that begins today ends no period that had not ended.
LEMMA BoundedLater ==
    ASSUME NEW S, Whole(S), NEW x \in Int, NEW y \in Int, x <= y, Bounded(x, S)
    PROVE  Bounded(y, S)
<1> DEFINE N == NextStart(x, S)
<1>1. N \in Ends(x, S) /\ \A e \in Ends(x, S) : e <= N
  BY NextStartTop
<1>2. /\ \A e \in Ends(x, S) : e \in Int /\ (e = x \/ e \in Ends(y, S))
      /\ \A e \in Ends(y, S) : e = y \/ e \in Ends(x, S)
      /\ y \in Ends(y, S)
  BY InvoiceShape DEF Ends, Whole
<1>3. CASE N <= y
  <2>1. \A e \in Ends(y, S) : e <= y
    BY <1>1, <1>2, <1>3
  <2>2. QED
    BY <1>2, <2>1 DEF Bounded
<1>4. CASE ~(N <= y)
  <2>1. N # x
    BY <1>4
  <2>2. N \in Ends(y, S) /\ \A e \in Ends(y, S) : e <= N
    BY <1>1, <1>2, <1>4, <2>1
  <2>3. QED
    BY <2>2 DEF Bounded
<1>5. QED
  BY <1>3, <1>4

LEMMA SubscribeOnStep ==
    ASSUME Inv, NEW a \in Accounts, SubscribeOn(a)
    PROVE  Inv'
<1> DEFINE S == invoices[a]
           R == invoices'[a]
           s == IF subscription[a] THEN since[a] ELSE day
           N == NextStart(s, S)
           due == Due(TRUE, ecosystem[a], s, S, day)
<1>1. /\ UNCHANGED <<day, ecosystem, job, stale>>
      /\ subscription' = [subscription EXCEPT ![a] = TRUE]
      /\ since' = [since EXCEPT ![a] = s]
      /\ DOMAIN invoices' = Accounts
      /\ invoices' = [b \in Accounts |-> invoices'[b]]
      /\ \A b \in Accounts : b # a => invoices'[b] = invoices[b]
  BY DEF SubscribeOn, Inv, FlagsInv
<1>2. R = IF due THEN Insert(S, N, day) ELSE S
  BY DEF SubscribeOn, Inv, FlagsInv
<1>3. since'[a] = s /\ subscription'[a] = TRUE
      /\ \A b \in Accounts : b # a => since'[b] = since[b]
                                      /\ subscription'[b] = subscription[b]
  BY <1>1 DEF Inv, FlagsInv
<1>4. switches' \in 0 .. MaxSwitches
  BY SwitchesStay DEF SubscribeOn, Inv, FlagsInv
<1>5. /\ AccountInv(a) /\ Whole(S) /\ IsFiniteSet(S) /\ Bounded(since[a], S)
      /\ since[a] \in Int /\ day \in Int /\ day \in Days /\ since[a] <= day
  BY FlagsNumbers DEF Inv, AccountInv, FlagsInv
<1>6. s \in Days \cup {NoDate} /\ s \in Int /\ since[a] <= s /\ s <= day
  BY <1>5 DEF AccountInv
<1>7. FlagsInv'
  BY <1>1, <1>4, <1>6 DEF Inv, FlagsInv
<1>8. Bounded(s, S)
  BY <1>5, <1>6, BoundedLater
<1>9. CASE due
  <2>1. s \in Days
    BY <1>6, <1>9 DEF Due
  <2>2. N \in Days /\ Cardinality(OpenOf(S)) < MaxOpen
    BY <1>6, <1>8, <1>9, <2>1, DueFits
  <2> HIDE DEF s
  <2> DEFINE I == Insert(S, N, day)
  <2>3. /\ Whole(I) /\ IsFiniteSet(I)
        /\ Cardinality(OpenOf(I)) <= Cardinality(OpenOf(S)) + 1
    BY <1>5, <2>2, InsertShape
  <2>4. Bounded(s, I)
    BY <1>5, <1>6, <1>8, <2>2, InsertBounded
  <2>5. Disjoint(S) => Disjoint(I)
    BY <1>5, <1>6, <1>8, <2>2, InsertAtTop
  <2>6. ASSUME NEW t, Fits(t, s, S) PROVE Fits(t, s, I)
    BY <1>5, <2>2, <2>6, InsertFits
  <2>7. /\ Cardinality(OpenOf(I)) \in Nat /\ Cardinality(OpenOf(S)) \in Nat
    BY <1>5, <2>3, FS_Subset, FS_CardinalityType DEF OpenOf
  <2>8. Cardinality(OpenOf(I)) <= MaxOpen
    BY <2>2, <2>3, <2>7, MaxOpenAssumption
  <2>9. R = I
    BY <1>2, <1>9
  <2> HIDE DEF I
  <2>10. AccountInv(a)'
    BY <1>1, <1>3, <1>5, <1>6, <2>3, <2>4, <2>5, <2>8, <2>9 DEF AccountInv
  <2>11. since'[a] = since[a] =>
            \A t : Fits(t, since[a], S) => Fits(t, since[a], R)
    BY <1>3, <2>6, <2>9
  <2>12. since[a] <= since'[a]
    BY <1>3, <1>6
  <2>13. QED
    BY <1>1, <1>3, <1>7, <2>10, <2>11, <2>12, StaffStep
<1>10. CASE ~due
  <2>1. R = S
    BY <1>2, <1>10
  <2> HIDE DEF s
  <2>2. AccountInv(a)'
    BY <1>1, <1>3, <1>5, <1>6, <1>8, <2>1 DEF AccountInv
  <2>3. since[a] <= since'[a]
    BY <1>3, <1>6
  <2>4. QED
    BY <1>1, <1>3, <1>7, <2>1, <2>2, <2>3, StaffStep
<1>11. QED
  BY <1>9, <1>10

LEMMA InvStep == Inv /\ [Next]_vars => Inv'
<1> SUFFICES ASSUME Inv, [Next]_vars PROVE Inv'
  OBVIOUS
<1>1. CASE Tick
  BY <1>1, IdleStep DEF Tick
<1>2. ASSUME NEW a \in Accounts, AccountStep(a) PROVE Inv'
  <2>1. CASE SubscribeOn(a)
    BY <2>1, SubscribeOnStep
  <2>2. CASE SubscribeOff(a)
    BY <2>2, SubscribeOffStep
  <2>3. ASSUME NEW on \in BOOLEAN, SetEcosystem(a, on) PROVE Inv'
    BY <2>3, SetEcosystemStep
  <2>4. ASSUME NEW i \in invoices[a], MarkPaid(a, i) \/ VoidInvoice(a, i)
        PROVE  Inv'
    BY <2>4, CloseStep DEF MarkPaid, VoidInvoice
  <2>5. QED
    BY <1>2, <2>1, <2>2, <2>3, <2>4 DEF AccountStep
<1>3. ASSUME NEW j \in Jobs, JobStep(j) PROVE Inv'
  BY <1>3, JobReadsStep, JobInsertsStep, JobFailsStep DEF JobStep
<1>4. CASE UNCHANGED vars
  BY <1>4, IdleStep DEF vars
<1>5. QED
  BY <1>1, <1>2, <1>3, <1>4 DEF Next

LEMMA InvCorrect == Spec => []Inv
BY InvInit, InvStep, PTL DEF Spec

-----------------------------------------------------------------------------
(***************************************************************************)
(* Days, flags, invoices and snapshots are of their types: the columns of  *)
(* dev_accounts and billing_invoices, and what issueSQL has read.          *)
(***************************************************************************)
THEOREM TypeCorrect == Spec => []TypeOK
<1>1. ASSUME Inv PROVE TypeOK
  <2>1. \A a \in Accounts : invoices[a] \in SUBSET Invoices
    BY <1>1 DEF Inv, AccountInv, Whole
  <2>2. ASSUME NEW j \in Jobs, job[j].running
        PROVE  /\ job[j].now \in Days
               /\ DOMAIN job[j].start \subseteq Accounts
               /\ \A a \in DOMAIN job[j].start : job[j].start[a] \in Days
    <3>1. job[j] # NoJob
      BY <2>2 DEF NoJob
    <3>2. QED
      BY <1>1, <3>1 DEF Inv, JobInv, ReadInv
  <2>3. QED
    BY <1>1, <2>1, <2>2 DEF Inv, FlagsInv, TypeOK
<1>2. QED
  BY <1>1, InvCorrect, PTL

(***************************************************************************)
(* issueSQL and SetSubscription bill no day of an account twice, whatever  *)
(* the accounts, jobs and lengths of periods, unless a job inserted a row  *)
(* for an account that changed after its snapshot.                         *)
(***************************************************************************)
THEOREM PeriodsCorrect == Spec => []PeriodsDisjoint
<1>1. ASSUME Inv PROVE PeriodsDisjoint
  BY <1>1 DEF Inv, AccountInv, Disjoint, PeriodsDisjoint
<1>2. QED
  BY <1>1, InvCorrect, PTL

-----------------------------------------------------------------------------
(***************************************************************************)
(* What snapshots that were overtaken may add.  A statement that has read  *)
(* an account as due may insert one invoice and is gone then, so its       *)
(* invoice is paid for by one more of NotBilling; and none can be read as  *)
(* due while it is off, or while MaxOpen invoices are open.                *)
(***************************************************************************)
Late(a) ==
    /\ Cardinality(Open(a)) <= MaxOpen + Cardinality(NotBilling(a))
    /\ ~subscription[a] => Cardinality(Open(a)) <= Cardinality(NotBilling(a))

LateInv == \A a \in Accounts : Late(a)

LEMMA JobsFinite ==
    ASSUME NEW T, T \subseteq Jobs
    PROVE  IsFiniteSet(T) /\ Cardinality(T) \in Nat
BY JobsAssumption, FS_Subset, FS_CardinalityType

LEMMA OpenFinite ==
    ASSUME NEW S, IsFiniteSet(S)
    PROVE  Cardinality(OpenOf(S)) \in Nat
BY FS_Subset, FS_CardinalityType DEF OpenOf

LEMMA LateNumbers ==
    ASSUME Inv, NEW a \in Accounts
    PROVE  /\ Cardinality(Open(a)) \in Nat
           /\ NotBilling(a) \subseteq Jobs /\ NotBilling(a)' \subseteq Jobs
           /\ Cardinality(NotBilling(a)) \in Nat
           /\ Cardinality(NotBilling(a)') \in Nat
           /\ MaxOpen \in Nat
<1>1. Open(a) = OpenOf(invoices[a]) /\ IsFiniteSet(invoices[a])
  BY DEF Open, OpenOf, Inv, AccountInv
<1>2. NotBilling(a) \subseteq Jobs /\ NotBilling(a)' \subseteq Jobs
  BY DEF NotBilling
<1>3. QED
  BY <1>1, <1>2, OpenFinite, JobsFinite, MaxOpenAssumption

\* No more are open, and no more jobs are about to bill the account.
LEMMA LateKept ==
    ASSUME Inv, NEW a \in Accounts, Late(a),
           Cardinality(Open(a)') \in Nat,
           Cardinality(Open(a)') <= Cardinality(Open(a)),
           NotBilling(a) \subseteq NotBilling(a)',
           ~subscription'[a] => ~subscription[a]
    PROVE  Late(a)'
<1>1. Cardinality(NotBilling(a)) <= Cardinality(NotBilling(a)')
  BY LateNumbers, JobsFinite, FS_Subset
<1>2. Cardinality(Open(a)') <= MaxOpen + Cardinality(NotBilling(a)')
  BY <1>1, LateNumbers DEF Late
<1>3. ~subscription[a] => Cardinality(Open(a)') <= Cardinality(NotBilling(a)')
  BY <1>1, LateNumbers DEF Late
<1>4. QED
  BY <1>2, <1>3 DEF Late

\* The account and what jobs will do to it stay.
LEMMA LateRests ==
    ASSUME Inv, NEW a \in Accounts, Late(a), invoices'[a] = invoices[a],
           ~subscription'[a] => ~subscription[a],
           NotBilling(a) \subseteq NotBilling(a)'
    PROVE  Late(a)'
<1>1. Open(a)' = Open(a)
  BY DEF Open
<1>2. Cardinality(Open(a)') \in Nat /\ Cardinality(Open(a)') <= Cardinality(Open(a))
  BY <1>1, LateNumbers
<1>3. QED
  BY <1>2, LateKept

LEMMA LateReads ==
    ASSUME Inv, LateInv, NEW j \in Jobs, JobReads(j), NEW a \in Accounts
    PROVE  Late(a)'
<1> DEFINE due == {c \in Accounts : Due(subscription[c], ecosystem[c], since[c],
                                        invoices[c], day)}
<1>1. /\ job[j] = NoJob /\ UNCHANGED <<subscription, invoices>>
      /\ job'[j].running = TRUE /\ DOMAIN job'[j].start = due
      /\ \A k \in Jobs : k # j => job'[k] = job[k]
  BY DEF JobReads, accountVars, Inv, FlagsInv
<1>2. CASE a \in due
  <2>1. subscription[a] /\ Cardinality(Open(a)) < MaxOpen
    BY <1>2 DEF Due, Open
  <2>2. Open(a)' = Open(a) /\ subscription'[a] = subscription[a]
    BY <1>1 DEF Open
  <2>3. Cardinality(Open(a)') <= MaxOpen + Cardinality(NotBilling(a)')
    BY <2>1, <2>2, LateNumbers
  <2>4. QED
    BY <2>1, <2>2, <2>3 DEF Late
<1>3. CASE a \notin due
  <2>1. NotBilling(a) \subseteq NotBilling(a)'
    BY <1>1, <1>3 DEF NotBilling
  <2>2. QED
    BY <1>1, <2>1, LateRests DEF LateInv
<1>4. QED
  BY <1>2, <1>3

LEMMA LateInserts ==
    ASSUME Inv, LateInv, NEW j \in Jobs, JobInserts(j), NEW a \in Accounts
    PROVE  Late(a)'
<1>1. /\ job[j].running /\ UNCHANGED subscription /\ job'[j] = NoJob
      /\ \A k \in Jobs : k # j => job'[k] = job[k]
      /\ invoices'[a] = IF a \in DOMAIN job[j].start
                        THEN Insert(invoices[a], job[j].start[a], job[j].now)
                        ELSE invoices[a]
  BY DEF JobInserts, accountVars, Inv, FlagsInv
<1>2. NotBilling(a)' = NotBilling(a) \cup {j}
  BY <1>1 DEF NotBilling, NoJob
<1>3. CASE a \in DOMAIN job[j].start
  <2>1. /\ job[j].now \in Days /\ job[j].start[a] \in Days
        /\ Whole(invoices[a]) /\ IsFiniteSet(invoices[a])
    BY <1>1, <1>3 DEF Inv, JobInv, ReadInv, AccountInv, NoJob
  <2> DEFINE R == Insert(invoices[a], job[j].start[a], job[j].now)
  <2>2. /\ IsFiniteSet(R)
        /\ Cardinality(OpenOf(R)) <= Cardinality(OpenOf(invoices[a])) + 1
    BY <2>1, InsertShape
  <2>3. invoices'[a] = R
    BY <1>1, <1>3
  <2> HIDE DEF R
  <2>4. Open(a) = OpenOf(invoices[a]) /\ Open(a)' = OpenOf(R)
    BY <2>3 DEF Open, OpenOf
  <2>5. Cardinality(Open(a)') <= Cardinality(Open(a)) + 1 /\ Cardinality(Open(a)') \in Nat
    BY <2>2, <2>4, OpenFinite
  <2>6. j \notin NotBilling(a)
    BY <1>1, <1>3 DEF NotBilling
  <2>7. Cardinality(NotBilling(a)') = Cardinality(NotBilling(a)) + 1
    BY <1>2, <2>6, LateNumbers, JobsFinite, FS_AddElement
  <2>8. Cardinality(Open(a)') <= MaxOpen + Cardinality(NotBilling(a)')
    BY <2>5, <2>7, LateNumbers DEF LateInv, Late
  <2>9. ~subscription[a] => Cardinality(Open(a)') <= Cardinality(NotBilling(a)')
    BY <2>5, <2>7, LateNumbers DEF LateInv, Late
  <2>10. QED
    BY <1>1, <2>8, <2>9 DEF Late
<1>4. CASE a \notin DOMAIN job[j].start
  BY <1>1, <1>2, <1>4, LateRests DEF LateInv
<1>5. QED
  BY <1>3, <1>4

\* Staff changes account a: no invoice is opened but of one that is due.
LEMMA LateStaff ==
    ASSUME Inv, Inv', LateInv, NEW a \in Accounts, AccountStep(a),
           NEW c \in Accounts
    PROVE  Late(c)'
<1>1. UNCHANGED job
  BY DEF AccountStep, SubscribeOn, SubscribeOff, SetEcosystem, MarkPaid,
         VoidInvoice, Close
<1>2. NotBilling(c)' = NotBilling(c)
  BY <1>1 DEF NotBilling
<1>3. CASE c # a
  <2>1. invoices'[c] = invoices[c] /\ subscription'[c] = subscription[c]
    BY <1>3 DEF AccountStep, SubscribeOn, SubscribeOff, SetEcosystem, MarkPaid,
           VoidInvoice, Close, accountVars, Inv, FlagsInv
  <2>2. QED
    BY <1>2, <2>1, LateRests DEF LateInv
<1>4. CASE c = a
  <2>1. IsFiniteSet(invoices'[a])
    BY DEF Inv, AccountInv
  <2>2. Open(a)' = OpenOf(invoices'[a]) /\ Open(a) = OpenOf(invoices[a])
    BY DEF Open, OpenOf
  <2>3. Cardinality(Open(a)') \in Nat
    BY <2>1, <2>2, OpenFinite
  <2>4. CASE SubscribeOn(a)
    <3> DEFINE s == IF subscription[a] THEN since[a] ELSE day
               N == NextStart(s, invoices[a])
    <3>1. /\ subscription'[a] = TRUE
          /\ invoices'[a] = IF Due(TRUE, ecosystem[a], s, invoices[a], day)
                            THEN Insert(invoices[a], N, day) ELSE invoices[a]
      BY <2>4 DEF SubscribeOn, Inv, FlagsInv
    <3>2. CASE Due(TRUE, ecosystem[a], s, invoices[a], day)
      <4>1. /\ Whole(invoices[a]) /\ IsFiniteSet(invoices[a])
            /\ Bounded(since[a], invoices[a])
            /\ since[a] \in Int /\ since[a] <= day /\ day \in Days /\ day \in Int
            /\ since[a] \in Days \cup {NoDate}
        BY FlagsNumbers DEF Inv, AccountInv, FlagsInv
      <4>2. s \in Int /\ since[a] <= s /\ s <= day /\ s \in Days
        BY <3>2, <4>1 DEF Due
      <4>3. Bounded(s, invoices[a])
        BY <4>1, <4>2, BoundedLater
      <4>4. N \in Days /\ Cardinality(OpenOf(invoices[a])) < MaxOpen
        BY <3>2, <4>2, <4>3, DueFits
      <4>5. Cardinality(OpenOf(invoices'[a])) <= Cardinality(OpenOf(invoices[a])) + 1
        <5> HIDE DEF N
        <5>1. QED
          BY <3>1, <3>2, <4>1, <4>4, InsertShape
      <4>6. Cardinality(Open(a)') <= MaxOpen + Cardinality(NotBilling(a)')
        BY <2>2, <2>3, <4>4, <4>5, LateNumbers
      <4>7. QED
        BY <1>4, <3>1, <4>6 DEF Late
    <3>3. CASE ~Due(TRUE, ecosystem[a], s, invoices[a], day)
      BY <1>2, <1>4, <3>1, <3>3, LateRests DEF LateInv
    <3>4. QED
      BY <3>2, <3>3
  <2>5. CASE SubscribeOff(a)
    <3>1. CASE subscription[a]
      <4>1. \A i \in invoices'[a] : i.status # "open"
        <5>1. \A i \in invoices[a] : i \in Invoices
          BY DEF Inv, AccountInv, Whole
        <5>2. invoices'[a] = {IF i.status = "open" THEN [i EXCEPT !.status = "void"] ELSE i :
                                 i \in invoices[a]}
          BY <2>5, <3>1 DEF SubscribeOff, Inv, FlagsInv
        <5>3. ASSUME NEW i \in invoices[a], i.status = "open"
              PROVE  [i EXCEPT !.status = "void"].status # "open"
          BY <5>1, <5>3 DEF Invoices
        <5>4. QED
          BY <5>2, <5>3
      <4>2. Open(a)' = {}
        BY <4>1 DEF Open
      <4>3. Cardinality(Open(a)') = 0
        BY <4>2, FS_EmptySet
      <4>4. QED
        BY <1>4, <4>3, LateNumbers DEF Late
    <3>2. CASE ~subscription[a]
      <4>1. invoices'[a] = invoices[a]
        BY <2>5, <3>2 DEF SubscribeOff, Inv, FlagsInv
      <4>2. QED
        BY <1>2, <1>4, <3>2, <4>1, LateRests DEF LateInv
    <3>3. QED
      BY <3>1, <3>2
  <2>6. ASSUME NEW on \in BOOLEAN, SetEcosystem(a, on) PROVE Late(a)'
    <3>1. invoices'[a] = invoices[a] /\ subscription'[a] = subscription[a]
      BY <2>6 DEF SetEcosystem
    <3>2. QED
      BY <1>2, <1>4, <3>1, LateRests DEF LateInv
  <2>7. ASSUME NEW i \in invoices[a], NEW st \in {"paid", "void"}, Close(a, i, st)
        PROVE  Late(a)'
    <3>1. /\ subscription'[a] = subscription[a]
          /\ invoices'[a] = (invoices[a] \ {i}) \cup {[i EXCEPT !.status = st]}
      BY <2>7 DEF Close, accountVars, Inv, FlagsInv
    <3>2. i \in Invoices
      BY DEF Inv, AccountInv, Whole
    <3>3. [i EXCEPT !.status = st].status # "open"
      BY <3>2 DEF Invoices
    <3>4. Open(a)' \subseteq Open(a)
      BY <3>1, <3>3 DEF Open
    <3>5. IsFiniteSet(Open(a))
      BY FS_Subset DEF Open, Inv, AccountInv
    <3>6. Cardinality(Open(a)') <= Cardinality(Open(a))
      BY <3>4, <3>5, FS_Subset
    <3>7. QED
      BY <1>2, <1>4, <2>3, <3>1, <3>6, LateKept DEF LateInv
  <2>8. QED
    BY <1>4, <2>4, <2>5, <2>6, <2>7 DEF AccountStep, MarkPaid, VoidInvoice
<1>5. QED
  BY <1>3, <1>4

LEMMA LateStep ==
    ASSUME Inv, Inv', LateInv, [Next]_vars
    PROVE  LateInv'
<1> SUFFICES ASSUME NEW a \in Accounts PROVE Late(a)'
  BY DEF LateInv
<1>1. ASSUME UNCHANGED <<accountVars, invoices>>,
             \A j \in Jobs : job'[j] = job[j] \/ job'[j] = NoJob
      PROVE  Late(a)'
  <2>1. NotBilling(a) \subseteq NotBilling(a)'
    BY <1>1 DEF NotBilling, NoJob
  <2>2. QED
    BY <1>1, <2>1, LateRests DEF LateInv, accountVars
<1>2. CASE Tick \/ UNCHANGED vars
  BY <1>1, <1>2 DEF Tick, vars
<1>3. ASSUME NEW j \in Jobs, JobFails(j) PROVE Late(a)'
  BY <1>1, <1>3 DEF JobFails, Inv, FlagsInv
<1>4. QED
  BY <1>2, <1>3, LateReads, LateInserts, LateStaff DEF Next, JobStep

LEMMA LateInit == Init => LateInv
<1> SUFFICES ASSUME Init, NEW a \in Accounts PROVE Late(a)
  BY DEF LateInv
<1>1. Cardinality(Open(a)) = 0
  BY FS_EmptySet DEF Init, Open
<1>2. NotBilling(a) \subseteq Jobs
  BY DEF NotBilling
<1>3. QED
  BY <1>1, <1>2, JobsFinite, MaxOpenAssumption DEF Late

LEMMA LateCorrect == Spec => []LateInv
<1>1. Init => Inv /\ LateInv
  BY InvInit, LateInit
<1>2. Inv /\ LateInv /\ [Next]_vars => Inv' /\ LateInv'
  BY InvStep, LateStep
<1>3. QED
  BY <1>1, <1>2, PTL DEF Spec

(***************************************************************************)
(* issueSQL counts the open invoices, and its INSERT comes later: still    *)
(* the debt of an account never passes MaxOpen invoices, and by one for    *)
(* every job at most when the account changes in between.                  *)
(***************************************************************************)
THEOREM DebtCorrect == Spec => []DebtBounded
<1>1. ASSUME Inv, LateInv PROVE DebtBounded
  BY <1>1 DEF Inv, AccountInv, OpenOf, Open, LateInv, Late, DebtBounded
<1>2. QED
  BY <1>1, InvCorrect, LateCorrect, PTL

(***************************************************************************)
(* SetSubscription(off) voids what is open, and no job that is not stale   *)
(* opens an invoice of an account that is off; one whose snapshot the      *)
(* switch has overtaken opens at most one.                                 *)
(***************************************************************************)
THEOREM OffCorrect == Spec => []NothingOwedWhenOff
<1>1. ASSUME Inv, LateInv PROVE NothingOwedWhenOff
  BY <1>1 DEF Inv, AccountInv, OpenOf, Open, LateInv, Late, NothingOwedWhenOff
<1>2. QED
  BY <1>1, InvCorrect, LateCorrect, PTL
=============================================================================
