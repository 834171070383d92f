----------------------------- MODULE MeterProofs -----------------------------
(***************************************************************************)
(* Proofs about Meter, for every set of requests, keys and accounts, every *)
(* cap and every bound.                                                    *)
(***************************************************************************)
EXTENDS Meter, FiniteSetTheorems, TLAPS

-----------------------------------------------------------------------------
(***************************************************************************)
(* Every request belongs to an account.                                    *)
(***************************************************************************)
LEMMA OwnerType == \A r \in Requests : Owner(r) \in Accounts
BY KeyOfAssumption, AccountOfAssumption DEF Owner

(***************************************************************************)
(* classify always answers, with one of the three kinds.                   *)
(***************************************************************************)
LEMMA ClassifyType == \A status \in Statuses : classify(status) \in Kinds
BY DEF classify, Kinds

(***************************************************************************)
(* The sum MonthUsage returns is a natural number: a finite set of units.  *)
(***************************************************************************)
LEMMA MonthUsageType ==
    ASSUME NEW a, NEW from, db \in [Requests -> Nat]
    PROVE  MonthUsage(a, from) \in Nat
<1> DEFINE S == {q \in Requests : /\ Owner(q) = a
                                  /\ kind[q] = "counted"
                                  /\ month[q] >= from}
           Unit(r) == {r} \X (1 .. db[r])
           F == [r \in S |-> Unit(r)]
           T == {Unit(r) : r \in S}
<1>1. IsFiniteSet(S)
  BY RequestsAssumption, FS_Subset
<1>2. IsFiniteSet(T)
  <2>1. F \in Surjection(S, T)
    BY DEF Surjection
  <2>2. QED
    BY <1>1, <2>1, FS_Surjection
<1>3. ASSUME NEW U \in T PROVE IsFiniteSet(U)
  <2>1. PICK r \in S : U = Unit(r)
    OBVIOUS
  <2> db[r] \in Int
    OBVIOUS
  <2>2. IsFiniteSet({r}) /\ IsFiniteSet(1 .. db[r])
    <3>1. IsFiniteSet({r})
      BY FS_Singleton
    <3>2. IsFiniteSet(1 .. db[r])
      BY FS_Interval
    <3>3. QED
      BY <3>1, <3>2
  <2>3. QED
    BY <2>1, <2>2, FS_Product
<1>4. IsFiniteSet(UNION T)
  BY <1>2, <1>3, FS_UNION
<1>5. UsageUnits(a, from) = UNION T
  BY DEF UsageUnits
<1>6. QED
  BY <1>4, <1>5, FS_CardinalityType DEF MonthUsage

-----------------------------------------------------------------------------
(***************************************************************************)
(* A counter that was not loaded is a counter.                             *)
(***************************************************************************)
LEMMA NotReadyType ==
    NotReady \in [ready: BOOLEAN, month: Months, value: Nat]
BY BoundsAssumption DEF NotReady, Months

(***************************************************************************)
(* Die keeps the types, whatever else its caller changes.                  *)
(***************************************************************************)
LEMMA DieType ==
    ASSUME TypeOK, NEW how \in {"clean", "unflushed", "crash"}, Die(how),
           db' \in [Requests -> Nat], ambiguous' \in 0 .. MaxAmbiguous
    PROVE  TypeOK'
<1>1. counter' \in [Accounts -> [ready: BOOLEAN, month: Months, value: Nat]]
  BY NotReadyType DEF Die
<1>2. pc' \in [Requests -> PCs] /\ ms' \in [Requests -> Months]
  BY BoundsAssumption DEF TypeOK, Die, PCs, Months
<1>3. QED
  BY <1>1, <1>2 DEF TypeOK, Die, Phases

(***************************************************************************)
(* What Written does to the table.                                         *)
(***************************************************************************)
LEMMA WrittenType ==
    ASSUME NEW b, db \in [Requests -> Nat]
    PROVE  Written(b) \in [Requests -> Nat]
BY DEF Written

(***************************************************************************)
(* Type correctness of the meter, for every instance.                      *)
(***************************************************************************)
THEOREM TypeCorrect == Spec => []TypeOK
<1>1. Init => TypeOK
  <2> SUFFICES ASSUME Init PROVE TypeOK
    OBVIOUS
  <2>1. counter \in [Accounts -> [ready: BOOLEAN, month: Months, value: Nat]]
    BY NotReadyType DEF Init
  <2>2. /\ clock \in Months
        /\ ms \in [Requests -> Months]
        /\ month \in [Requests -> Months]
    BY BoundsAssumption DEF Init, Months
  <2>3. restarts \in 0 .. MaxRestarts /\ ambiguous \in 0 .. MaxAmbiguous
    BY BoundsAssumption DEF Init
  <2>4. pc \in [Requests -> PCs] /\ kind \in [Requests -> Kinds] /\ phase \in Phases
    BY DEF Init, PCs, Kinds, Phases
  <2>5. db \in [Requests -> Nat] /\ drift \in [Accounts -> Int]
    BY DEF Init
  <2>6. QED
    BY <2>1, <2>2, <2>3, <2>4, <2>5 DEF Init, TypeOK
<1>2. TypeOK /\ [Next]_vars => TypeOK'
  <2> SUFFICES ASSUME TypeOK, [Next]_vars PROVE TypeOK'
    OBVIOUS
  <2> USE DEF processVars, requestVars, tableVars, flushVars
  <2>1. CASE Tick
    BY <2>1, BoundsAssumption DEF Tick, TypeOK, Months
  <2>2. ASSUME NEW r \in Requests, RequestStep(r) PROVE TypeOK'
    <3>1. CASE ArriveUncapped(r)
      BY <3>1 DEF ArriveUncapped, TypeOK, PCs
    <3>2. CASE ArriveCapped(r)
      BY <3>2 DEF ArriveCapped, TypeOK, PCs
    <3>3. CASE MonthUsedCached(r)
      BY <3>3, BoundsAssumption
      DEF MonthUsedCached, TypeOK, PCs, Verdict, Months
    <3>4. CASE MonthUsedLoads(r)
      <4>1. MonthUsage(Owner(r), ms[r]) \in Nat
        BY MonthUsageType DEF TypeOK
      <4>2. counter' \in [Accounts -> [ready: BOOLEAN, month: Months, value: Nat]]
        BY <3>4, <4>1 DEF MonthUsedLoads, TypeOK
      <4>3. drift' \in [Accounts -> Int]
        <5>1. IsFiniteSet(Half(Owner(r), ms[r])) /\ IsFiniteSet(Counted(Owner(r), ms[r]))
          BY RequestsAssumption, FS_Subset DEF Half, Counted, Recorded
        <5>2. /\ Cardinality(Half(Owner(r), ms[r])) \in Nat
              /\ Cardinality(Counted(Owner(r), ms[r])) \in Nat
          BY <5>1, FS_CardinalityType
        <5> DEFINE gap == MonthUsage(Owner(r), ms[r])
                            + Cardinality(Half(Owner(r), ms[r]))
                            - Cardinality(Counted(Owner(r), ms[r]))
        <5>3. gap \in Int
          BY <4>1, <5>2
        <5>4. drift' = [drift EXCEPT ![Owner(r)] = gap]
          BY <3>4 DEF MonthUsedLoads
        <5>5. QED
          BY <5>3, <5>4 DEF TypeOK
      <4>4. QED
        BY <3>4, <4>2, <4>3, BoundsAssumption
        DEF MonthUsedLoads, TypeOK, PCs, Verdict, Months
    <3>5. CASE MonthUsedFails(r)
      BY <3>5, BoundsAssumption DEF MonthUsedFails, TypeOK, PCs, Months
    <3>6. ASSUME NEW status \in Statuses, Finish(r, status) PROVE TypeOK'
      <4>1. classify(status) \in Kinds
        BY ClassifyType
      <4>2. QED
        BY <3>6, <4>1 DEF Finish, TypeOK, PCs
    <3>7. CASE RecordPending(r)
      BY <3>7 DEF RecordPending, TypeOK, PCs
    <3>8. CASE RecordCounter(r)
      BY <3>8, OwnerType DEF RecordCounter, TypeOK, PCs
    <3>9. QED
      BY <2>2, <3>1, <3>2, <3>3, <3>4, <3>5, <3>6, <3>7, <3>8 DEF RequestStep
  <2>3. CASE FlushStep
    <3>1. CASE FlushTick \/ FlushLast
      BY <3>1 DEF FlushTick, FlushLast, FlushTakes, TypeOK
    <3>2. CASE NothingLeft
      BY <3>2, DieType DEF NothingLeft, TypeOK
    <3>3. CASE WriteCommits
      BY <3>3, WrittenType DEF WriteCommits, TypeOK
    <3>4. ASSUME db' \in [Requests -> Nat], ambiguous' \in 0 .. MaxAmbiguous,
                 MergeBack
          PROVE  TypeOK'
      <4>1. CASE final /\ Die("unflushed")
        BY <3>4, <4>1, DieType
      <4>2. CASE ~(final /\ Die("unflushed"))
        BY <3>4, <4>2 DEF MergeBack, TypeOK
      <4>3. QED
        BY <4>1, <4>2
    <3>5. CASE WriteFails
      BY <3>4, <3>5 DEF WriteFails, TypeOK
    <3>6. CASE WriteAmbiguous
      BY <3>4, <3>6, WrittenType, BoundsAssumption DEF WriteAmbiguous, TypeOK
    <3>7. CASE FlushTouches
      <4>1. CASE final /\ Die("clean")
        BY <3>7, <4>1, DieType DEF FlushTouches, TypeOK
      <4>2. CASE ~(final /\ Die("clean"))
        BY <3>7, <4>2 DEF FlushTouches, TypeOK
      <4>3. QED
        BY <4>1, <4>2
    <3>8. QED
      BY <2>3, <3>1, <3>2, <3>3, <3>5, <3>6, <3>7 DEF FlushStep
  <2>4. CASE Terminate \/ Drained
    BY <2>4 DEF Terminate, Drained, TypeOK, Phases
  <2>5. CASE Crash
    BY <2>5, DieType DEF Crash, TypeOK
  <2>6. CASE Restart
    BY <2>6, BoundsAssumption DEF Restart, TypeOK, Phases
  <2>7. CASE UNCHANGED vars
    BY <2>7 DEF vars, TypeOK
  <2>8. QED
    BY <2>1, <2>2, <2>3, <2>4, <2>5, <2>6, <2>7 DEF Next
<1>3. QED
  BY <1>1, <1>2, PTL DEF Spec

-----------------------------------------------------------------------------
(***************************************************************************)
(* A step of a request before its Record leaves every unit where it is.    *)
(***************************************************************************)
LEMMA UsageFrame ==
    ASSUME UsageInv,
           UNCHANGED <<pending, batch, flusher, final, db, ambiguous, mine,
                       phase, exit>>,
           Recorded \subseteq Recorded',
           \A r \in Requests : InFlight(r)' => phase = "up" \/ InFlight(r)
    PROVE  UsageInv'
<1>1. MemoryInv'
  BY DEF UsageInv, MemoryInv, Alive
<1>2. UsageKept'
  BY DEF UsageInv, UsageKept, Alive
<1>3. UsageNotRepeated'
  BY DEF UsageInv, UsageNotRepeated, Waiting
<1>4. QED
  BY <1>1, <1>2, <1>3 DEF UsageInv

(***************************************************************************)
(* Die: memory is empty afterwards.  It may be a clean exit only if all    *)
(* that the process recorded is in the table by then.                      *)
(***************************************************************************)
LEMMA UsageDie ==
    ASSUME TypeOK, UsageInv, NEW how, Die(how),
           db' \in [Requests -> Nat],
           \A r \in Requests : db'[r] >= db[r],
           \A r \in Requests \ Recorded : db'[r] = 0,
           \A r \in Requests : db'[r] <= 1 + ambiguous',
           how = "clean" => \A r \in mine : db'[r] > 0
    PROVE  UsageInv'
<1>1. Recorded \subseteq Recorded'
  BY DEF Recorded, Die, TypeOK, InFlight, InFlightPCs
<1>2. \A r \in Requests : ~InFlight(r)'
  BY DEF Die, InFlight, InFlightPCs, TypeOK
<1>3. MemoryInv'
  <2>1. \A r \in (Requests \ Recorded)' :
            /\ r \notin (pending \cup batch \cup mine)'
            /\ db'[r] = 0
    BY <1>1 DEF Die, UsageInv, MemoryInv
  <2>2. QED
    BY <1>2, <2>1 DEF MemoryInv, Die, Alive
<1>4. UsageKept'
  BY DEF UsageKept, Die, Alive
<1>5. UsageNotRepeated'
  BY DEF UsageNotRepeated, Waiting, Die, TypeOK
<1>6. QED
  BY <1>3, <1>4, <1>5 DEF UsageInv

(***************************************************************************)
(* MergeBack with a table that kept or gained the batch.                   *)
(***************************************************************************)
LEMMA UsageMergeBack ==
    ASSUME TypeOK, UsageInv, flusher = "writing", MergeBack,
           db' \in [Requests -> Nat],
           \A r \in Requests : db'[r] >= db[r],
           \A r \in Requests \ Recorded : db'[r] = 0,
           \A r \in Requests : db'[r] + Waiting(r) <= 1 + ambiguous',
           \A r \in Requests : db'[r] <= 1 + ambiguous'
    PROVE  UsageInv'
<1>1. CASE Die("unflushed")
  BY <1>1, UsageDie
<1>2. CASE ~Die("unflushed")
  <2>1. Recorded' = Recorded
    BY <1>2 DEF MergeBack, Recorded, requestVars
  <2>2. MemoryInv'
    <3>1. \A r \in (Requests \ Recorded)' :
              r \notin (pending \cup batch \cup mine)' /\ db'[r] = 0
      BY <1>2, <2>1 DEF MergeBack, UsageInv, MemoryInv
    <3>2. \A r \in Requests : InFlight(r)' <=> InFlight(r)
      BY <1>2 DEF MergeBack, requestVars, InFlight
    <3>3. ~final' /\ ~final /\ batch' = {} /\ phase' = phase /\ exit' = exit /\ phase # "down"
      BY <1>2 DEF MergeBack, UsageInv, MemoryInv
    <3>4. QED
      BY <3>1, <3>2, <3>3 DEF MemoryInv, UsageInv, Alive
  <2>3. UsageKept'
    BY <1>2 DEF MergeBack, UsageInv, UsageKept, Alive, TypeOK
  <2>4. UsageNotRepeated'
    BY <1>2 DEF MergeBack, UsageInv, UsageNotRepeated, Waiting, TypeOK
  <2>5. QED
    BY <2>2, <2>3, <2>4 DEF UsageInv
<1>3. QED
  BY <1>1, <1>2

(***************************************************************************)
(* Every step keeps the accounting of units.                               *)
(***************************************************************************)
LEMMA UsageStep ==
    ASSUME TypeOK, TypeOK', UsageInv, [Next]_vars
    PROVE  UsageInv'
<1> USE DEF processVars, requestVars, tableVars, flushVars
<1>1. ASSUME NEW r \in Requests, RequestStep(r) PROVE UsageInv'
  <2>1. CASE ArriveUncapped(r) \/ ArriveCapped(r)
    <3>1. phase = "up" /\ Recorded \subseteq Recorded'
      BY <2>1 DEF ArriveUncapped, ArriveCapped, Recorded, TypeOK
    <3>2. QED
      BY <2>1, <3>1, UsageFrame DEF ArriveUncapped, ArriveCapped
  <2>2. CASE MonthUsedCached(r) \/ MonthUsedLoads(r) \/ MonthUsedFails(r)
    <3>1. /\ Recorded \subseteq Recorded'
          /\ \A q \in Requests : InFlight(q)' => InFlight(q)
      BY <2>2 DEF MonthUsedCached, MonthUsedLoads, MonthUsedFails, Recorded,
                  TypeOK, InFlight, InFlightPCs
    <3>2. QED
      BY <2>2, <3>1, UsageFrame DEF MonthUsedCached, MonthUsedLoads, MonthUsedFails
  <2>3. ASSUME NEW status \in Statuses, Finish(r, status) PROVE UsageInv'
    <3>1. /\ Recorded \subseteq Recorded'
          /\ \A q \in Requests : InFlight(q)' => InFlight(q)
      BY <2>3 DEF Finish, Recorded, TypeOK, InFlight, InFlightPCs
    <3>2. QED
      BY <2>3, <3>1, UsageFrame DEF Finish
  <2>4. CASE RecordPending(r)
    <3>1. Recorded' = Recorded \cup {r} /\ r \notin Recorded
      BY <2>4 DEF RecordPending, Recorded, TypeOK
    <3>2. \A q \in Requests : InFlight(q)' => InFlight(q)
      BY <2>4 DEF RecordPending, TypeOK, InFlight, InFlightPCs
    <3>3. InFlight(r)
      BY <2>4 DEF RecordPending, InFlight, InFlightPCs
    <3>4. phase \notin {"stopping", "down"} /\ ~final
      BY <3>3 DEF UsageInv, MemoryInv
    <3>5. MemoryInv'
      BY <2>4, <3>1, <3>2, <3>4 DEF RecordPending, UsageInv, MemoryInv, Alive
    <3>6. UsageKept'
      BY <2>4, <3>4 DEF RecordPending, UsageInv, UsageKept, Alive
    <3>7. UsageNotRepeated'
      <4>1. r \notin pending \cup batch /\ db[r] = 0
        BY <3>1 DEF UsageInv, MemoryInv
      <4>2. ambiguous \in Nat
        BY BoundsAssumption DEF TypeOK
      <4>3. QED
        BY <2>4, <4>1, <4>2 DEF RecordPending, UsageInv, UsageNotRepeated, Waiting
    <3>8. QED
      BY <3>5, <3>6, <3>7 DEF UsageInv
  <2>5. CASE RecordCounter(r)
    <3>1. /\ Recorded \subseteq Recorded'
          /\ \A q \in Requests : InFlight(q)' => InFlight(q)
      BY <2>5 DEF RecordCounter, Recorded, TypeOK, InFlight, InFlightPCs
    <3>2. QED
      BY <2>5, <3>1, UsageFrame DEF RecordCounter
  <2>6. QED
    BY <1>1, <2>1, <2>2, <2>3, <2>4, <2>5 DEF RequestStep
<1>2. CASE FlushTick \/ FlushLast
  <2>1. Recorded' = Recorded /\ \A q \in Requests : InFlight(q)' <=> InFlight(q)
    BY <1>2 DEF FlushTick, FlushLast, FlushTakes, Recorded, InFlight
  <2>2. phase # "down" /\ batch = {}
    BY <1>2 DEF FlushTick, FlushLast, FlushTakes, UsageInv, MemoryInv, Alive
  <2>3. MemoryInv'
    BY <1>2, <2>1, <2>2
    DEF FlushTick, FlushLast, FlushTakes, UsageInv, MemoryInv, Alive
  <2>4. UsageKept'
    BY <1>2, <2>2 DEF FlushTick, FlushLast, FlushTakes, UsageInv, UsageKept, Alive
  <2>5. UsageNotRepeated'
    BY <1>2, <2>2
    DEF FlushTick, FlushLast, FlushTakes, UsageInv, UsageNotRepeated, Waiting
  <2>6. QED
    BY <2>3, <2>4, <2>5 DEF UsageInv
<1>3. \A r \in Requests : db[r] <= 1 + ambiguous
  BY DEF UsageInv, UsageNotRepeated, Waiting, TypeOK
<1>4. CASE NothingLeft
  <2>1. \A r \in mine : db[r] > 0
    BY <1>4 DEF NothingLeft, UsageInv, UsageKept, MemoryInv, Alive
  <2>2. QED
    BY <1>3, <1>4, <2>1, UsageDie DEF NothingLeft, UsageInv, MemoryInv, TypeOK
<1>5. CASE WriteCommits
  <2>1. Recorded' = Recorded /\ \A q \in Requests : InFlight(q)' <=> InFlight(q)
    BY <1>5 DEF WriteCommits, Recorded, InFlight
  <2>2. phase # "down"
    BY <1>5 DEF WriteCommits, UsageInv, MemoryInv
  <2>3. \A r \in Requests : db'[r] = IF r \in batch THEN db[r] + 1 ELSE db[r]
    BY <1>5 DEF WriteCommits, Written
  <2>4. MemoryInv'
    BY <1>5, <2>1, <2>2, <2>3 DEF WriteCommits, UsageInv, MemoryInv, Alive
  <2>5. UsageKept'
    BY <1>5, <2>2, <2>3 DEF WriteCommits, UsageInv, UsageKept, Alive, TypeOK
  <2>6. UsageNotRepeated'
    BY <1>5, <2>3 DEF WriteCommits, UsageInv, UsageNotRepeated, Waiting, TypeOK
  <2>7. QED
    BY <2>4, <2>5, <2>6 DEF UsageInv
<1>6. CASE WriteFails
  <2>1. \A r \in Requests : db[r] + Waiting(r) <= 1 + ambiguous
    BY DEF UsageInv, UsageNotRepeated
  <2>2. QED
    BY <1>3, <1>6, <2>1, UsageMergeBack DEF WriteFails, UsageInv, MemoryInv, TypeOK
<1>7. CASE WriteAmbiguous
  <2>1. \A r \in Requests : db'[r] = IF r \in batch THEN db[r] + 1 ELSE db[r]
    BY <1>7 DEF WriteAmbiguous, Written
  <2>2. \A r \in Requests : /\ db'[r] + Waiting(r) <= 1 + ambiguous'
                            /\ db'[r] <= 1 + ambiguous'
    BY <1>3, <1>7, <2>1
    DEF WriteAmbiguous, UsageInv, UsageNotRepeated, Waiting, TypeOK
  <2>3. \A r \in Requests \ Recorded : db'[r] = 0
    BY <2>1 DEF UsageInv, MemoryInv
  <2>4. \A r \in Requests : db'[r] >= db[r]
    BY <2>1 DEF TypeOK
  <2>5. QED
    BY <1>7, <2>2, <2>3, <2>4, UsageMergeBack DEF WriteAmbiguous, TypeOK
<1>8. CASE FlushTouches
  <2>1. CASE final /\ Die("clean")
    <3>1. pending = {} /\ batch = {} /\ Alive
      BY <1>8, <2>1 DEF FlushTouches, UsageInv, MemoryInv, Alive
    <3>2. \A r \in mine : db[r] > 0
      BY <3>1 DEF UsageInv, UsageKept
    <3>3. QED
      BY <1>3, <1>8, <2>1, <3>2, UsageDie
      DEF FlushTouches, UsageInv, MemoryInv, TypeOK
  <2>2. CASE ~(final /\ Die("clean"))
    <3>1. Recorded' = Recorded /\ \A q \in Requests : InFlight(q)' <=> InFlight(q)
      BY <1>8, <2>2 DEF FlushTouches, Recorded, InFlight
    <3>2. MemoryInv'
      BY <1>8, <2>2, <3>1 DEF FlushTouches, UsageInv, MemoryInv, Alive
    <3>3. UsageKept' /\ UsageNotRepeated'
      BY <1>8, <2>2
      DEF FlushTouches, UsageInv, UsageKept, UsageNotRepeated, Waiting, Alive
    <3>4. QED
      BY <3>2, <3>3 DEF UsageInv
  <2>3. QED
    BY <2>1, <2>2
<1>9. CASE FlushStep
  BY <1>2, <1>4, <1>5, <1>6, <1>7, <1>8, <1>9 DEF FlushStep
<1>10. CASE Tick \/ UNCHANGED vars
  <2>1. Recorded' = Recorded /\ \A q \in Requests : InFlight(q)' <=> InFlight(q)
    BY <1>10 DEF Tick, vars, Recorded, InFlight
  <2>2. QED
    BY <1>10, <2>1, UsageFrame DEF Tick, vars
<1>11. CASE Terminate \/ Drained \/ Restart
  <2>1. Recorded' = Recorded /\ \A q \in Requests : InFlight(q)' <=> InFlight(q)
    BY <1>11 DEF Terminate, Drained, Restart, Recorded, InFlight
  <2>2. MemoryInv'
    BY <1>11, <2>1 DEF Terminate, Drained, Restart, UsageInv, MemoryInv, Alive
  <2>3. UsageKept'
    BY <1>11 DEF Terminate, Drained, Restart, UsageInv, UsageKept, Alive
  <2>4. UsageNotRepeated'
    BY <1>11 DEF Terminate, Drained, Restart, UsageInv, UsageNotRepeated, Waiting
  <2>5. QED
    BY <2>2, <2>3, <2>4 DEF UsageInv
<1>12. CASE Crash
  <2>1. db' = db /\ ambiguous' = ambiguous /\ Die("crash")
    BY <1>12 DEF Crash
  <2>2. db \in [Requests -> Nat] /\ \A r \in Requests \ Recorded : db[r] = 0
    BY DEF TypeOK, UsageInv, MemoryInv
  <2>3. QED
    BY <1>3, <2>1, <2>2, UsageDie
<1>13. QED
  BY <1>1, <1>9, <1>10, <1>11, <1>12 DEF Next

(***************************************************************************)
(* Meter.Flush loses no usage of a living process and none across a clean  *)
(* exit, and bills none twice but for commits reported as errors.          *)
(***************************************************************************)
THEOREM UsageCorrect == Spec => []UsageExact
<1>1. Init => UsageInv
  BY BoundsAssumption
  DEF Init, UsageInv, MemoryInv, UsageKept, UsageNotRepeated, Waiting, Alive,
      InFlight, InFlightPCs
<1>2. TypeOK /\ TypeOK' /\ UsageInv /\ [Next]_vars => UsageInv'
  BY UsageStep
<1>3. UsageInv => UsageExact
  BY DEF UsageInv, UsageExact
<1>4. QED
  BY <1>1, <1>2, <1>3, TypeCorrect, PTL DEF Spec

-----------------------------------------------------------------------------
(***************************************************************************)
(* The end of the process, seen from the ledger: whatever the table does,  *)
(* nothing is owed afterwards, and Recorded stays.                         *)
(***************************************************************************)
LEMMA DieLedger ==
    ASSUME TypeOK, UsageInv, NEW how, Die(how), Alive
    PROVE  /\ Recorded' = Recorded
           /\ pending' \cup batch' = {}
           /\ exit = "none" /\ exit' = how
<1>1. Recorded' = Recorded
  BY DEF Recorded, Die, TypeOK, InFlight, InFlightPCs
<1>2. QED
  BY <1>1 DEF Die, UsageInv, MemoryInv

(***************************************************************************)
(* A step that touches no usage is a stutter of the ledger.                *)
(***************************************************************************)
LEMMA LedgerStutter ==
    ASSUME UNCHANGED <<pending, batch, db, ambiguous, exit>>,
           Recorded' = Recorded
    PROVE  UNCHANGED L!vars
BY DEF L!vars

(***************************************************************************)
(* MergeBack: the batch is owed as before, or the process gives up.        *)
(***************************************************************************)
LEMMA MergeBackLedger ==
    ASSUME TypeOK, UsageInv, flusher = "writing", MergeBack
    PROVE  /\ Recorded' = Recorded
           /\ exit = "none"
           /\ \/ pending' \cup batch' = pending \cup batch /\ exit' = "none"
              \/ pending' \cup batch' = {} /\ exit' = "unflushed"
<1>1. Alive /\ exit = "none"
  BY DEF UsageInv, MemoryInv, Alive
<1>2. CASE Die("unflushed")
  BY <1>1, <1>2, DieLedger
<1>3. CASE ~Die("unflushed")
  <2>1. UNCHANGED <<pc, exit>> /\ pending' = pending \cup batch /\ batch' = {}
    BY <1>3 DEF MergeBack, requestVars
  <2>2. QED
    BY <1>1, <2>1 DEF Recorded
<1>4. QED
  BY <1>2, <1>3

(***************************************************************************)
(* Every step of the meter is a step of the ledger or leaves it alone.     *)
(***************************************************************************)
LEMMA LedgerStep ==
    ASSUME TypeOK, UsageInv, [Next]_vars
    PROVE  [L!Next]_(L!vars)
<1> USE DEF processVars, requestVars, tableVars, flushVars
<1>1. CASE Tick \/ Terminate \/ Drained \/ UNCHANGED vars
  BY <1>1, LedgerStutter
  DEF Tick, Terminate, Drained, vars, Recorded
<1>2. ASSUME NEW r \in Requests, RequestStep(r) PROVE [L!Next]_(L!vars)
  <2>1. CASE RecordPending(r)
    <3>1. /\ exit = "none"
          /\ r \notin Recorded
      BY <2>1
      DEF RecordPending, UsageInv, MemoryInv, Recorded, Alive, InFlight,
          InFlightPCs
    <3>2. Recorded' = Recorded \cup {r}
      BY <2>1 DEF RecordPending, Recorded, TypeOK
    <3>3. L!Note(r)
      BY <2>1, <3>1, <3>2 DEF RecordPending, L!Note
    <3>4. QED
      BY <3>3 DEF L!Next
  <2>2. CASE ~RecordPending(r)
    <3>1. UNCHANGED <<pending, batch, db, ambiguous, exit>>
      BY <1>2, <2>2
      DEF RequestStep, ArriveUncapped, ArriveCapped, MonthUsedCached,
          MonthUsedLoads, MonthUsedFails, Finish, RecordCounter
    <3>2. Recorded' = Recorded
      <4>1. \E p \in PCs : /\ pc' = [pc EXCEPT ![r] = p]
                           /\ p \in {"pended", "done"}
                                <=> pc[r] \in {"pended", "done"}
        BY <1>2, <2>2
        DEF RequestStep, ArriveUncapped, ArriveCapped, MonthUsedCached,
            MonthUsedLoads, MonthUsedFails, Finish, RecordCounter, Verdict, PCs
      <4>2. QED
        BY <4>1 DEF Recorded, TypeOK
    <3>3. QED
      BY <3>1, <3>2, LedgerStutter
  <2>3. QED
    BY <2>1, <2>2
<1>3. CASE FlushStep
  <2>1. CASE FlushTick \/ FlushLast
    <3>1. batch = {}
      BY <2>1 DEF FlushTick, FlushLast, FlushTakes, UsageInv, MemoryInv
    <3>2. pending' \cup batch' = pending \cup batch
      BY <2>1, <3>1 DEF FlushTick, FlushLast, FlushTakes
    <3>3. QED
      BY <2>1, <3>2 DEF FlushTick, FlushLast, FlushTakes, L!vars, Recorded
  <2>2. CASE NothingLeft
    <3>1. Alive /\ pending \cup batch = {}
      BY <2>2 DEF NothingLeft, UsageInv, MemoryInv, Alive
    <3>2. L!EndClean
      BY <2>2, <3>1, DieLedger DEF NothingLeft, L!EndClean
    <3>3. QED
      BY <3>2 DEF L!Next
  <2>3. CASE WriteCommits
    <3>1. exit = "none" /\ pending \cap batch = {}
      BY <2>3
      DEF WriteCommits, UsageInv, MemoryInv, UsageNotRepeated, Alive
    <3>2. pending' \cup batch' = (pending \cup batch) \ batch
      BY <2>3, <3>1 DEF WriteCommits
    <3>3. L!Settle(batch)
      BY <2>3, <3>1, <3>2
      DEF WriteCommits, Written, Recorded, L!Settle, L!Added
    <3>4. QED
      BY <3>3 DEF L!Next
  <2>4. CASE WriteFails
    <3>1. CASE exit' = "none"
      BY <2>4, <3>1, MergeBackLedger, LedgerStutter DEF WriteFails, L!vars
    <3>2. CASE exit' # "none"
      <4>1. L!EndFailed
        BY <2>4, <3>2, MergeBackLedger DEF WriteFails, L!EndFailed
      <4>2. QED
        BY <4>1 DEF L!Next
    <3>3. QED
      BY <3>1, <3>2
  <2>5. CASE WriteAmbiguous
    <3>1. db' = L!Added(batch)
      BY <2>5 DEF WriteAmbiguous, Written, L!Added
    <3>2. L!Doubt(batch)
      BY <2>5, <3>1, MergeBackLedger DEF WriteAmbiguous, L!Doubt
    <3>3. QED
      BY <3>2 DEF L!Next
  <2>6. CASE FlushTouches
    <3>1. Alive /\ batch = {}
      BY <2>6 DEF FlushTouches, UsageInv, MemoryInv, Alive
    <3>2. CASE Die("clean")
      <4>1. ~final => exit' = exit
        BY <2>6 DEF FlushTouches
      <4>2. final
        BY <3>1, <3>2, <4>1, DieLedger
      <4>3. pending \cup batch = {}
        BY <3>1, <4>2 DEF UsageInv, MemoryInv
      <4>4. L!EndClean
        BY <2>6, <3>1, <3>2, <4>3, DieLedger DEF FlushTouches, L!EndClean
      <4>5. QED
        BY <4>4 DEF L!Next
    <3>3. CASE ~Die("clean")
      BY <2>6, <3>3, LedgerStutter DEF FlushTouches, Recorded
    <3>4. QED
      BY <3>2, <3>3
  <2>7. QED
    BY <1>3, <2>1, <2>2, <2>3, <2>4, <2>5, <2>6 DEF FlushStep
<1>4. CASE Crash
  <2>1. L!EndFailed
    BY <1>4, DieLedger DEF Crash, L!EndFailed
  <2>2. QED
    BY <2>1 DEF L!Next
<1>5. CASE Restart
  <2>1. CASE exit = "none"
    BY <1>5, <2>1, LedgerStutter DEF Restart, Recorded
  <2>2. CASE exit # "none"
    <3>1. L!Start
      BY <1>5, <2>2 DEF Restart, Recorded, L!Start
    <3>2. QED
      BY <3>1 DEF L!Next
  <2>3. QED
    BY <2>1, <2>2
<1>6. QED
  BY <1>1, <1>2, <1>3, <1>4, <1>5 DEF Next

(***************************************************************************)
(* The meter of meter.go implements the ledger: for the bill, a request is *)
(* noted once and settled once, whatever flushes, failures and restarts do.*)
(***************************************************************************)
THEOREM LedgerCorrect == Spec => ImplementsLedger
<1>1. Init => L!Init
  BY DEF Init, L!Init, Recorded
<1>2. Init => UsageInv
  BY BoundsAssumption
  DEF Init, UsageInv, MemoryInv, UsageKept, UsageNotRepeated, Waiting, Alive,
      InFlight, InFlightPCs
<1>3. TypeOK /\ TypeOK' /\ UsageInv /\ [Next]_vars => UsageInv'
  BY UsageStep
<1>4. TypeOK /\ UsageInv /\ [Next]_vars => [L!Next]_(L!vars)
  BY LedgerStep
<1>5. QED
  BY <1>1, <1>2, <1>3, <1>4, TypeCorrect, PTL DEF Spec, ImplementsLedger, L!Spec

-----------------------------------------------------------------------------
(***************************************************************************)
(* The recorded requests of a month are finitely many.                     *)
(***************************************************************************)
LEMMA CountedFinite ==
    ASSUME NEW a, NEW m
    PROVE  /\ IsFiniteSet(Counted(a, m)) /\ IsFiniteSet(Half(a, m))
           /\ Cardinality(Counted(a, m)) \in Nat
           /\ Cardinality(Half(a, m)) \in Nat
<1>1. IsFiniteSet(Counted(a, m)) /\ IsFiniteSet(Half(a, m))
  BY RequestsAssumption, FS_Subset DEF Half, Counted, Recorded
<1>2. QED
  BY <1>1, FS_CardinalityType

(***************************************************************************)
(* A step that records nothing and touches no counter keeps the balance.   *)
(***************************************************************************)
LEMMA CounterFrame ==
    ASSUME CounterConserved, UNCHANGED <<counter, drift>>,
           Recorded' = Recorded,
           \A q \in Recorded : /\ pc'[q] = pc[q]
                               /\ kind'[q] = kind[q]
                               /\ month'[q] = month[q]
    PROVE  CounterConserved'
<1>1. ASSUME NEW a \in Accounts, NEW m
      PROVE  Counted(a, m)' = Counted(a, m) /\ Half(a, m)' = Half(a, m)
  <2>1. Counted(a, m)' = Counted(a, m)
    BY DEF Counted, Owner
  <2>2. Half(a, m)' = Half(a, m)
    BY <2>1 DEF Half, Counted
  <2>3. QED
    BY <2>1, <2>2
<1>2. SUFFICES ASSUME NEW a \in Accounts, counter[a].ready
               PROVE  counter[a].value + Cardinality(Half(a, counter[a].month)') =
                        Cardinality(Counted(a, counter[a].month)') + drift[a]
  BY DEF CounterConserved
<1>3. QED
  BY <1>1, <1>2 DEF CounterConserved

(***************************************************************************)
(* Record's two critical sections: the first adds the request to both      *)
(* sides of the balance, the second moves it from Half into the counter.   *)
(***************************************************************************)
LEMMA CounterRecords ==
    ASSUME TypeOK, CounterInv, NEW r \in Requests,
           RecordPending(r) \/ RecordCounter(r)
    PROVE  CounterConserved'
<1> USE DEF requestVars, flushVars, tableVars
<1> SUFFICES ASSUME NEW a \in Accounts, counter'[a].ready
             PROVE  (counter[a].value + Cardinality(Half(a, counter[a].month)) =
                       Cardinality(Counted(a, counter[a].month)) + drift[a])'
  BY DEF CounterConserved
<1> DEFINE m == counter[a].month
<1>1. counter'[a].month = m /\ counter[a].ready
  BY DEF RecordPending, RecordCounter, TypeOK
<1>2. /\ Cardinality(Counted(a, m)) \in Nat /\ IsFiniteSet(Counted(a, m))
      /\ Cardinality(Half(a, m)) \in Nat /\ IsFiniteSet(Half(a, m))
      /\ counter[a].value \in Nat /\ drift[a] \in Int
  BY CountedFinite DEF TypeOK
<1>3. counter[a].value + Cardinality(Half(a, m)) = Cardinality(Counted(a, m)) + drift[a]
  BY <1>1 DEF CounterConserved, CounterInv
<1> DEFINE hit == Owner(r) = a /\ kind[r] = "counted" /\ month[r] = m
<1>4. CASE RecordPending(r)
  <2>1. counter' = counter /\ drift' = drift
    BY <1>4 DEF RecordPending
  <2>2. Recorded' = Recorded \cup {r} /\ r \notin Recorded
    BY <1>4 DEF RecordPending, Recorded, TypeOK
  <2>3. \A q \in Recorded : pc'[q] = pc[q]
    BY <1>4, <2>2 DEF RecordPending, TypeOK
  <2>4. CASE hit
    <3>1. pc'[r] = "pended"
      BY <1>4, <2>4 DEF RecordPending, TypeOK
    <3>2. /\ Counted(a, m)' = Counted(a, m) \cup {r} /\ r \notin Counted(a, m)
      BY <1>4, <1>1, <2>2, <2>4 DEF RecordPending, Counted, Owner
    <3>3. /\ Half(a, m)' = Half(a, m) \cup {r} /\ r \notin Half(a, m)
      BY <1>1, <2>2, <2>3, <3>1, <3>2 DEF Half, Counted
    <3>4. /\ Cardinality(Counted(a, m) \cup {r}) = Cardinality(Counted(a, m)) + 1
          /\ Cardinality(Half(a, m) \cup {r}) = Cardinality(Half(a, m)) + 1
      BY <1>2, <3>2, <3>3, FS_AddElement
    <3>5. QED
      BY <1>1, <1>2, <1>3, <2>1, <3>2, <3>3, <3>4
  <2>5. CASE ~hit
    <3>1. Counted(a, m)' = Counted(a, m)
      BY <1>4, <1>1, <2>2, <2>5 DEF RecordPending, Counted, Owner
    <3>2. Half(a, m)' = Half(a, m)
      BY <1>1, <2>3, <3>1 DEF Half, Counted
    <3>3. QED
      BY <1>1, <1>3, <2>1, <3>1, <3>2
  <2>6. QED
    BY <2>4, <2>5
<1>5. CASE RecordCounter(r)
  <2>1. drift' = drift
    BY <1>5 DEF RecordCounter
  <2>2. Recorded' = Recorded /\ r \in Recorded
    BY <1>5 DEF RecordCounter, Recorded, TypeOK
  <2>3. Counted(a, m)' = Counted(a, m)
    BY <1>1, <1>5, <2>2 DEF RecordCounter, Counted, Owner
  <2>4. pc[r] = "pended" /\ \A q \in Requests : (pc'[q] = "pended" <=> pc[q] = "pended" /\ q # r)
    BY <1>5 DEF RecordCounter, TypeOK
  <2>5. Half(a, m)' = Half(a, m) \ {r}
    BY <1>1, <2>3, <2>4 DEF Half, Counted, Recorded
  <2>6. CASE r \in Half(a, m)
    <3>1. counter'[a].value = counter[a].value + 1
      BY <1>1, <1>5, <2>6 DEF RecordCounter, Half, Counted, TypeOK
    <3>2. Cardinality(Half(a, m) \ {r}) = Cardinality(Half(a, m)) - 1
      BY <1>2, <2>6, FS_RemoveElement
    <3>3. QED
      BY <1>1, <1>2, <1>3, <2>1, <2>3, <2>5, <3>1, <3>2
  <2>7. CASE r \notin Half(a, m)
    <3>1. ~(Owner(r) = a /\ month[r] = m /\ kind[r] = "counted")
      BY <2>2, <2>4, <2>7 DEF Half, Counted
    <3>2. kind[r] = "counted" => counter'[a].value = counter[a].value
      BY <1>5, <3>1 DEF RecordCounter, TypeOK
    <3>3. kind[r] = "counted"
      BY <2>4 DEF CounterInv, PendedInv
    <3>4. QED
      BY <1>1, <1>3, <2>1, <2>3, <2>5, <2>7, <3>2, <3>3
  <2>8. QED
    BY <2>6, <2>7
<1>6. QED
  BY <1>4, <1>5

(***************************************************************************)
(* A load restores the balance: drift is chosen as what it misses.         *)
(***************************************************************************)
LEMMA CounterLoads ==
    ASSUME TypeOK, CounterConserved, NEW r \in Requests, MonthUsedLoads(r)
    PROVE  CounterConserved'
<1> USE DEF requestVars, flushVars, tableVars
<1> DEFINE a == Owner(r)
           v == MonthUsage(a, ms[r])
<1>1. a \in Accounts /\ v \in Nat
  BY OwnerType, MonthUsageType DEF TypeOK
<1>2. ASSUME NEW b \in Accounts, NEW m
      PROVE  Counted(b, m)' = Counted(b, m) /\ Half(b, m)' = Half(b, m)
  <2>1. Recorded' = Recorded /\ \A q \in Recorded : pc'[q] = pc[q]
    BY DEF MonthUsedLoads, Recorded, TypeOK, Verdict
  <2>2. Counted(b, m)' = Counted(b, m)
    BY <2>1 DEF Counted, Owner, MonthUsedLoads
  <2>3. Half(b, m)' = Half(b, m)
    BY <2>1, <2>2 DEF Half, Counted
  <2>4. QED
    BY <2>2, <2>3
<1> SUFFICES ASSUME NEW b \in Accounts, counter'[b].ready
             PROVE  (counter[b].value + Cardinality(Half(b, counter[b].month)) =
                       Cardinality(Counted(b, counter[b].month)) + drift[b])'
  BY DEF CounterConserved
<1>3. CASE b = a
  <2>1. /\ counter'[a].month = ms[r] /\ counter'[a].value = v
        /\ drift'[a] = v + Cardinality(Half(a, ms[r])) - Cardinality(Counted(a, ms[r]))
    BY <1>1 DEF MonthUsedLoads, TypeOK
  <2>2. /\ Cardinality(Counted(a, ms[r])) \in Nat
        /\ Cardinality(Half(a, ms[r])) \in Nat
    BY CountedFinite
  <2>3. /\ Counted(a, counter[a].month)' = Counted(a, ms[r])
        /\ Half(a, counter[a].month)' = Half(a, ms[r])
    BY <1>1, <1>2, <2>1
  <2>4. QED
    BY <1>1, <1>3, <2>1, <2>2, <2>3
<1>4. CASE b # a
  <2>1. counter'[b] = counter[b] /\ drift'[b] = drift[b]
    BY <1>4 DEF MonthUsedLoads, TypeOK
  <2>2. /\ Counted(b, counter[b].month)' = Counted(b, counter[b].month)
        /\ Half(b, counter[b].month)' = Half(b, counter[b].month)
    BY <1>2, <2>1
  <2>3. QED
    BY <2>1, <2>2 DEF CounterConserved
<1>5. QED
  BY <1>3, <1>4

(***************************************************************************)
(* Every step keeps the balance of the month counters.                     *)
(***************************************************************************)
LEMMA CounterStep ==
    ASSUME TypeOK, CounterInv, [Next]_vars
    PROVE  CounterInv'
<1> USE DEF processVars, requestVars, tableVars, flushVars
<1>1. PendedInv'
  <2>1. ASSUME NEW r \in Requests, RequestStep(r) PROVE PendedInv'
    BY <2>1 DEF RequestStep, ArriveUncapped, ArriveCapped, MonthUsedCached,
                MonthUsedLoads, MonthUsedFails, Finish, RecordPending,
                RecordCounter, PendedInv, CounterInv, TypeOK, Verdict
  <2>2. ASSUME NEW how, Die(how) PROVE PendedInv'
    BY <2>2 DEF Die, PendedInv, CounterInv, TypeOK
  <2>3. CASE FlushStep \/ Crash
    BY <2>2, <2>3
    DEF FlushStep, FlushTick, FlushLast, FlushTakes, NothingLeft, WriteCommits,
        WriteFails, WriteAmbiguous, MergeBack, FlushTouches, Crash, PendedInv,
        CounterInv
  <2>4. CASE Tick \/ Terminate \/ Drained \/ Restart \/ UNCHANGED vars
    BY <2>4 DEF Tick, Terminate, Drained, Restart, vars, PendedInv, CounterInv
  <2>5. QED
    BY <2>1, <2>3, <2>4 DEF Next
<1>2. CounterConserved'
  <2>1. ASSUME NEW how, Die(how) PROVE CounterConserved'
    BY <2>1 DEF Die, CounterConserved, NotReady
  <2>2. ASSUME UNCHANGED <<pc, month, kind, counter, drift>> PROVE CounterConserved'
    <3>1. Recorded' = Recorded
      BY <2>2 DEF Recorded
    <3>2. QED
      BY <2>2, <3>1, CounterFrame DEF CounterInv
  <2>3. CASE FlushStep
    BY <2>1, <2>2, <2>3
    DEF FlushStep, FlushTick, FlushLast, FlushTakes, NothingLeft, WriteCommits,
        WriteFails, WriteAmbiguous, MergeBack, FlushTouches
  <2>4. CASE Tick \/ Terminate \/ Drained \/ Crash \/ Restart \/ UNCHANGED vars
    BY <2>1, <2>2, <2>4 DEF Tick, Terminate, Drained, Crash, Restart, vars
  <2>5. ASSUME NEW r \in Requests, RequestStep(r) PROVE CounterConserved'
    <3>1. CASE ArriveUncapped(r) \/ ArriveCapped(r) \/ MonthUsedCached(r) \/ MonthUsedFails(r)
      <4>1. /\ Recorded' = Recorded
            /\ \A q \in Recorded : pc'[q] = pc[q]
        BY <3>1 DEF ArriveUncapped, ArriveCapped, MonthUsedCached, MonthUsedFails,
                    Recorded, TypeOK, Verdict
      <4>2. QED
        BY <3>1, <4>1, CounterFrame
        DEF ArriveUncapped, ArriveCapped, MonthUsedCached, MonthUsedFails, CounterInv
    <3>2. ASSUME NEW status \in Statuses, Finish(r, status) PROVE CounterConserved'
      <4>1. \/ pc' = [pc EXCEPT ![r] = "over"]
            \/ pc' = [pc EXCEPT ![r] = "finished"]
        BY <3>2 DEF Finish
      <4>2. Recorded' = Recorded /\ r \notin Recorded
        BY <3>2, <4>1 DEF Finish, Recorded, TypeOK
      <4>3. \A q \in Recorded : /\ pc'[q] = pc[q]
                                /\ kind'[q] = kind[q]
                                /\ month'[q] = month[q]
        BY <3>2, <4>1, <4>2 DEF Finish, Recorded, TypeOK
      <4>4. QED
        BY <3>2, <4>2, <4>3, CounterFrame DEF Finish, CounterInv
    <3>3. CASE MonthUsedLoads(r)
      BY <3>3, CounterLoads DEF CounterInv
    <3>4. CASE RecordPending(r) \/ RecordCounter(r)
      BY <3>4, CounterRecords
    <3>5. QED
      BY <2>5, <3>1, <3>2, <3>3, <3>4 DEF RequestStep
  <2>6. QED
    BY <2>3, <2>4, <2>5 DEF Next
<1>3. QED
  BY <1>1, <1>2 DEF CounterInv

(***************************************************************************)
(* The in-memory month counter never drifts by more than its load did.     *)
(***************************************************************************)
THEOREM CounterCorrect == Spec => []CounterConserved
<1>1. Init => CounterInv
  BY DEF Init, CounterInv, CounterConserved, PendedInv, NotReady
<1>2. TypeOK /\ CounterInv /\ [Next]_vars => CounterInv'
  BY CounterStep
<1>3. CounterInv => CounterConserved
  BY DEF CounterInv
<1>4. QED
  BY <1>1, <1>2, <1>3, TypeCorrect, PTL DEF Spec

(***************************************************************************)
(* A request with a monthly cap is let through only by MonthUsed.          *)
(***************************************************************************)
LEMMA OnlyMonthUsedGrants ==
    ASSUME TypeOK, [Next]_vars, NEW r \in Requests, Granted(r)
    PROVE  MonthUsedCached(r) \/ MonthUsedLoads(r)
<1> USE DEF processVars, requestVars, tableVars, flushVars, Granted
<1>1. \A how : ~Die(how)
  BY DEF Die, InFlight, InFlightPCs, TypeOK
<1>2. ~FlushStep
  BY <1>1
  DEF FlushStep, FlushTick, FlushLast, FlushTakes, NothingLeft, WriteCommits,
      WriteFails, WriteAmbiguous, MergeBack, FlushTouches
<1>3. ~(Tick \/ Terminate \/ Drained \/ Crash \/ Restart \/ UNCHANGED vars)
  BY <1>1 DEF Tick, Terminate, Drained, Crash, Restart, vars
<1>4. PICK q \in Requests : RequestStep(q)
  BY <1>2, <1>3 DEF Next
<1>5. q = r
  BY <1>4 DEF RequestStep, ArriveUncapped, ArriveCapped, MonthUsedCached,
              MonthUsedLoads, MonthUsedFails, Finish, RecordPending,
              RecordCounter, TypeOK
<1>6. QED
  BY <1>4, <1>5
  DEF RequestStep, ArriveUncapped, ArriveCapped, MonthUsedFails, Finish,
      RecordPending, RecordCounter, TypeOK

(***************************************************************************)
(* The monthly cap holds at every grant, up to what a load of the counter  *)
(* did not see.                                                            *)
(***************************************************************************)
THEOREM CapCorrect == Spec => CapEnforced
<1>1. ASSUME TypeOK, CounterInv, CounterInv', [Next]_vars, NEW r \in Requests,
             Granted(r), drift'[Owner(r)] >= 0
      PROVE  Cardinality(Counted(Owner(r), ms[r]) \ Half(Owner(r), ms[r])) < MonthlyCap
  <2> DEFINE a == Owner(r)
             C == Counted(a, ms[r])
             H == Half(a, ms[r])
  <2>1. a \in Accounts
    BY OwnerType
  <2>2. /\ IsFiniteSet(C) /\ Cardinality(C) \in Nat
        /\ IsFiniteSet(H) /\ Cardinality(H) \in Nat
    BY CountedFinite
  <2>3. Cardinality(C \ H) = Cardinality(C) - Cardinality(H)
    <3>1. C \cap H = H
      BY DEF Half
    <3>2. QED
      BY <2>2, <3>1, FS_Difference
  <2>4. MonthlyCap \in Nat
    BY BoundsAssumption
  <2>5. CASE MonthUsedCached(r)
    <3>1. counter[a].ready /\ counter[a].month = ms[r] /\ drift'[a] = drift[a]
      BY <2>5 DEF MonthUsedCached, HasCounter
    <3>2. counter[a].value < MonthlyCap /\ counter[a].value \in Nat
      <4>1. counter[a].value \in Nat
        BY <1>1, <2>1 DEF TypeOK
      <4>2. QED
        BY <1>1, <2>4, <2>5, <4>1 DEF MonthUsedCached, Granted, Verdict, TypeOK
    <3>3. counter[a].value + Cardinality(H) = Cardinality(C) + drift[a]
      BY <1>1, <2>1, <3>1 DEF CounterInv, CounterConserved
    <3>4. drift[a] \in Int /\ drift[a] >= 0
      BY <1>1, <2>1, <3>1 DEF TypeOK
    <3>5. QED
      BY <2>2, <2>3, <2>4, <3>2, <3>3, <3>4
  <2>6. CASE MonthUsedLoads(r)
    <3> DEFINE v == MonthUsage(a, ms[r])
    <3>1. v \in Nat
      BY <1>1, MonthUsageType DEF TypeOK
    <3>2. v < MonthlyCap
      BY <1>1, <2>4, <2>6, <3>1 DEF MonthUsedLoads, Granted, Verdict, TypeOK
    <3>3. drift'[a] = v + Cardinality(H) - Cardinality(C)
      BY <1>1, <2>1, <2>6 DEF MonthUsedLoads, TypeOK
    <3>4. QED
      BY <1>1, <2>2, <2>3, <2>4, <3>1, <3>2, <3>3
  <2>7. QED
    BY <1>1, <2>5, <2>6, OnlyMonthUsedGrants
<1>2. TypeOK /\ CounterInv /\ CounterInv' /\ [Next]_vars =>
        [\A r \in Requests :
            Granted(r) /\ drift'[Owner(r)] >= 0 =>
                Cardinality(Counted(Owner(r), ms[r]) \ Half(Owner(r), ms[r]))
                    < MonthlyCap]_vars
  BY <1>1
<1>3. Init => CounterInv
  BY DEF Init, CounterInv, CounterConserved, PendedInv, NotReady
<1>4. TypeOK /\ CounterInv /\ [Next]_vars => CounterInv'
  BY CounterStep
<1>5. QED
  BY <1>2, <1>3, <1>4, TypeCorrect, PTL DEF Spec, CapEnforced
=============================================================================
