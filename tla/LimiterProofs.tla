---------------------------- MODULE LimiterProofs ----------------------------
(***************************************************************************)
(* Proofs about the token buckets (Limiter), for every set of callers and  *)
(* ids, every plan and every TTL, and about the /v2 gateway that uses them *)
(* (Gateway, the instance Gate), for any handlers, addresses, burst, rate  *)
(* and lag.  Last come the properties of MCLimiter, where the two are side *)
(* by side.                                                                *)
(***************************************************************************)
EXTENDS MCLimiter, FiniteSetTheorems, TLAPS

-----------------------------------------------------------------------------
(***************************************************************************)
(* Arithmetic of products with a rate, and the rounding up of Wait.        *)
(***************************************************************************)
LEMMA ProductMonotone ==
    ASSUME NEW r \in Nat, NEW x \in Int, NEW y \in Int, x <= y
    PROVE  r * x <= r * y
<1>1. PICK d \in Nat : y = x + d
  <2>1. y - x \in Nat /\ y = x + (y - x)
    OBVIOUS
  <2>2. QED
    BY <2>1
<1>2. r * y = r * x + r * d
  BY <1>1
<1>3. r * d \in Nat
  BY <1>1
<1>4. QED
  BY <1>2, <1>3

\* A product with a difference of times, taken apart.
LEMMA ProductDiff ==
    ASSUME NEW r \in Nat, NEW x \in Int, NEW y \in Int
    PROVE  r * (x - y) = r * x - r * y
OBVIOUS

\* What one more tick refills.
LEMMA ProductSucc ==
    ASSUME NEW r \in Nat, NEW x \in Int
    PROVE  r * (x + 1) = r * x + r
OBVIOUS

\* The rounded-up wait refills at least what is missing.
LEMMA WaitLongEnough ==
    ASSUME NEW p \in Plans, NEW m \in Nat \ {0}
    PROVE  Wait(m, p) \in Nat /\ p.rate * Wait(m, p) >= m
<1>1. p.rate \in Nat \ {0}
  BY PlansAssumption
<1> DEFINE a == m + p.rate - 1
           q == a \div p.rate
<1>2. a \in Nat
  BY <1>1
<1>3. q \in Nat /\ a < p.rate * q + p.rate
  BY <1>1, <1>2, SMT
<1>4. QED
  BY <1>1, <1>3 DEF Wait

-----------------------------------------------------------------------------
(***************************************************************************)
(* The types of a plan, of a call under way and of a bucket.               *)
(***************************************************************************)
LEMMA PlanType ==
    ASSUME NEW id \in Ids
    PROVE  /\ PlanOf[id] \in Plans
           /\ PlanOf[id].rate \in Nat \ {0}
           /\ PlanOf[id].burst \in Nat
           /\ PlanOf[id].burst >= Unit
BY PlanOfAssumption, PlansAssumption, BurstAssumption

\* What a call under way remembers.
LEMMA CallType ==
    ASSUME TypeOK, NEW c \in Callers, Calling(c)
    PROVE  call[c].id \in Ids /\ call[c].now \in 0 .. MaxClock
BY DEF TypeOK, Calling, Calls, Idle

\* What a bucket holds.
LEMMA BucketType ==
    ASSUME TypeOK, NEW id \in DOMAIN b
    PROVE  /\ id \in Ids
           /\ b[id] \in Buckets
           /\ b[id].tokens \in Int
           /\ b[id].last \in 0 .. MaxClock
BY DEF TypeOK, Buckets

\* A refill gives whole tokens, at most the burst.
LEMMA RefilledType ==
    ASSUME TypeOK, NEW id \in DOMAIN b, NEW now \in 0 .. MaxClock
    PROVE  Refilled(b[id], PlanOf[id], now) \in Int
<1>1. id \in Ids /\ b[id].tokens \in Int /\ b[id].last \in Int
  BY BucketType
<1>2. PlanOf[id].rate \in Int /\ PlanOf[id].burst \in Int
  BY <1>1, PlanType
<1>3. now - b[id].last \in Int
  BY <1>1
<1>4. b[id].tokens + (now - b[id].last) * PlanOf[id].rate \in Int
  BY <1>1, <1>2, <1>3
<1>5. QED
  BY <1>2, <1>4 DEF Refilled, Capped

\* Setting one entry of a table of buckets.
LEMMA PutType ==
    ASSUME TypeOK, NEW id \in Ids, NEW v \in Buckets
    PROVE  /\ DOMAIN Put(b, id, v) \subseteq Ids
           /\ Put(b, id, v) \in [DOMAIN Put(b, id, v) -> Buckets]
BY DEF TypeOK, Put

\* There are finitely many buckets.
LEMMA DomainFinite ==
    ASSUME TypeOK
    PROVE  IsFiniteSet(DOMAIN b)
BY IdsAssumption, FS_Subset DEF TypeOK

(***************************************************************************)
(* Type correctness, with the bound on the table.                          *)
(***************************************************************************)
LEMMA TypeInit == Init => TypeOK
<1> SUFFICES ASSUME Init PROVE TypeOK
  OBVIOUS
<1>1. DOMAIN b = {}
  BY DEF Init
<1>2. Cardinality(DOMAIN b) <= MaxEntries
  BY <1>1, FS_EmptySet, MaxEntriesAssumption
<1>3. QED
  BY <1>1, <1>2, TimesAssumption DEF Init, TypeOK, None

\* Every step keeps the types.
LEMMA TypeStep == TypeOK /\ [Next]_vars => TypeOK'
<1> SUFFICES ASSUME TypeOK, [Next]_vars PROVE TypeOK'
  OBVIOUS
<1> USE TimesAssumption, UnitAssumption
<1>1. CASE Tick
  <2>1. Drained \in [Ids -> Nat]
    BY PlanType DEF Drained, TypeOK
  <2>2. QED
    BY <1>1, <2>1 DEF Tick, TypeOK
<1>2. ASSUME NEW c \in Callers, NEW id \in Ids, Call(c, id) PROVE TypeOK'
  BY <1>2 DEF Call, TypeOK, Calls
<1>3. ASSUME NEW c \in Callers, AllowNew(c) PROVE TypeOK'
  <2> DEFINE id == call[c].id
  <2>1. id \in Ids /\ call[c].now \in 0 .. MaxClock
    BY <1>3, CallType DEF AllowNew
  <2>2. [tokens |-> PlanOf[id].burst - Unit, last |-> call[c].now] \in Buckets
    BY <2>1, PlanType DEF Buckets
  <2>3. DOMAIN b' \subseteq Ids /\ b' \in [DOMAIN b' -> Buckets]
    BY <1>3, <2>1, <2>2, PutType DEF AllowNew
  <2>4. Cardinality(DOMAIN b') <= MaxEntries
    <3>1. DOMAIN b' = DOMAIN b \cup {id} /\ id \notin DOMAIN b
      BY <1>3 DEF AllowNew, Put
    <3>2. Cardinality(DOMAIN b') = Cardinality(DOMAIN b) + 1
      BY <3>1, DomainFinite, FS_AddElement
    <3>3. Cardinality(DOMAIN b) \in Nat /\ Cardinality(DOMAIN b) < MaxEntries
      BY <1>3, DomainFinite, FS_CardinalityType, MaxEntriesAssumption
         DEF AllowNew, Full
    <3>4. QED
      BY <3>2, <3>3, MaxEntriesAssumption
  <2>5. load' \in [Ids -> Nat] /\ promise' \in [Ids -> Int]
    BY <1>3, <2>1 DEF AllowNew, Grant, TypeOK, None
  <2>6. call' \in [Callers -> Calls \cup {Idle}]
    BY <1>3 DEF AllowNew, Return, TypeOK
  <2>7. QED
    BY <1>3, <2>3, <2>4, <2>5, <2>6 DEF AllowNew, TypeOK
<1>4. ASSUME NEW c \in Callers, AllowUntracked(c) PROVE TypeOK'
  BY <1>4 DEF AllowUntracked, Return, TypeOK
<1>5. ASSUME NEW c \in Callers, AllowGrants(c) PROVE TypeOK'
  <2> DEFINE id == call[c].id
             t == Refilled(b[id], PlanOf[id], call[c].now)
  <2>1. id \in DOMAIN b /\ id \in Ids /\ call[c].now \in 0 .. MaxClock
    BY <1>5, CallType DEF AllowGrants
  <2>2. t \in Int
    BY <2>1, RefilledType
  <2>3. [tokens |-> t - Unit, last |-> call[c].now] \in Buckets
    BY <2>1, <2>2 DEF Buckets
  <2>4. b' \in [DOMAIN b -> Buckets]
    BY <1>5, <2>1, <2>3 DEF AllowGrants, TypeOK
  <2>5. load' \in [Ids -> Nat] /\ promise' \in [Ids -> Int]
    BY <1>5, <2>1 DEF AllowGrants, Grant, TypeOK, None
  <2>6. call' \in [Callers -> Calls \cup {Idle}]
    BY <1>5 DEF AllowGrants, Return, TypeOK
  <2>7. QED
    BY <1>5, <2>4, <2>5, <2>6 DEF AllowGrants, TypeOK
<1>6. ASSUME NEW c \in Callers, AllowDenies(c) PROVE TypeOK'
  <2> DEFINE id == call[c].id
             t == Refilled(b[id], PlanOf[id], call[c].now)
  <2>1. id \in DOMAIN b /\ id \in Ids /\ call[c].now \in 0 .. MaxClock
    BY <1>6, CallType DEF AllowDenies
  <2>2. t \in Int /\ t < Unit
    BY <1>6, <2>1, RefilledType DEF AllowDenies
  <2>3. [tokens |-> t, last |-> call[c].now] \in Buckets
    BY <2>1, <2>2 DEF Buckets
  <2>4. b' \in [DOMAIN b -> Buckets]
    BY <1>6, <2>1, <2>3 DEF AllowDenies, TypeOK
  <2>5. promise' \in [Ids -> Int]
    <3>1. Unit - t \in Nat \ {0}
      BY <2>2
    <3>2. Wait(Unit - t, PlanOf[id]) \in Nat
      BY <2>1, <3>1, PlanType, WaitLongEnough
    <3>3. QED
      BY <1>6, <2>1, <3>2 DEF AllowDenies, TypeOK
  <2>6. call' \in [Callers -> Calls \cup {Idle}]
    BY <1>6 DEF AllowDenies, Return, TypeOK
  <2>7. QED
    BY <1>6, <2>4, <2>5, <2>6 DEF AllowDenies, TypeOK
<1>7. CASE GcBegins
  BY <1>7 DEF GcBegins, TypeOK
<1>8. CASE Gc
  <2>1. DOMAIN b' \subseteq DOMAIN b /\ b' \in [DOMAIN b' -> Buckets]
    BY <1>8 DEF Gc, Live, TypeOK
  <2>2. Cardinality(DOMAIN b') <= MaxEntries
    <3>1. Cardinality(DOMAIN b') <= Cardinality(DOMAIN b)
      BY <2>1, DomainFinite, FS_Subset
    <3>2. Cardinality(DOMAIN b') \in Nat /\ Cardinality(DOMAIN b) \in Nat
      BY <2>1, DomainFinite, FS_Subset, FS_CardinalityType
    <3>3. QED
      BY <3>1, <3>2, MaxEntriesAssumption DEF TypeOK
  <2>3. QED
    BY <1>8, <2>1, <2>2 DEF Gc, TypeOK
<1>9. CASE UNCHANGED vars
  BY <1>9 DEF vars, TypeOK
<1>10. QED
  BY <1>1, <1>2, <1>3, <1>4, <1>5, <1>6, <1>7, <1>8, <1>9 DEF Next, Allow

(***************************************************************************)
(* Every state is well typed; in particular the table never holds more     *)
(* than MaxEntries buckets.                                                *)
(***************************************************************************)
THEOREM TypeCorrect == Spec => []TypeOK
BY TypeInit, TypeStep, PTL DEF Spec

-----------------------------------------------------------------------------
(***************************************************************************)
(* What a refill at a caller's time does to a bucket: it never holds more  *)
(* than the burst, is worth neither less than nothing nor more than before *)
(* nor more than the ceiling.                                              *)
(***************************************************************************)
LEMMA RefillFacts ==
    ASSUME TypeOK, BucketInv, NEW id \in DOMAIN b, NEW now \in 0 .. MaxClock,
           now <= clock, clock <= now + MaxLag
    PROVE  LET t == Refilled(b[id], PlanOf[id], now)
               w == t + PlanOf[id].rate * (clock - now)
           IN  /\ t \in Int
               /\ t <= PlanOf[id].burst
               /\ 0 <= w
               /\ w <= Worth(id)
               /\ w <= Ceiling(id)
               /\ t + PlanOf[id].rate * MaxLag >= 0
               /\ \/ t = b[id].tokens + PlanOf[id].rate * (now - b[id].last)
                  \/ t = PlanOf[id].burst
<1> DEFINE r == PlanOf[id].rate
           k == b[id].tokens
           l == b[id].last
           t == Refilled(b[id], PlanOf[id], now)
           w == t + r * (clock - now)
<1>1. /\ id \in Ids /\ k \in Int /\ l \in Int /\ r \in Nat
      /\ PlanOf[id].burst \in Nat /\ now \in Int /\ clock \in Int
      /\ MaxLag \in Nat
  BY BucketType, PlanType, TimesAssumption DEF TypeOK
<1>2. t \in Int
  BY RefilledType
<1>3. (now - l) * r = r * now - r * l /\ r * (now - l) = r * now - r * l
  BY <1>1, ProductDiff
<1>4. r * (clock - now) = r * clock - r * now
  BY <1>1, ProductDiff
<1>5. Worth(id) = k + (r * clock - r * l) /\ Worth(id) >= 0
  BY <1>1, ProductDiff DEF Worth, BucketInv
<1>6. 0 <= r * (clock - now) /\ r * (clock - now) <= r * MaxLag
  <2>1. 0 <= clock - now /\ clock - now <= MaxLag
    BY <1>1
  <2>2. r * 0 <= r * (clock - now) /\ r * (clock - now) <= r * MaxLag
    BY <1>1, <2>1, ProductMonotone
  <2>3. QED
    BY <1>1, <2>2
<1>7. r * now \in Int /\ r * l \in Int /\ r * clock \in Int /\ r * MaxLag \in Int
  BY <1>1
<1>8. \/ t = k + (r * now - r * l) /\ t <= PlanOf[id].burst
      \/ t = PlanOf[id].burst /\ t <= k + (r * now - r * l)
  BY <1>1, <1>3, <1>7 DEF Refilled, Capped
<1>9. Ceiling(id) = PlanOf[id].burst + r * MaxLag
  BY DEF Ceiling
<1> HIDE DEF t, r, k, l
<1>10. /\ t <= PlanOf[id].burst
       /\ 0 <= w
       /\ w <= Worth(id)
       /\ w <= Ceiling(id)
       /\ t + r * MaxLag >= 0
  BY <1>1, <1>2, <1>4, <1>5, <1>6, <1>7, <1>8, <1>9
<1>11. \/ t = k + r * (now - l)
       \/ t = PlanOf[id].burst
  BY <1>1, <1>3, <1>8
<1>12. QED
  BY <1>2, <1>10, <1>11 DEF t, r, k, l

\* The bucket of an id idle for TTL is worth more than the ceiling.
LEMMA IdleBucket ==
    ASSUME TypeOK, BucketInv, LagInv, sweep # None, NEW id \in DOMAIN b,
           b[id].last < sweep - TTL, Refills(PlanOf[id])
    PROVE  Worth(id) > Ceiling(id)
<1> DEFINE r == PlanOf[id].rate
           k == b[id].tokens
           l == b[id].last
<1>1. /\ id \in Ids /\ k \in Int /\ l \in Int /\ r \in Nat \ {0}
      /\ PlanOf[id].burst \in Nat /\ sweep \in Int /\ clock \in Int
      /\ MaxLag \in Nat /\ TTL \in Nat
  BY BucketType, PlanType, TimesAssumption DEF TypeOK, None
<1>2. clock - l >= TTL + 1
  BY <1>1 DEF LagInv
<1>3. r * (clock - l) >= r * (TTL + 1)
  BY <1>1, <1>2, ProductMonotone
<1>4. r * (TTL + 1) = r * TTL + r
  <2> HIDE DEF r
  <2>1. QED
    BY <1>1, ProductSucc
<1>5. r * (TTL - 2 * MaxLag) = r * TTL - 2 * (r * MaxLag)
  BY <1>1
<1>6. r * TTL \in Int /\ r * MaxLag \in Int /\ r * (clock - l) \in Int
  BY <1>1
<1>7. k + r * MaxLag >= 0
  BY DEF BucketInv
<1>8. r * TTL - 2 * (r * MaxLag) >= PlanOf[id].burst
  BY <1>5 DEF Refills
<1>9. Worth(id) = k + r * (clock - l) /\ Ceiling(id) = PlanOf[id].burst + r * MaxLag
  BY DEF Worth, Ceiling
<1> HIDE DEF r, k, l
<1>10. QED
  BY <1>1, <1>3, <1>4, <1>6, <1>7, <1>8, <1>9

-----------------------------------------------------------------------------
(***************************************************************************)
(* A step that replaces or adds the bucket of one id and keeps the time    *)
(* keeps the invariants of all buckets, if it keeps those of this one.     *)
(***************************************************************************)
LEMMA OneBucket ==
    ASSUME TypeOK, TypeOK', BucketInv, LoadInv, NEW id \in Ids,
           NEW t \in Int, NEW now \in 0 .. MaxClock, now <= clock,
           clock' = clock, id \in DOMAIN b', DOMAIN b' = DOMAIN b \cup {id},
           \A x \in DOMAIN b \ {id} : b'[x] = b[x],
           b'[id] = [tokens |-> t, last |-> now],
           \A x \in Ids \ {id} : load'[x] = load[x],
           0 <= t + PlanOf[id].rate * (clock - now),
           t + PlanOf[id].rate * MaxLag >= 0,
           Refills(PlanOf[id]) =>
               \/ load'[id] = 0
               \/ load'[id] + (t + PlanOf[id].rate * (clock - now))
                      <= Ceiling(id)
    PROVE  BucketInv' /\ LoadInv'
<1>1. Worth(id)' = t + PlanOf[id].rate * (clock - now)
  BY DEF Worth
<1>2. \A x \in DOMAIN b \ {id} : Worth(x)' = Worth(x)
  BY DEF Worth
<1>3. \A x \in Ids : Ceiling(x)' = Ceiling(x)
  BY DEF Ceiling
<1>4. BucketInv'
  BY <1>1, <1>2 DEF BucketInv
<1>5. LoadInv'
  <2> SUFFICES ASSUME NEW x \in Ids, Refills(PlanOf[x])
               PROVE  \/ load'[x] = 0
                      \/ x \in DOMAIN b' /\ load'[x] + Worth(x)' <= Ceiling(x)'
    BY DEF LoadInv, Refills
  <2>1. CASE x = id
    BY <1>1, <1>3, <2>1
  <2>2. CASE x # id
    BY <1>2, <1>3, <2>2 DEF LoadInv
  <2>3. QED
    BY <2>1, <2>2
<1>6. QED
  BY <1>4, <1>5

\* With no buckets and no load the invariant holds.
LEMMA InvInit == Init => LimiterInv
<1> SUFFICES ASSUME Init PROVE LimiterInv
  OBVIOUS
<1>1. LagInv
  BY DEF Init, LagInv, Calling, Idle
<1>2. DOMAIN b = {} /\ \A id \in Ids : load[id] = 0
  BY DEF Init
<1>3. QED
  BY <1>1, <1>2 DEF LimiterInv, BucketInv, LoadInv, PromiseInv

\* Whoever returns was the only one whose call changed.
LEMMA LagReturn ==
    ASSUME TypeOK, LagInv, NEW c \in Callers, Return(c), UNCHANGED <<clock, sweep>>
    PROVE  LagInv'
BY DEF TypeOK, LagInv, Return, Calling, Idle

\* A tick moves the rate of a plan from the load to the worth.
LEMMA TickInv ==
    ASSUME TypeOK, TypeOK', LimiterInv, Tick
    PROVE  LimiterInv'
<1>1. LagInv'
  BY TimesAssumption
     DEF TypeOK, Tick, LimiterInv, LagInv, Calling, Calls, Idle, None
<1>2. \A id \in DOMAIN b : /\ Worth(id)' = Worth(id) + PlanOf[id].rate
                          /\ Worth(id) \in Int
  <2> SUFFICES ASSUME NEW id \in DOMAIN b
               PROVE  /\ Worth(id)' = Worth(id) + PlanOf[id].rate
                      /\ Worth(id) \in Int
    OBVIOUS
  <2> DEFINE r == PlanOf[id].rate
             k == b[id].tokens
             d == clock - b[id].last
  <2>1. /\ id \in Ids /\ k \in Int /\ d \in Int /\ r \in Nat
        /\ b[id].last \in Int /\ clock \in Int
    BY BucketType, PlanType DEF TypeOK
  <2>2. Worth(id) = k + r * d
    BY DEF Worth
  <2>3. Worth(id)' = k + r * (d + 1)
    <3>1. Worth(id)' = k + r * ((clock + 1) - b[id].last)
      BY DEF Worth, Tick
    <3>2. (clock + 1) - b[id].last = d + 1
      BY <2>1
    <3>3. QED
      BY <3>1, <3>2
  <2>4. r * (d + 1) = r * d + r /\ r * d \in Int
    BY <2>1, ProductSucc
  <2>5. QED
    BY <2>1, <2>2, <2>3, <2>4
<1>3. BucketInv'
  <2>1. b' = b /\ clock' = clock + 1
    BY DEF Tick
  <2>2. QED
    BY <1>2, <2>1, BucketType, PlanType DEF LimiterInv, BucketInv, TypeOK
<1>4. LoadInv'
  <2> SUFFICES ASSUME NEW id \in Ids, Refills(PlanOf[id])
               PROVE  \/ load'[id] = 0
                      \/ id \in DOMAIN b' /\ load'[id] + Worth(id)' <= Ceiling(id)'
    BY DEF LoadInv, Refills
  <2>1. PlanOf[id].rate \in Nat /\ load[id] \in Nat
    BY PlanType DEF TypeOK
  <2>2. load'[id] = IF load[id] > PlanOf[id].rate
                    THEN load[id] - PlanOf[id].rate ELSE 0
    BY DEF Tick, Drained
  <2>3. \/ load[id] = 0
        \/ id \in DOMAIN b /\ load[id] + Worth(id) <= Ceiling(id)
    BY DEF LimiterInv, LoadInv
  <2>4. Ceiling(id)' = Ceiling(id) /\ Ceiling(id) \in Int /\ b' = b
    BY PlanType, TimesAssumption DEF Ceiling, Tick
  <2>5. QED
    BY <1>2, <2>1, <2>2, <2>3, <2>4
<1>5. PromiseInv'
  BY DEF Tick, LimiterInv, PromiseInv
<1>6. QED
  BY <1>1, <1>3, <1>4, <1>5 DEF LimiterInv

-----------------------------------------------------------------------------
(***************************************************************************)
(* The steps of a call.                                                    *)
(***************************************************************************)
LEMMA CallInv ==
    ASSUME TypeOK, LimiterInv, NEW c \in Callers, NEW id \in Ids, Call(c, id)
    PROVE  LimiterInv'
<1>1. LagInv'
  BY TimesAssumption DEF TypeOK, Call, LimiterInv, LagInv, Calling, Calls, Idle
<1>2. BucketInv' /\ LoadInv' /\ PromiseInv'
  BY DEF Call, LimiterInv, BucketInv, LoadInv, PromiseInv, Worth, Ceiling,
         Refills
<1>3. QED
  BY <1>1, <1>2 DEF LimiterInv

\* A new bucket: no load was left, so burst and one request fit.
LEMMA AllowNewInv ==
    ASSUME TypeOK, TypeOK', LimiterInv, NEW c \in Callers, AllowNew(c)
    PROVE  LimiterInv'
<1> DEFINE id == call[c].id
           now == call[c].now
           r == PlanOf[id].rate
           t == PlanOf[id].burst - Unit
<1>1. /\ id \in Ids /\ now \in 0 .. MaxClock
      /\ now <= clock /\ clock <= now + MaxLag
  BY CallType DEF AllowNew, LimiterInv, LagInv
<1>2. /\ t \in Nat /\ r \in Nat /\ now \in Int /\ clock \in Int
      /\ MaxLag \in Nat /\ Unit \in Nat /\ PlanOf[id].burst \in Nat
  BY <1>1, PlanType, UnitAssumption, TimesAssumption DEF TypeOK
<1>3. 0 <= r * (clock - now) /\ r * (clock - now) <= r * MaxLag
  <2>1. 0 <= clock - now /\ clock - now <= MaxLag
    BY <1>1, <1>2
  <2>2. r * 0 <= r * (clock - now) /\ r * (clock - now) <= r * MaxLag
    BY <1>2, <2>1, ProductMonotone
  <2>3. QED
    BY <1>2, <2>2
<1>4. r * (clock - now) \in Int /\ r * MaxLag \in Int
  BY <1>2
<1>5. /\ DOMAIN b' = DOMAIN b \cup {id}
      /\ \A x \in DOMAIN b \ {id} : b'[x] = b[x]
      /\ b'[id] = [tokens |-> t, last |-> now]
      /\ id \notin DOMAIN b /\ clock' = clock /\ sweep' = sweep
  BY DEF AllowNew, Put
<1>6. /\ load'[id] = load[id] + Unit
      /\ \A x \in Ids \ {id} : load'[x] = load[x] /\ promise'[x] = promise[x]
      /\ promise'[id] = None
  BY <1>1 DEF AllowNew, Grant, TypeOK
<1>7. Refills(PlanOf[id]) => load'[id] = Unit
  BY <1>1, <1>2, <1>5, <1>6 DEF LimiterInv, LoadInv
<1>8. 0 <= t + r * (clock - now) /\ t + r * MaxLag >= 0
  BY <1>2, <1>3, <1>4
<1>9. Refills(PlanOf[id]) => load'[id] + (t + r * (clock - now)) <= Ceiling(id)
  BY <1>2, <1>3, <1>4, <1>7 DEF Ceiling
<1>10. BucketInv' /\ LoadInv'
  <2> HIDE DEF id, now, r, t
  <2>1. 0 <= t + PlanOf[id].rate * (clock - now) /\ t + PlanOf[id].rate * MaxLag >= 0
    BY <1>8 DEF r
  <2>2. Refills(PlanOf[id]) =>
            load'[id] + (t + PlanOf[id].rate * (clock - now)) <= Ceiling(id)
    BY <1>9 DEF r
  <2>3. t \in Int
    BY <1>2
  <2>4. QED
    BY <1>1, <1>5, <1>6, <2>1, <2>2, <2>3, OneBucket DEF LimiterInv
<1>11. LagInv'
  BY <1>5, LagReturn DEF AllowNew, LimiterInv
<1>12. PromiseInv'
  <2> SUFFICES ASSUME NEW x \in DOMAIN b', promise'[x] # None
               PROVE  b'[x].tokens + PlanOf[x].rate * (promise'[x] - b'[x].last) >= Unit
    BY DEF PromiseInv
  <2>1. x # id /\ x \in DOMAIN b /\ x \in Ids
    BY <1>5, <1>6, BucketType
  <2>2. QED
    BY <1>5, <1>6, <2>1 DEF LimiterInv, PromiseInv
<1>13. QED
  BY <1>10, <1>11, <1>12 DEF LimiterInv

\* A request let through for want of room changes no bucket.
LEMMA AllowUntrackedInv ==
    ASSUME TypeOK, LimiterInv, NEW c \in Callers, AllowUntracked(c)
    PROVE  LimiterInv'
<1>1. LagInv'
  BY LagReturn DEF AllowUntracked, LimiterInv
<1>2. BucketInv' /\ LoadInv' /\ PromiseInv'
  BY DEF AllowUntracked, LimiterInv, BucketInv, LoadInv, PromiseInv, Worth,
         Ceiling, Refills
<1>3. QED
  BY <1>1, <1>2 DEF LimiterInv

\* A grant moves the cost of a request from the worth to the load.
LEMMA AllowGrantsInv ==
    ASSUME TypeOK, TypeOK', LimiterInv, NEW c \in Callers, AllowGrants(c)
    PROVE  LimiterInv'
<1> DEFINE id == call[c].id
           now == call[c].now
           r == PlanOf[id].rate
           t == Refilled(b[id], PlanOf[id], now)
           w == t + r * (clock - now)
<1>1. /\ id \in Ids /\ id \in DOMAIN b /\ now \in 0 .. MaxClock
      /\ now <= clock /\ clock <= now + MaxLag
  BY CallType DEF AllowGrants, LimiterInv, LagInv
<1>2. t \in Int /\ w <= Worth(id) /\ w <= Ceiling(id)
  BY <1>1, RefillFacts DEF LimiterInv
<1>3. t >= Unit
  BY DEF AllowGrants
<1>4. /\ r \in Nat /\ now \in Int /\ clock \in Int /\ MaxLag \in Nat
      /\ Unit \in Nat /\ load[id] \in Nat /\ PlanOf[id].burst \in Nat
  BY <1>1, PlanType, UnitAssumption, TimesAssumption DEF TypeOK
<1>5. 0 <= r * (clock - now) /\ 0 <= r * MaxLag
  <2>1. r \in Nat /\ clock - now \in Nat
    BY <1>1, <1>4
  <2>2. QED
    BY <1>4, <2>1
<1>6. r * (clock - now) \in Int /\ r * MaxLag \in Int
  BY <1>4
<1>7. Worth(id) \in Int /\ Ceiling(id) \in Int
  BY <1>1, <1>4, <1>6, BucketType DEF Worth, Ceiling
<1>8. /\ DOMAIN b' = DOMAIN b \cup {id}
      /\ \A x \in DOMAIN b \ {id} : b'[x] = b[x]
      /\ b'[id] = [tokens |-> t - Unit, last |-> now]
      /\ clock' = clock /\ sweep' = sweep
  BY <1>1 DEF AllowGrants
<1>9. /\ load'[id] = load[id] + Unit
      /\ \A x \in Ids \ {id} : load'[x] = load[x] /\ promise'[x] = promise[x]
      /\ promise'[id] = None
  BY <1>1 DEF AllowGrants, Grant, TypeOK
<1>10. Refills(PlanOf[id]) => load[id] = 0 \/ load[id] + Worth(id) <= Ceiling(id)
  BY <1>1 DEF LimiterInv, LoadInv
<1> HIDE DEF id, now, r, t
<1>11. 0 <= (t - Unit) + r * (clock - now) /\ (t - Unit) + r * MaxLag >= 0
  BY <1>2, <1>3, <1>4, <1>5, <1>6
<1>12. Refills(PlanOf[id]) =>
           load'[id] + ((t - Unit) + r * (clock - now)) <= Ceiling(id)
  BY <1>2, <1>4, <1>6, <1>7, <1>9, <1>10
<1>13. BucketInv' /\ LoadInv'
  <2>1. t - Unit \in Int
    BY <1>2, <1>4
  <2>2. /\ 0 <= (t - Unit) + PlanOf[id].rate * (clock - now)
        /\ (t - Unit) + PlanOf[id].rate * MaxLag >= 0
    BY <1>11 DEF r
  <2>3. Refills(PlanOf[id]) =>
            load'[id] + ((t - Unit) + PlanOf[id].rate * (clock - now)) <= Ceiling(id)
    BY <1>12 DEF r
  <2>4. id \in DOMAIN b'
    BY <1>1, <1>8
  <2>5. QED
    BY <1>1, <1>8, <1>9, <2>1, <2>2, <2>3, <2>4, OneBucket DEF LimiterInv
<1>14. LagInv'
  BY <1>8, LagReturn DEF AllowGrants, LimiterInv
<1>15. PromiseInv'
  <2> SUFFICES ASSUME NEW x \in DOMAIN b', promise'[x] # None
               PROVE  b'[x].tokens + PlanOf[x].rate * (promise'[x] - b'[x].last) >= Unit
    BY DEF PromiseInv
  <2>1. x # id /\ x \in DOMAIN b /\ x \in Ids
    BY <1>8, <1>9, <1>1, BucketType
  <2>2. QED
    BY <1>8, <1>9, <2>1 DEF LimiterInv, PromiseInv
<1>16. QED
  BY <1>13, <1>14, <1>15 DEF LimiterInv

\* A denial refills the bucket and makes a promise it can keep.
LEMMA AllowDeniesInv ==
    ASSUME TypeOK, TypeOK', LimiterInv, NEW c \in Callers, AllowDenies(c)
    PROVE  LimiterInv'
<1> DEFINE id == call[c].id
           now == call[c].now
           r == PlanOf[id].rate
           t == Refilled(b[id], PlanOf[id], now)
           w == t + r * (clock - now)
           wait == Wait(Unit - t, PlanOf[id])
<1>1. /\ id \in Ids /\ id \in DOMAIN b /\ now \in 0 .. MaxClock
      /\ now <= clock /\ clock <= now + MaxLag
  BY CallType DEF AllowDenies, LimiterInv, LagInv
<1>2. /\ t \in Int /\ 0 <= w /\ w <= Worth(id) /\ w <= Ceiling(id)
      /\ t + r * MaxLag >= 0
  BY <1>1, RefillFacts DEF LimiterInv
<1>3. /\ r \in Nat /\ now \in Int /\ clock \in Int /\ Unit \in Nat
      /\ load[id] \in Nat /\ MaxLag \in Nat /\ PlanOf[id].burst \in Nat
  BY <1>1, PlanType, UnitAssumption, TimesAssumption DEF TypeOK
<1>4. Unit - t \in Nat \ {0}
  BY <1>2, <1>3 DEF AllowDenies
<1>5. wait \in Nat /\ r * wait >= Unit - t
  BY <1>1, <1>4, PlanType, WaitLongEnough
<1>6. /\ DOMAIN b' = DOMAIN b \cup {id}
      /\ \A x \in DOMAIN b \ {id} : b'[x] = b[x]
      /\ b'[id] = [tokens |-> t, last |-> now]
      /\ clock' = clock /\ sweep' = sweep /\ load' = load
  BY <1>1 DEF AllowDenies
<1>7. /\ promise'[id] = now + wait
      /\ \A x \in Ids \ {id} : promise'[x] = promise[x]
  BY <1>1 DEF AllowDenies, TypeOK
<1>8. Worth(id) \in Int /\ Ceiling(id) \in Int /\ w \in Int
  <2>1. r * (clock - now) \in Int /\ r * MaxLag \in Int /\ r * (clock - b[id].last) \in Int
    BY <1>1, <1>3, BucketType
  <2>2. QED
    BY <1>1, <1>2, <1>3, <2>1, BucketType DEF Worth, Ceiling
<1>9. Refills(PlanOf[id]) => load'[id] = 0 \/ load'[id] + w <= Ceiling(id)
  <2>1. Refills(PlanOf[id]) => load[id] = 0 \/ load[id] + Worth(id) <= Ceiling(id)
    BY <1>1 DEF LimiterInv, LoadInv
  <2> HIDE DEF id, w
  <2>2. QED
    BY <1>2, <1>3, <1>6, <1>8, <2>1
<1>10. BucketInv' /\ LoadInv'
  <2>1. /\ 0 <= t + PlanOf[id].rate * (clock - now)
        /\ t + PlanOf[id].rate * MaxLag >= 0
        /\ Refills(PlanOf[id]) =>
              \/ load'[id] = 0
              \/ load'[id] + (t + PlanOf[id].rate * (clock - now)) <= Ceiling(id)
    BY <1>2, <1>9
  <2> HIDE DEF id, now, r, t, w, wait
  <2>2. id \in DOMAIN b'
    BY <1>1, <1>6
  <2>3. \A x \in Ids \ {id} : load'[x] = load[x]
    BY <1>6
  <2>4. QED
    BY <1>1, <1>2, <1>6, <2>1, <2>2, <2>3, OneBucket DEF LimiterInv
<1>11. LagInv'
  BY <1>6, LagReturn DEF AllowDenies, LimiterInv
<1>12. PromiseInv'
  <2> SUFFICES ASSUME NEW x \in DOMAIN b', promise'[x] # None
               PROVE  b'[x].tokens + PlanOf[x].rate * (promise'[x] - b'[x].last) >= Unit
    BY DEF PromiseInv
  <2> HIDE DEF id, now, r, t, w, wait
  <2>1. CASE x = id
    <3>1. (now + wait) - now = wait
      BY <1>3, <1>5
    <3>2. t + r * wait >= Unit
      BY <1>2, <1>3, <1>5
    <3>3. QED
      BY <1>6, <1>7, <2>1, <3>1, <3>2 DEF r
  <2>2. CASE x # id
    <3>1. x \in DOMAIN b /\ x \in Ids
      BY <1>6, <2>2, BucketType
    <3>2. QED
      BY <1>6, <1>7, <2>2, <3>1 DEF LimiterInv, PromiseInv
  <2>3. QED
    BY <2>1, <2>2
<1>13. QED
  BY <1>10, <1>11, <1>12 DEF LimiterInv

-----------------------------------------------------------------------------
(***************************************************************************)
(* gc: what it drops is worth more than the ceiling, so no load is left.   *)
(***************************************************************************)
LEMMA GcBeginsInv ==
    ASSUME TypeOK, LimiterInv, GcBegins
    PROVE  LimiterInv'
<1>1. LagInv'
  BY TimesAssumption DEF TypeOK, GcBegins, LimiterInv, LagInv, Calling
<1>2. BucketInv' /\ LoadInv' /\ PromiseInv'
  BY DEF GcBegins, LimiterInv, BucketInv, LoadInv, PromiseInv, Worth, Ceiling,
         Refills
<1>3. QED
  BY <1>1, <1>2 DEF LimiterInv

\* The sweep drops only buckets whose ids have no load left.
LEMMA GcInv ==
    ASSUME TypeOK, LimiterInv, Gc
    PROVE  LimiterInv'
<1>1. /\ DOMAIN b' = Live /\ Live \subseteq DOMAIN b
      /\ \A id \in Live : b'[id] = b[id]
      /\ clock' = clock /\ load' = load /\ promise' = promise /\ call' = call
  BY DEF Gc, Live
<1>2. LagInv'
  BY <1>1 DEF Gc, LimiterInv, LagInv, Calling
<1>3. \A id \in Ids : Ceiling(id)' = Ceiling(id)
  BY DEF Ceiling
<1>4. \A id \in Live : Worth(id)' = Worth(id)
  BY <1>1 DEF Worth
<1>5. BucketInv' /\ PromiseInv'
  BY <1>1, <1>4 DEF LimiterInv, BucketInv, PromiseInv
<1>6. LoadInv'
  <2> SUFFICES ASSUME NEW id \in Ids, Refills(PlanOf[id])
               PROVE  \/ load'[id] = 0
                      \/ id \in DOMAIN b' /\ load'[id] + Worth(id)' <= Ceiling(id)'
    BY DEF LoadInv, Refills
  <2>1. \/ load[id] = 0
        \/ id \in DOMAIN b /\ load[id] + Worth(id) <= Ceiling(id)
    BY DEF LimiterInv, LoadInv
  <2>2. CASE id \in Live
    BY <1>1, <1>3, <1>4, <2>1, <2>2
  <2>3. CASE id \in DOMAIN b /\ id \notin Live
    <3>1. b[id].last < sweep - TTL
      BY <2>3, BucketType, TimesAssumption DEF Live, Gc, TypeOK, None
    <3>2. Worth(id) > Ceiling(id)
      BY <2>3, <3>1, IdleBucket DEF Gc, LimiterInv
    <3>3. Worth(id) \in Int /\ Ceiling(id) \in Int /\ load[id] \in Nat
      <4>1. /\ PlanOf[id].rate \in Nat /\ PlanOf[id].burst \in Nat
            /\ MaxLag \in Nat /\ clock \in Int
            /\ b[id].tokens \in Int /\ b[id].last \in Int
        BY <2>3, BucketType, PlanType, TimesAssumption DEF TypeOK
      <4>2. /\ PlanOf[id].rate * (clock - b[id].last) \in Int
            /\ PlanOf[id].rate * MaxLag \in Int
        BY <4>1
      <4>3. QED
        BY <4>1, <4>2 DEF Worth, Ceiling, TypeOK
    <3>4. QED
      BY <1>1, <2>1, <3>2, <3>3
  <2>4. CASE id \notin DOMAIN b
    BY <1>1, <2>1, <2>4
  <2>5. QED
    BY <2>2, <2>3, <2>4
<1>7. QED
  BY <1>2, <1>5, <1>6 DEF LimiterInv

\* Every step keeps the invariant.
LEMMA InvStep ==
    ASSUME TypeOK, TypeOK', LimiterInv, [Next]_vars
    PROVE  LimiterInv'
<1>1. CASE Tick
  BY <1>1, TickInv
<1>2. ASSUME NEW c \in Callers, NEW id \in Ids, Call(c, id) PROVE LimiterInv'
  BY <1>2, CallInv
<1>3. ASSUME NEW c \in Callers, Allow(c) PROVE LimiterInv'
  BY <1>3, AllowNewInv, AllowUntrackedInv, AllowGrantsInv, AllowDeniesInv
     DEF Allow
<1>4. CASE GcBegins
  BY <1>4, GcBeginsInv
<1>5. CASE Gc
  BY <1>5, GcInv
<1>6. CASE UNCHANGED vars
  BY <1>6 DEF vars, LimiterInv, LagInv, Calling, BucketInv, LoadInv, PromiseInv,
              Worth, Ceiling, Refills
<1>7. QED
  BY <1>1, <1>2, <1>3, <1>4, <1>5, <1>6 DEF Next

\* The accounting of load and worth holds in every state of Allow and gc.
THEOREM LimiterInvariant == Spec => [](TypeOK /\ LimiterInv)
<1>1. Init => TypeOK /\ LimiterInv
  BY TypeInit, InvInit
<1>2. (TypeOK /\ LimiterInv) /\ [Next]_vars => (TypeOK /\ LimiterInv)'
  BY TypeStep, InvStep
<1>3. QED
  BY <1>1, <1>2, PTL DEF Spec

-----------------------------------------------------------------------------
(***************************************************************************)
(* The limit is kept: no interval of time sees more grants than the burst, *)
(* the refill and the lag of a caller allow.                               *)
(***************************************************************************)
LEMMA InvGrants == TypeOK /\ LimiterInv => GrantsBounded
<1> SUFFICES ASSUME TypeOK, LimiterInv, NEW id \in Ids, Refills(PlanOf[id])
             PROVE  load[id] <= PlanOf[id].burst + PlanOf[id].rate * MaxLag
  BY DEF GrantsBounded
<1>1. /\ PlanOf[id].rate \in Nat /\ PlanOf[id].burst \in Nat
      /\ MaxLag \in Nat /\ load[id] \in Nat
  BY PlanType, TimesAssumption DEF TypeOK
<1>2. PlanOf[id].rate * MaxLag \in Nat
  BY <1>1
<1>3. CASE load[id] = 0
  BY <1>1, <1>2, <1>3
<1>4. CASE id \in DOMAIN b /\ load[id] + Worth(id) <= Ceiling(id)
  <2>1. Worth(id) >= 0
    BY <1>4 DEF LimiterInv, BucketInv
  <2>2. Worth(id) \in Int
    <3>1. /\ b[id].tokens \in Int /\ b[id].last \in Int /\ clock \in Int
      BY <1>4, BucketType DEF TypeOK
    <3>2. PlanOf[id].rate * (clock - b[id].last) \in Int
      BY <1>1, <3>1
    <3>3. QED
      BY <3>1, <3>2 DEF Worth
  <2>3. QED
    BY <1>1, <1>2, <1>4, <2>1, <2>2 DEF Ceiling
<1>5. QED
  BY <1>3, <1>4 DEF LimiterInv, LoadInv

\* No id is let through more often than burst, rate and lag allow.
THEOREM GrantsCorrect == Spec => []GrantsBounded
BY LimiterInvariant, InvGrants, PTL

(***************************************************************************)
(* Retry-After is kept: no call that comes when the wait an id was told is *)
(* over is denied, unless another one was granted meanwhile.               *)
(***************************************************************************)
LEMMA InvRetry ==
    ASSUME TypeOK, LimiterInv, NEW c \in Callers, AllowDenies(c),
           promise[call[c].id] # None
    PROVE  call[c].now < promise[call[c].id]
<1> DEFINE id == call[c].id
           now == call[c].now
           r == PlanOf[id].rate
           k == b[id].tokens
           l == b[id].last
           p == promise[id]
           t == Refilled(b[id], PlanOf[id], now)
<1>1. /\ id \in Ids /\ id \in DOMAIN b /\ now \in 0 .. MaxClock
      /\ now <= clock /\ clock <= now + MaxLag
  BY CallType DEF AllowDenies, LimiterInv, LagInv
<1>2. /\ r \in Nat /\ k \in Int /\ l \in Int /\ now \in Int /\ p \in Int
      /\ Unit \in Nat /\ PlanOf[id].burst \in Nat /\ PlanOf[id].burst >= Unit
  BY <1>1, PlanType, BucketType, UnitAssumption DEF TypeOK
<1>3. t \in Int /\ t < Unit /\ (t = k + r * (now - l) \/ t = PlanOf[id].burst)
  BY <1>1, RefillFacts DEF AllowDenies, LimiterInv
<1>4. k + r * (p - l) >= Unit
  BY <1>1 DEF LimiterInv, PromiseInv
<1> HIDE DEF id, now, r, k, l, p, t
<1>5. r * (now - l) \in Int /\ r * (p - l) \in Int
  BY <1>2
<1>6. r * (now - l) < r * (p - l)
  BY <1>2, <1>3, <1>4, <1>5
<1>7. ASSUME p <= now PROVE FALSE
  <2>1. p - l <= now - l /\ p - l \in Int /\ now - l \in Int
    BY <1>2, <1>7
  <2>2. r * (p - l) <= r * (now - l)
    BY <1>2, <2>1, ProductMonotone
  <2>3. QED
    BY <1>5, <1>6, <2>2
<1>8. now < p
  BY <1>2, <1>7
<1>9. QED
  BY <1>8 DEF now, p, id

\* Whoever waits as long as Retry-After says is let in.
THEOREM RetryCorrect == Spec => RetryHonoured
<1>1. TypeOK /\ LimiterInv /\ [Next]_vars =>
         [\A c \in Callers : AllowDenies(c) /\ promise[call[c].id] # None =>
              call[c].now < promise[call[c].id]]_vars
  BY InvRetry
<1>2. QED
  BY <1>1, LimiterInvariant, PTL DEF Spec, RetryHonoured


GateAssumptions == Gate!HandlersAssumption /\ Gate!GuardAssumption /\ Gate!TimesAssumption

-----------------------------------------------------------------------------
(***************************************************************************)
(* Shapes.                                                                 *)
(***************************************************************************)
\* The instance brings the operators of FiniteSets along: they are the same.
LEMMA GateSets ==
    ASSUME NEW S
    PROVE  /\ Gate!Cardinality(S) = Cardinality(S)
           /\ Gate!IsFiniteSet(S) <=> IsFiniteSet(S)
<1>1. Gate!Cardinality(S) = Cardinality(S)
  BY DEF Gate!Cardinality, Cardinality
<1>2. Gate!IsFiniteSet(S) <=> IsFiniteSet(S)
  BY DEF Gate!IsFiniteSet, IsFiniteSet
<1>3. QED
  BY <1>1, <1>2

LEMMA GateConstantShape ==
    ASSUME GateAssumptions
    PROVE  /\ Burst \in Nat /\ RetryAfter \in Nat /\ GuardTTL \in Nat
           /\ MaxRoutes \in Nat /\ MaxLag \in Nat /\ GateMaxClock \in Nat
           /\ Rate \in Nat /\ FailUnit \in Nat /\ Burst >= FailUnit
           /\ IsFiniteSet(Handlers)
BY GateSets DEF GateAssumptions, Gate!HandlersAssumption, Gate!GuardAssumption

LEMMA GateRequestShape ==
    ASSUME Gate!TypeOK, NEW h \in Handlers
    PROVE  /\ req[h].at = "resolving" => req[h].ip \in Ips
           /\ Gate!Waiting(h) => req[h].ip \in Ips /\ req[h].now \in 0 .. GateMaxClock
<1>1. req[h] \in Gate!Requests \/ req[h] = Gate!Idle
  BY DEF Gate!TypeOK
<1>2. CASE req[h] \in Gate!Requests
  BY <1>2 DEF Gate!Requests, Gate!Waiting
<1>3. CASE req[h] = Gate!Idle
  BY <1>3 DEF Gate!Idle, Gate!Waiting
<1>4. QED
  BY <1>1, <1>2, <1>3

LEMMA GateBucketShape ==
    ASSUME Gate!TypeOK, NEW ip \in DOMAIN buckets
    PROVE  buckets[ip] \in Gate!Buckets /\ buckets[ip].tokens \in Int /\ buckets[ip].last \in 0 .. GateMaxClock
BY DEF Gate!TypeOK, Gate!Buckets

LEMMA GateRefilledShape ==
    ASSUME GateAssumptions, Gate!TypeOK, NEW ip \in DOMAIN buckets, NEW t \in 0 .. GateMaxClock
    PROVE  /\ Gate!Refilled(buckets[ip], t) \in Int
           /\ Gate!Refilled(buckets[ip], t) <= Burst
           /\ \/ Gate!Refilled(buckets[ip], t) = Burst
              \/ Gate!Refilled(buckets[ip], t) = buckets[ip].tokens + Rate * t - Rate * buckets[ip].last
           /\ \/ Gate!Refilled(buckets[ip], t) = Burst
              \/ buckets[ip].tokens + Rate * t - Rate * buckets[ip].last <= Burst
<1>1. buckets[ip].tokens \in Int /\ buckets[ip].last \in Int /\ t \in Int
      /\ Rate \in Int /\ Burst \in Int
  BY GateConstantShape, GateBucketShape
<1>2. (t - buckets[ip].last) * Rate = Rate * t - Rate * buckets[ip].last
  BY <1>1
<1>3. Rate * t \in Int /\ Rate * buckets[ip].last \in Int
  BY <1>1
<1>4. QED
  BY <1>1, <1>2, <1>3 DEF Gate!Refilled

-----------------------------------------------------------------------------
(***************************************************************************)
(* Types, the places of the routing, and how old a time that was read is.  *)
(***************************************************************************)
GateLagInv ==
    \A h \in Handlers : Gate!Waiting(h) =>
        req[h].now <= gateClock /\ gateClock <= req[h].now + MaxLag

GateRouting == {h \in Handlers : req[h].at = "routing"}

\* What keeps routes within its type: a place is that of a request routed now.
GatePlaces == routes = Cardinality(GateRouting)

GateStateInv == Gate!TypeOK /\ GateLagInv /\ GatePlaces

LEMMA GateRoutingFinite ==
    ASSUME GateAssumptions
    PROVE  IsFiniteSet(GateRouting) /\ IsFiniteSet(GateRouting')
<1>1. GateRouting \subseteq Handlers /\ GateRouting' \subseteq Handlers
  BY DEF GateRouting
<1>2. QED
  BY <1>1, GateConstantShape, FS_Subset

\* A handler that neither was routed nor is.
LEMMA GateNotRouted ==
    ASSUME Gate!TypeOK, NEW h \in Handlers, NEW r, Gate!Goes(h, r),
           req[h].at # "routing", r.at # "routing"
    PROVE  GateRouting' = GateRouting
<1>1. req' \in [Handlers -> {req'[x] : x \in Handlers}]
      /\ \A x \in Handlers : req'[x] = IF x = h THEN r ELSE req[x]
  BY DEF Gate!Goes, Gate!TypeOK
<1>2. QED
  BY <1>1 DEF GateRouting

\* A request that goes on as r, which is allowed to.
LEMMA GateGoesType ==
    ASSUME Gate!TypeOK, GateLagInv, NEW h \in Handlers, NEW r \in Gate!Requests \cup {Gate!Idle},
           Gate!Goes(h, r), gateClock' = gateClock,
           r.at \in {"arrived", "failing"} =>
               r.now <= gateClock /\ gateClock <= r.now + MaxLag
    PROVE  req' \in [Handlers -> Gate!Requests \cup {Gate!Idle}] /\ GateLagInv'
<1>1. req' \in [Handlers -> Gate!Requests \cup {Gate!Idle}]
  BY DEF Gate!Goes, Gate!TypeOK
<1>2. \A x \in Handlers : req'[x] = IF x = h THEN r ELSE req[x]
  BY DEF Gate!Goes, Gate!TypeOK
<1>3. GateLagInv'
  BY <1>2 DEF GateLagInv, Gate!Waiting
<1>4. QED
  BY <1>1, <1>3

\* A request that has just read the clock.
LEMMA GateReadsShape ==
    ASSUME GateAssumptions, Gate!TypeOK, NEW ip \in Ips, NEW at \in {"arrived", "failing"}
    PROVE  /\ Gate!Reads(ip, at) \in Gate!Requests
           /\ Gate!Reads(ip, at).now <= gateClock /\ gateClock <= Gate!Reads(ip, at).now + MaxLag
           /\ Gate!Reads(ip, at).at # "routing"
<1>1. gateClock \in 0 .. GateMaxClock /\ MaxLag \in Nat
  BY GateConstantShape DEF Gate!TypeOK
<1>2. QED
  BY <1>1, GateConstantShape DEF Gate!Reads, Gate!Requests

LEMMA GateIdleShape ==
    Gate!Idle.at = "idle"
BY DEF Gate!Idle

\* The bucket a waiting request finds is refilled to the time it read.
LEMMA GateRefillType ==
    ASSUME GateAssumptions, Gate!TypeOK, NEW h \in Handlers, Gate!Waiting(h),
           req[h].ip \in DOMAIN buckets, Gate!Refill(h)
    PROVE  /\ DOMAIN buckets' = DOMAIN buckets
           /\ buckets' \in [DOMAIN buckets' -> Gate!Buckets]
<1>1. [tokens |-> Gate!Bucket(h), last |-> req[h].now] \in Gate!Buckets
  BY GateRequestShape, GateRefilledShape DEF Gate!Bucket, Gate!Buckets
<1>2. QED
  BY <1>1 DEF Gate!Refill, Gate!TypeOK

LEMMA GatePutType ==
    ASSUME Gate!TypeOK, NEW ip \in Ips, NEW v \in Gate!Buckets, buckets' = Gate!Put(buckets, ip, v)
    PROVE  DOMAIN buckets' \subseteq Ips /\ buckets' \in [DOMAIN buckets' -> Gate!Buckets]
BY DEF Gate!Put, Gate!TypeOK

LEMMA GateLessShape ==
    ASSUME GateAssumptions, NEW t \in Int
    PROVE  Gate!Less(t) \in Nat /\ (t < FailUnit => Gate!Less(t) = 0)
           /\ (t >= FailUnit => Gate!Less(t) = t - FailUnit)
BY GateConstantShape DEF Gate!Less

LEMMA GateDrainedType ==
    ASSUME NEW sum \in [Ips -> Nat], NEW r \in Nat
    PROVE  Gate!Drained(sum, r) \in [Ips -> Nat]
BY DEF Gate!Drained

LEMMA GateAddType ==
    ASSUME GateAssumptions, NEW sum \in [Ips -> Nat], NEW ip \in Ips
    PROVE  Gate!Add(sum, ip) \in [Ips -> Nat] /\ Gate!Spend(sum, ip) \in [Ips -> Nat]
BY GateConstantShape DEF Gate!Add, Gate!Spend

\* What is kept of a failure.
LEMMA GateFailCases ==
    ASSUME GateAssumptions, Gate!TypeOK, NEW h \in Handlers, Gate!Fail(h)
    PROVE  \/ /\ \E t \in Nat :
                     buckets' = Gate!Put(buckets, req[h].ip, [tokens |-> t, last |-> req[h].now])
              /\ gateLoad' = Gate!Add(gateLoad, req[h].ip)
              /\ gatePromise' = [gatePromise EXCEPT ![req[h].ip] = Gate!None]
           \/ UNCHANGED <<buckets, gateLoad, gatePromise>>
<1>1. Gate!Waiting(h)
  BY DEF Gate!Fail, Gate!Waiting
<1>2. CASE req[h].ip \in DOMAIN buckets
  <2>1. Gate!Bucket(h) \in Int
    BY <1>1, <1>2, GateRequestShape, GateRefilledShape DEF Gate!Bucket
  <2>2. Gate!Less(Gate!Bucket(h)) \in Nat
    BY <2>1, GateLessShape
  <2>3. /\ buckets' = Gate!Put(buckets, req[h].ip, [tokens |-> Gate!Less(Gate!Bucket(h)), last |-> req[h].now])
        /\ gateLoad' = Gate!Add(gateLoad, req[h].ip)
        /\ gatePromise' = [gatePromise EXCEPT ![req[h].ip] = Gate!None]
    BY <1>2 DEF Gate!Fail
  <2>4. QED
    BY <2>2, <2>3
<1>3. CASE req[h].ip \notin DOMAIN buckets
  <2>1. Burst - FailUnit \in Nat
    BY GateConstantShape
  <2>2. QED
    BY <1>3, <2>1 DEF Gate!Fail
<1>4. QED
  BY <1>2, <1>3

LEMMA GateStateInit == ASSUME GateAssumptions, Gate!Init PROVE GateStateInv
<1>1. Gate!TypeOK
  BY GateConstantShape DEF Gate!Init, Gate!TypeOK, Gate!Idle, Gate!None
<1>2. GateLagInv
  BY DEF Gate!Init, GateLagInv, Gate!Waiting, Gate!Idle
<1>3. {h \in Handlers : req[h].at = "routing"} = {}
  BY DEF Gate!Init, Gate!Idle
<1>4. GatePlaces
  BY <1>3, FS_EmptySet DEF GatePlaces, GateRouting, Gate!Init
<1>5. QED
  BY <1>1, <1>2, <1>4 DEF GateStateInv

\* A step of a handler that neither takes nor gives back a place.
LEMMA GatePlacesStay ==
    ASSUME GateStateInv, NEW h \in Handlers, NEW r, Gate!Goes(h, r),
           req[h].at # "routing", r.at # "routing", routes' = routes
    PROVE  GatePlaces' /\ routes' \in 0 .. MaxRoutes
<1>1. GateRouting' = GateRouting
  BY GateNotRouted DEF GateStateInv
<1>2. routes = Cardinality(GateRouting)
  BY DEF GateStateInv, GatePlaces
<1>3. routes' = Cardinality(GateRouting')
  BY <1>1, <1>2
<1>4. QED
  BY <1>3 DEF GatePlaces, GateStateInv, Gate!TypeOK

LEMMA GateAuthorizeState ==
    ASSUME GateAssumptions, GateStateInv, NEW h \in Handlers, Gate!Authorize(h)
    PROVE  GateStateInv'
<1> USE DEF GateStateInv
<1>1. ASSUME NEW ip \in Ips, Gate!Arrives(h, ip) PROVE GateStateInv'
  <2>1. Gate!Reads(ip, "arrived") \in Gate!Requests
        /\ Gate!Reads(ip, "arrived").now <= gateClock
        /\ gateClock <= Gate!Reads(ip, "arrived").now + MaxLag
        /\ Gate!Reads(ip, "arrived").at # "routing"
    BY GateReadsShape
  <2>2. req' \in [Handlers -> Gate!Requests \cup {Gate!Idle}] /\ GateLagInv'
    BY <1>1, <2>1, GateGoesType DEF Gate!Arrives
  <2>3. GatePlaces'
    BY <1>1, <2>1, GatePlacesStay, GateIdleShape DEF Gate!Arrives
  <2>4. QED
    BY <1>1, <2>2, <2>3 DEF Gate!Arrives, Gate!TypeOK, Gate!guard, Gate!observed
<1>2. CASE Gate!Passes(h)
  <2> DEFINE r == [at |-> "resolving", ip |-> req[h].ip]
  <2>1. r \in Gate!Requests /\ r.at = "resolving"
    BY <1>2, GateRequestShape DEF Gate!Passes, Gate!Waiting, Gate!Requests
  <2>2. req' \in [Handlers -> Gate!Requests \cup {Gate!Idle}] /\ GateLagInv'
    BY <1>2, <2>1, GateGoesType DEF Gate!Passes
  <2>3. GatePlaces'
    BY <1>2, <2>1, GatePlacesStay DEF Gate!Passes
  <2>4. DOMAIN buckets' \subseteq Ips /\ buckets' \in [DOMAIN buckets' -> Gate!Buckets]
    BY <1>2, GateRefillType DEF Gate!Passes, Gate!Waiting, Gate!TypeOK
  <2>5. QED
    BY <1>2, <2>2, <2>3, <2>4 DEF Gate!Passes, Gate!TypeOK, Gate!observed
<1>3. CASE Gate!Blocked(h)
  <2>1. req' \in [Handlers -> Gate!Requests \cup {Gate!Idle}] /\ GateLagInv'
    BY <1>3, GateGoesType, GateIdleShape DEF Gate!Blocked, Gate!Answered
  <2>2. GatePlaces'
    BY <1>3, GatePlacesStay, GateIdleShape DEF Gate!Blocked, Gate!Answered
  <2>3. DOMAIN buckets' \subseteq Ips /\ buckets' \in [DOMAIN buckets' -> Gate!Buckets]
    BY <1>3, GateRefillType DEF Gate!Blocked, Gate!Waiting, Gate!TypeOK
  <2>4. gatePromise' \in [Ips -> Int]
    <3>1. req[h].now + RetryAfter \in Int
      BY <1>3, GateRequestShape, GateConstantShape
         DEF Gate!Blocked, Gate!Waiting
    <3>2. QED
      BY <1>3, <3>1 DEF Gate!Blocked, Gate!TypeOK
  <2>5. QED
    BY <1>3, <2>1, <2>2, <2>3, <2>4 DEF Gate!Blocked, Gate!TypeOK
<1>4. CASE Gate!Refused(h)
  <2>1. req' \in [Handlers -> Gate!Requests \cup {Gate!Idle}] /\ GateLagInv'
    BY <1>4, GateGoesType, GateIdleShape DEF Gate!Refused, Gate!Answered
  <2>2. GatePlaces'
    BY <1>4, GatePlacesStay, GateIdleShape DEF Gate!Refused, Gate!Answered
  <2>3. QED
    BY <1>4, <2>1, <2>2 DEF Gate!Refused, Gate!TypeOK, Gate!guard, Gate!observed
<1>5. CASE Gate!Invalid(h)
  <2>1. req[h].ip \in Ips
    BY <1>5, GateRequestShape DEF Gate!Invalid
  <2> DEFINE r == Gate!Reads(req[h].ip, "failing")
  <2>2. r \in Gate!Requests /\ r.now <= gateClock /\ gateClock <= r.now + MaxLag
        /\ r.at # "routing"
    BY <2>1, GateReadsShape
  <2>3. req' \in [Handlers -> Gate!Requests \cup {Gate!Idle}] /\ GateLagInv'
    BY <1>5, <2>2, GateGoesType DEF Gate!Invalid
  <2>4. GatePlaces'
    BY <1>5, <2>2, GatePlacesStay DEF Gate!Invalid
  <2>5. spent' \in [Ips -> Nat]
    BY <1>5, <2>1, GateAddType DEF Gate!Invalid, Gate!TypeOK
  <2>6. QED
    BY <1>5, <2>3, <2>4, <2>5 DEF Gate!Invalid, Gate!TypeOK, Gate!guard
<1>6. CASE Gate!Fail(h)
  <2>1. req[h].ip \in Ips /\ req[h].now \in 0 .. GateMaxClock
    BY <1>6, GateRequestShape DEF Gate!Fail, Gate!Waiting
  <2>2. req' \in [Handlers -> Gate!Requests \cup {Gate!Idle}] /\ GateLagInv'
    BY <1>6, GateGoesType, GateIdleShape DEF Gate!Fail, Gate!Answered
  <2>3. GatePlaces'
    BY <1>6, GatePlacesStay, GateIdleShape DEF Gate!Fail, Gate!Answered
  <2>4. /\ DOMAIN buckets' \subseteq Ips /\ buckets' \in [DOMAIN buckets' -> Gate!Buckets]
        /\ gateLoad' \in [Ips -> Nat] /\ gatePromise' \in [Ips -> Int]
    <3>1. CASE UNCHANGED <<buckets, gateLoad, gatePromise>>
      BY <3>1 DEF Gate!TypeOK
    <3>2. ASSUME NEW t \in Nat,
                 buckets' = Gate!Put(buckets, req[h].ip, [tokens |-> t, last |-> req[h].now]),
                 gateLoad' = Gate!Add(gateLoad, req[h].ip),
                 gatePromise' = [gatePromise EXCEPT ![req[h].ip] = Gate!None]
          PROVE  /\ DOMAIN buckets' \subseteq Ips /\ buckets' \in [DOMAIN buckets' -> Gate!Buckets]
                 /\ gateLoad' \in [Ips -> Nat] /\ gatePromise' \in [Ips -> Int]
      <4>1. [tokens |-> t, last |-> req[h].now] \in Gate!Buckets
        BY <2>1 DEF Gate!Buckets
      <4>2. gateLoad' \in [Ips -> Nat] /\ gatePromise' \in [Ips -> Int]
        BY <2>1, <3>2, GateAddType DEF Gate!TypeOK, Gate!None
      <4>3. QED
        BY <2>1, <3>2, <4>1, <4>2, GatePutType
    <3>3. QED
      BY <1>6, <3>1, <3>2, GateFailCases
  <2>5. QED
    BY <1>6, <2>2, <2>3, <2>4 DEF Gate!Fail, Gate!TypeOK
<1>7. CASE Gate!Granted(h)
  <2>1. [at |-> "granted"] \in Gate!Requests
    BY DEF Gate!Requests
  <2>2. req' \in [Handlers -> Gate!Requests \cup {Gate!Idle}] /\ GateLagInv'
    BY <1>7, <2>1, GateGoesType DEF Gate!Granted
  <2>3. GatePlaces'
    BY <1>7, GatePlacesStay DEF Gate!Granted
  <2>4. QED
    BY <1>7, <2>2, <2>3 DEF Gate!Granted, Gate!TypeOK, Gate!guard, Gate!observed
<1>8. QED
  BY <1>1, <1>2, <1>3, <1>4, <1>5, <1>6, <1>7 DEF Gate!Authorize

LEMMA GateHandleState ==
    ASSUME GateAssumptions, GateStateInv, NEW h \in Handlers, Gate!Handle(h)
    PROVE  GateStateInv'
<1> USE DEF GateStateInv
<1>1. routes = Cardinality(GateRouting)
  BY DEF GatePlaces
<1>2. CASE Gate!Serves(h)
  <2>1. req' \in [Handlers -> Gate!Requests \cup {Gate!Idle}] /\ GateLagInv'
    BY <1>2, GateGoesType, GateIdleShape DEF Gate!Serves, Gate!Answered
  <2>2. GatePlaces'
    BY <1>2, GatePlacesStay, GateIdleShape DEF Gate!Serves, Gate!Answered
  <2>3. QED
    BY <1>2, <2>1, <2>2 DEF Gate!Serves, Gate!TypeOK, Gate!guard, Gate!observed
<1>3. CASE Gate!TakesPlace(h)
  <2>1. [at |-> "routing"] \in Gate!Requests
    BY DEF Gate!Requests
  <2>2. req' \in [Handlers -> Gate!Requests \cup {Gate!Idle}] /\ GateLagInv'
    BY <1>3, <2>1, GateGoesType DEF Gate!TakesPlace
  <2>3. GateRouting' = GateRouting \cup {h} /\ h \notin GateRouting
    BY <1>3 DEF Gate!TakesPlace, Gate!Goes, GateRouting, Gate!TypeOK
  <2>4. Cardinality(GateRouting') = Cardinality(GateRouting) + 1
    BY <2>3, GateRoutingFinite, FS_AddElement
  <2>5. routes' = Cardinality(GateRouting')
    BY <1>1, <1>3, <2>4 DEF Gate!TakesPlace
  <2>6. routes' \in 0 .. MaxRoutes
    BY <1>3, GateConstantShape DEF Gate!TakesPlace, Gate!TypeOK
  <2>7. GatePlaces'
    BY <2>5 DEF GatePlaces
  <2>8. QED
    BY <1>3, <2>2, <2>6, <2>7
       DEF Gate!TakesPlace, Gate!TypeOK, Gate!guard, Gate!observed
<1>4. CASE Gate!RouteEnds(h)
  <2>1. req' \in [Handlers -> Gate!Requests \cup {Gate!Idle}] /\ GateLagInv'
    BY <1>4, GateGoesType, GateIdleShape DEF Gate!RouteEnds, Gate!Answered
  <2>2. GateRouting' = GateRouting \ {h} /\ h \in GateRouting
    BY <1>4 DEF Gate!RouteEnds, Gate!Answered, Gate!Goes, GateRouting,
           Gate!TypeOK, Gate!Idle
  <2>3. Cardinality(GateRouting') = Cardinality(GateRouting) - 1
        /\ Cardinality(GateRouting') \in Nat
    BY <2>2, GateRoutingFinite, FS_RemoveElement, FS_CardinalityType
  <2>4. routes' = Cardinality(GateRouting')
    BY <1>1, <1>4, <2>3 DEF Gate!RouteEnds
  <2>5. routes' \in 0 .. MaxRoutes
    BY <1>4, <2>3, <2>4, GateConstantShape DEF Gate!RouteEnds, Gate!TypeOK
  <2>6. GatePlaces'
    BY <2>4 DEF GatePlaces
  <2>7. QED
    BY <1>4, <2>1, <2>5, <2>6
       DEF Gate!RouteEnds, Gate!TypeOK, Gate!guard, Gate!observed
<1>5. QED
  BY <1>2, <1>3, <1>4 DEF Gate!Handle

LEMMA GateStateStep ==
    ASSUME GateAssumptions, GateStateInv, [Gate!Next]_Gate!vars
    PROVE  GateStateInv'
<1> USE DEF GateStateInv
<1>1. CASE Gate!Tick
  <2>1. gateClock' \in 0 .. GateMaxClock
    BY <1>1, GateConstantShape DEF Gate!Tick, Gate!TypeOK
  <2>2. gateLoad' \in [Ips -> Nat] /\ spent' \in [Ips -> Nat]
    <3>1. 2 * Rate * Cardinality(Handlers) \in Nat
      BY GateConstantShape, FS_CardinalityType
    <3>2. QED
      BY <1>1, <3>1, GateConstantShape, GateDrainedType, GateSets
         DEF Gate!Tick, Gate!TypeOK
  <2>3. GateLagInv'
    <3>1. ASSUME NEW h \in Handlers, Gate!Waiting(h)
          PROVE  req[h].now <= gateClock + 1 /\ gateClock + 1 <= req[h].now + MaxLag
      BY <1>1, <3>1, GateRequestShape, GateConstantShape
         DEF Gate!Tick, GateLagInv, Gate!TypeOK
    <3>2. gateClock' = gateClock + 1 /\ req' = req
      BY <1>1 DEF Gate!Tick
    <3>3. QED
      BY <3>1, <3>2 DEF GateLagInv, Gate!Waiting
  <2>4. GatePlaces'
    BY <1>1 DEF Gate!Tick, GatePlaces, GateRouting
  <2>5. QED
    BY <1>1, <2>1, <2>2, <2>3, <2>4 DEF Gate!Tick, Gate!TypeOK, Gate!guard
<1>2. CASE Gate!GcBegins
  BY <1>2 DEF Gate!GcBegins, Gate!TypeOK, GateLagInv, Gate!Waiting,
         GatePlaces, GateRouting, Gate!observed
<1>3. CASE Gate!Gc
  <2>1. Gate!Live \subseteq DOMAIN buckets
    BY DEF Gate!Live
  <2>2. DOMAIN buckets' \subseteq Ips /\ buckets' \in [DOMAIN buckets' -> Gate!Buckets]
    BY <1>3, <2>1 DEF Gate!Gc, Gate!TypeOK
  <2>3. QED
    BY <1>3, <2>2 DEF Gate!Gc, Gate!TypeOK, GateLagInv, Gate!Waiting,
           GatePlaces, GateRouting, Gate!observed
<1>4. CASE UNCHANGED Gate!vars
  BY <1>4 DEF Gate!vars, Gate!guard, Gate!observed, Gate!TypeOK, GateLagInv,
         Gate!Waiting, GatePlaces, GateRouting
<1>5. QED
  BY <1>1, <1>2, <1>3, <1>4, GateAuthorizeState, GateHandleState DEF Gate!Next

\* Every variable always has its type, for any handlers, burst and rate.
THEOREM GateTypeCorrect == ASSUME GateAssumptions PROVE Gate!Spec => []Gate!TypeOK
<1>1. Gate!Init => GateStateInv
  BY GateStateInit
<1>2. GateStateInv /\ [Gate!Next]_Gate!vars => GateStateInv'
  BY GateStateStep
<1>3. GateStateInv => Gate!TypeOK
  BY DEF GateStateInv
<1>4. QED
  BY <1>1, <1>2, <1>3, PTL DEF Gate!Spec

-----------------------------------------------------------------------------
(***************************************************************************)
(* Retry-After.  Worth is what a bucket would hold at a time if nothing    *)
(* capped it.  It is never negative now, and once a promise is made and    *)
(* its time has come, it is good for a failure at every time that a        *)
(* request may still come with: the oldest such time is MaxLag ago.        *)
(***************************************************************************)
GateWorth(bk, t) == bk.tokens + Rate * t - Rate * bk.last

GateGoodFrom(bk, p) ==
    \A t \in 0 .. GateMaxClock : t >= p /\ gateClock <= t + MaxLag => GateWorth(bk, t) >= FailUnit

GateBucketInv ==
    \A ip \in DOMAIN buckets :
        /\ buckets[ip].last <= gateClock
        /\ GateWorth(buckets[ip], gateClock) >= 0
        /\ gatePromise[ip] # Gate!None => GateGoodFrom(buckets[ip], gatePromise[ip])

GateRetryInv == GateStateInv /\ GateBucketInv

LEMMA GateWorthShape ==
    ASSUME GateAssumptions, Gate!TypeOK, NEW ip \in DOMAIN buckets, NEW t \in 0 .. GateMaxClock
    PROVE  /\ GateWorth(buckets[ip], t) \in Int /\ Rate * t \in Int
           /\ GateWorth(buckets[ip], t) = GateWorth(buckets[ip], gateClock) + Rate * t - Rate * gateClock
           /\ Rate * gateClock \in Int /\ GateWorth(buckets[ip], gateClock) \in Int
BY GateConstantShape, GateBucketShape DEF GateWorth, Gate!TypeOK

\* A bucket that is refilled to a time: capped, or worth as much as before.
LEMMA GateRefillWorth ==
    ASSUME GateAssumptions, Gate!TypeOK, NEW ip \in DOMAIN buckets, NEW now \in 0 .. GateMaxClock,
           NEW t \in 0 .. GateMaxClock, NEW bk,
           bk = [tokens |-> Gate!Refilled(buckets[ip], now), last |-> now]
    PROVE  \/ /\ Gate!Refilled(buckets[ip], now) = GateWorth(buckets[ip], now)
              /\ GateWorth(bk, t) = GateWorth(buckets[ip], t)
           \/ /\ Gate!Refilled(buckets[ip], now) = Burst
              /\ GateWorth(bk, t) = Burst + Rate * t - Rate * now
<1>1. /\ buckets[ip].tokens \in Int /\ Rate * t \in Int /\ Rate * now \in Int
      /\ Rate * buckets[ip].last \in Int /\ Burst \in Int
  BY GateConstantShape, GateBucketShape
<1>2. bk.tokens = Gate!Refilled(buckets[ip], now) /\ bk.last = now
  OBVIOUS
<1>3. CASE Gate!Refilled(buckets[ip], now) = Burst
  BY <1>1, <1>2, <1>3 DEF GateWorth
<1>4. CASE Gate!Refilled(buckets[ip], now) = buckets[ip].tokens + Rate * now - Rate * buckets[ip].last
  BY <1>1, <1>2, <1>4 DEF GateWorth
<1>5. QED
  BY <1>3, <1>4, GateRefilledShape

\* The invariant of one bucket after a refill, for a promise that stays.
LEMMA GateRefillKeeps ==
    ASSUME GateAssumptions, GateRetryInv, NEW h \in Handlers, Gate!Waiting(h),
           req[h].ip \in DOMAIN buckets, Gate!Refill(h), gateClock' = gateClock
    PROVE  LET ip == req[h].ip
           IN  /\ buckets'[ip].last <= gateClock
               /\ GateWorth(buckets'[ip], gateClock) >= 0
               /\ gatePromise[ip] # Gate!None => GateGoodFrom(buckets'[ip], gatePromise[ip])
<1> DEFINE ip == req[h].ip
           now == req[h].now
<1> USE DEF GateRetryInv, GateStateInv
<1>1. /\ now \in 0 .. GateMaxClock /\ now <= gateClock /\ gateClock \in 0 .. GateMaxClock
      /\ gateClock <= now + MaxLag
  BY GateRequestShape DEF GateLagInv, Gate!TypeOK
<1>2. buckets'[ip] = [tokens |-> Gate!Refilled(buckets[ip], now), last |-> now]
  BY DEF Gate!Refill, Gate!Bucket
<1>3. GateWorth(buckets[ip], gateClock) >= 0
      /\ (gatePromise[ip] # Gate!None => GateGoodFrom(buckets[ip], gatePromise[ip]))
  BY DEF GateBucketInv
<1>4. Rate * now <= Rate * gateClock /\ Rate * now \in Int /\ Rate * gateClock \in Int
  BY <1>1, ProductMonotone, GateConstantShape
<1>5. GateWorth(buckets'[ip], gateClock) >= 0
  <2>1. \/ GateWorth(buckets'[ip], gateClock) = GateWorth(buckets[ip], gateClock)
        \/ GateWorth(buckets'[ip], gateClock) = Burst + Rate * gateClock - Rate * now
    BY <1>1, <1>2, GateRefillWorth
  <2>2. QED
    BY <1>3, <1>4, <2>1, GateConstantShape
<1>6. ASSUME gatePromise[ip] # Gate!None, NEW t \in 0 .. GateMaxClock, t >= gatePromise[ip],
             gateClock <= t + MaxLag
      PROVE  GateWorth(buckets'[ip], t) >= FailUnit
  <2>1. \/ GateWorth(buckets'[ip], t) = GateWorth(buckets[ip], t)
        \/ GateWorth(buckets'[ip], t) = Burst + Rate * t - Rate * now
    BY <1>1, <1>2, GateRefillWorth
  <2>2. GateWorth(buckets[ip], t) >= FailUnit
    BY <1>3, <1>6 DEF GateGoodFrom
  <2>3. Rate * now <= Rate * t + Rate * MaxLag
    <3>1. t + MaxLag \in Int /\ now <= t + MaxLag
      BY <1>1, <1>6, GateConstantShape
    <3>2. Rate * now <= Rate * (t + MaxLag)
      BY <1>1, <3>1, ProductMonotone, GateConstantShape
    <3>3. Rate * (t + MaxLag) = Rate * t + Rate * MaxLag
      BY GateConstantShape
    <3>4. QED
      BY <3>2, <3>3
  <2>4. Burst - Rate * MaxLag >= FailUnit
    BY DEF GateAssumptions, Gate!TimesAssumption
  <2>5. Rate * MaxLag \in Int /\ Rate * t \in Int /\ Burst \in Int /\ FailUnit \in Int
    BY GateConstantShape
  <2>6. Burst + Rate * t - Rate * now >= FailUnit
    BY <1>4, <2>3, <2>4, <2>5
  <2>7. QED
    BY <2>1, <2>2, <2>6
<1>7. buckets'[ip].last <= gateClock
  BY <1>1, <1>2
<1>8. QED
  BY <1>5, <1>6, <1>7 DEF GateGoodFrom

\* What Blocked promises is kept by the bucket it leaves.
LEMMA GateBlockedPromises ==
    ASSUME GateAssumptions, GateRetryInv, NEW h \in Handlers, Gate!Blocked(h)
    PROVE  GateGoodFrom(buckets'[req[h].ip], req[h].now + RetryAfter)
<1> DEFINE ip == req[h].ip
           now == req[h].now
<1> USE DEF GateRetryInv, GateStateInv
<1>1. /\ now \in 0 .. GateMaxClock /\ now <= gateClock /\ gateClock \in 0 .. GateMaxClock
      /\ gateClock <= now + MaxLag /\ ip \in DOMAIN buckets
  BY GateRequestShape DEF Gate!Blocked, Gate!Waiting, GateLagInv, Gate!TypeOK
<1>2. buckets'[ip] = [tokens |-> Gate!Refilled(buckets[ip], now), last |-> now]
  BY <1>1 DEF Gate!Blocked, Gate!Refill, Gate!Bucket
<1>3. Gate!Refilled(buckets[ip], now) # Burst
  BY <1>1, GateRefilledShape, GateConstantShape DEF Gate!Blocked, Gate!Bucket
<1>4. SUFFICES ASSUME NEW t \in 0 .. GateMaxClock, t >= now + RetryAfter
               PROVE  GateWorth(buckets'[ip], t) >= FailUnit
  BY DEF GateGoodFrom
<1>5. GateWorth(buckets'[ip], t) = GateWorth(buckets[ip], gateClock) + Rate * t - Rate * gateClock
  BY <1>1, <1>2, <1>3, GateRefillWorth, GateWorthShape
<1>6. GateWorth(buckets[ip], gateClock) >= 0
  BY <1>1 DEF GateBucketInv
<1>7. Rate * (RetryAfter - MaxLag) <= Rate * t - Rate * gateClock
  <2>1. RetryAfter - MaxLag \in Int /\ t - gateClock \in Int
        /\ RetryAfter - MaxLag <= t - gateClock
    BY <1>1, <1>4, GateConstantShape
  <2>2. Rate * (RetryAfter - MaxLag) <= Rate * (t - gateClock)
    BY <2>1, ProductMonotone, GateConstantShape
  <2>3. Rate * (t - gateClock) = Rate * t - Rate * gateClock
    BY <1>1, GateConstantShape
  <2>4. QED
    BY <2>2, <2>3
<1>8. Rate * (RetryAfter - MaxLag) >= FailUnit
  BY DEF GateAssumptions, Gate!TimesAssumption
<1>9. /\ GateWorth(buckets[ip], gateClock) \in Int /\ Rate * t \in Int /\ Rate * gateClock \in Int
      /\ Rate * (RetryAfter - MaxLag) \in Int /\ FailUnit \in Int
  <2>1. gateClock \in Int /\ t \in Int
    BY <1>1, <1>4, GateConstantShape
  <2>2. Rate * t \in Int /\ Rate * gateClock \in Int
        /\ Rate * (RetryAfter - MaxLag) \in Int /\ FailUnit \in Int
    BY <2>1, GateConstantShape
  <2>3. QED
    BY <1>1, <2>2, GateWorthShape
<1>10. QED
  BY <1>5, <1>6, <1>7, <1>8, <1>9

LEMMA GateBucketInit == ASSUME GateAssumptions, Gate!Init PROVE GateRetryInv
BY GateStateInit DEF GateRetryInv, GateBucketInv, Gate!Init

LEMMA GateRefilledOthers ==
    ASSUME Gate!TypeOK, NEW h \in Handlers, Gate!Refill(h)
    PROVE  DOMAIN buckets' = DOMAIN buckets
           /\ \A ip \in DOMAIN buckets : ip # req[h].ip => buckets'[ip] = buckets[ip]
BY DEF Gate!Refill, Gate!TypeOK

LEMMA GateTickArithmetic ==
    ASSUME NEW w \in Int, NEW v \in Int, NEW r \in Nat, NEW p \in Int,
           NEW q \in Int, q = p + r, v = w + q - p, w >= 0
    PROVE  v >= 0
OBVIOUS

LEMMA GateBucketStep ==
    ASSUME GateAssumptions, GateRetryInv, [Gate!Next]_Gate!vars
    PROVE  GateBucketInv'
<1> USE DEF GateRetryInv, GateStateInv
<1>0. /\ gateClock \in 0 .. GateMaxClock
      /\ gatePromise \in [Ips -> Int]
      /\ DOMAIN buckets \subseteq Ips
  BY DEF Gate!TypeOK
<1>1. ASSUME UNCHANGED <<gateClock, buckets, gatePromise>> PROVE GateBucketInv'
  BY <1>1 DEF GateBucketInv, GateGoodFrom, GateWorth
<1>2. CASE Gate!Tick
  <2>1. gateClock' = gateClock + 1 /\ buckets' = buckets /\ gatePromise' = gatePromise
        /\ gateClock + 1 \in 0 .. GateMaxClock
    BY <1>0, <1>2, GateConstantShape DEF Gate!Tick, Gate!guard
  <2>2. ASSUME NEW ip \in DOMAIN buckets
        PROVE  buckets[ip].last <= gateClock + 1 /\ GateWorth(buckets[ip], gateClock + 1) >= 0
    <3>1. GateWorth(buckets[ip], gateClock + 1) = GateWorth(buckets[ip], gateClock) + Rate * (gateClock + 1) - Rate * gateClock
          /\ GateWorth(buckets[ip], gateClock) \in Int
      BY <2>1, GateWorthShape
    <3>2. Rate * (gateClock + 1) = Rate * gateClock + Rate
      BY <1>0, GateConstantShape
    <3>3. Rate * gateClock \in Int /\ Rate \in Nat
      BY <1>0, GateConstantShape
    <3>4. buckets[ip].last <= gateClock /\ GateWorth(buckets[ip], gateClock) >= 0 /\ buckets[ip].last \in Int
      BY GateBucketShape DEF GateBucketInv
    <3>5. buckets[ip].last <= gateClock + 1
      <4>1. gateClock \in Int /\ buckets[ip].last \in Int /\ buckets[ip].last <= gateClock
        BY <1>0, <3>4, GateConstantShape
      <4>2. QED
        BY <4>1
    <3>6. GateWorth(buckets[ip], gateClock + 1) \in Int /\ Rate * (gateClock + 1) \in Int
      BY <2>1, GateWorthShape
    <3>7. GateWorth(buckets[ip], gateClock + 1) >= 0
      BY <3>1, <3>2, <3>3, <3>4, <3>6, GateTickArithmetic
    <3>8. QED
      BY <3>5, <3>7
  <2>3. ASSUME NEW ip \in DOMAIN buckets, gatePromise[ip] # Gate!None,
               NEW t \in 0 .. GateMaxClock, t >= gatePromise[ip], gateClock + 1 <= t + MaxLag
        PROVE  GateWorth(buckets[ip], t) >= FailUnit
    <3>1. gateClock <= t + MaxLag
      BY <1>0, <2>3, GateConstantShape
    <3>2. QED
      BY <2>3, <3>1 DEF GateBucketInv, GateGoodFrom
  <2>4. QED
    BY <2>1, <2>2, <2>3 DEF GateBucketInv, GateGoodFrom, GateWorth
<1>3. ASSUME NEW h \in Handlers, Gate!Authorize(h) PROVE GateBucketInv'
  <2>1. CASE Gate!Passes(h)
    <3>1. CASE req[h].ip \notin DOMAIN buckets
      BY <1>1, <2>1, <3>1 DEF Gate!Passes, Gate!observed
    <3>2. CASE req[h].ip \in DOMAIN buckets
      <4>1. Gate!Waiting(h) /\ Gate!Refill(h) /\ gateClock' = gateClock /\ gatePromise' = gatePromise
        BY <2>1, <3>2 DEF Gate!Passes, Gate!Waiting, Gate!observed
      <4>2. /\ buckets'[req[h].ip].last <= gateClock
            /\ GateWorth(buckets'[req[h].ip], gateClock) >= 0
            /\ gatePromise[req[h].ip] # Gate!None =>
                   GateGoodFrom(buckets'[req[h].ip], gatePromise[req[h].ip])
        BY <3>2, <4>1, GateRefillKeeps
      <4>3. QED
        BY <4>1, <4>2, GateRefilledOthers
           DEF GateBucketInv, GateGoodFrom, GateWorth
    <3>3. QED
      BY <3>1, <3>2
  <2>2. CASE Gate!Blocked(h)
    <3>1. /\ Gate!Waiting(h) /\ Gate!Refill(h) /\ gateClock' = gateClock /\ req[h].ip \in DOMAIN buckets
          /\ gatePromise' = [gatePromise EXCEPT ![req[h].ip] = req[h].now + RetryAfter]
      BY <2>2 DEF Gate!Blocked, Gate!Waiting
    <3>2. buckets'[req[h].ip].last <= gateClock /\ GateWorth(buckets'[req[h].ip], gateClock) >= 0
      BY <3>1, GateRefillKeeps
    <3>3. GateGoodFrom(buckets'[req[h].ip], req[h].now + RetryAfter)
      BY <2>2, GateBlockedPromises
    <3>4. gatePromise'[req[h].ip] = req[h].now + RetryAfter
          /\ \A ip \in DOMAIN buckets : ip # req[h].ip => gatePromise'[ip] = gatePromise[ip]
      BY <1>0, <3>1
    <3>5. QED
      BY <3>1, <3>2, <3>3, <3>4, GateRefilledOthers
         DEF GateBucketInv, GateGoodFrom, GateWorth
  <2>3. CASE Gate!Fail(h)
    <3> DEFINE ip == req[h].ip
               now == req[h].now
    <3>1. gateClock' = gateClock /\ ip \in Ips /\ now \in 0 .. GateMaxClock /\ now <= gateClock
      BY <2>3, GateRequestShape DEF Gate!Fail, Gate!Waiting, GateLagInv
    <3>2. ASSUME NEW t \in Nat, buckets' = Gate!Put(buckets, ip, [tokens |-> t, last |-> now]),
                 gatePromise' = [gatePromise EXCEPT ![ip] = Gate!None]
          PROVE  GateBucketInv'
      <4>1. /\ DOMAIN buckets' = DOMAIN buckets \cup {ip}
            /\ buckets'[ip] = [tokens |-> t, last |-> now]
            /\ \A x \in DOMAIN buckets : x # ip => buckets'[x] = buckets[x]
            /\ gatePromise'[ip] = Gate!None
            /\ \A x \in DOMAIN buckets : x # ip => gatePromise'[x] = gatePromise[x]
        BY <1>0, <3>1, <3>2 DEF Gate!Put
      <4>2. GateWorth(buckets'[ip], gateClock) >= 0
        <5>1. Rate * now <= Rate * gateClock /\ Rate * now \in Int /\ Rate * gateClock \in Int
          BY <1>0, <3>1, ProductMonotone, GateConstantShape
        <5>2. GateWorth(buckets'[ip], gateClock) = t + Rate * gateClock - Rate * now
          BY <4>1 DEF GateWorth
        <5>3. QED
          BY <3>2, <5>1, <5>2
      <4>3. QED
        BY <3>1, <4>1, <4>2 DEF GateBucketInv, GateGoodFrom, GateWorth
    <3>3. QED
      BY <1>1, <2>3, <3>1, <3>2, GateFailCases
  <2>4. CASE (\E ip \in Ips : Gate!Arrives(h, ip)) \/ Gate!Refused(h) \/ Gate!Invalid(h) \/ Gate!Granted(h)
    BY <1>1, <2>4 DEF Gate!Arrives, Gate!Refused, Gate!Invalid, Gate!Granted,
           Gate!guard, Gate!observed
  <2>5. QED
    BY <1>3, <2>1, <2>2, <2>3, <2>4 DEF Gate!Authorize
<1>4. ASSUME NEW h \in Handlers, Gate!Handle(h) PROVE GateBucketInv'
  BY <1>1, <1>4 DEF Gate!Handle, Gate!Serves, Gate!TakesPlace, Gate!RouteEnds,
         Gate!guard, Gate!observed
<1>5. CASE Gate!GcBegins \/ UNCHANGED Gate!vars
  BY <1>1, <1>5 DEF Gate!GcBegins, Gate!vars, Gate!guard, Gate!observed
<1>6. CASE Gate!Gc
  <2>1. Gate!Live \subseteq DOMAIN buckets
    BY DEF Gate!Live
  <2>2. DOMAIN buckets' \subseteq DOMAIN buckets /\ (\A ip \in DOMAIN buckets' : buckets'[ip] = buckets[ip])
        /\ gateClock' = gateClock /\ gatePromise' = gatePromise
    BY <1>6, <2>1 DEF Gate!Gc, Gate!observed
  <2>3. QED
    BY <2>2 DEF GateBucketInv, GateGoodFrom, GateWorth
<1>7. QED
  BY <1>2, <1>3, <1>4, <1>5, <1>6 DEF Gate!Next

LEMMA GateBlockedRetry ==
    ASSUME GateAssumptions, GateRetryInv, NEW h \in Handlers, Gate!Blocked(h),
           gatePromise[req[h].ip] # Gate!None
    PROVE  req[h].now < gatePromise[req[h].ip]
<1> USE DEF GateRetryInv, GateStateInv
<1>1. /\ req[h].now \in 0 .. GateMaxClock /\ gateClock <= req[h].now + MaxLag
      /\ req[h].ip \in DOMAIN buckets /\ gatePromise[req[h].ip] \in Int
  BY GateRequestShape DEF Gate!Blocked, Gate!Waiting, GateLagInv, Gate!TypeOK
<1>2. ASSUME req[h].now >= gatePromise[req[h].ip] PROVE FALSE
  <2>1. GateWorth(buckets[req[h].ip], req[h].now) >= FailUnit
    BY <1>1, <1>2 DEF GateBucketInv, GateGoodFrom
  <2>2. Gate!Bucket(h) = Burst \/ Gate!Bucket(h) = GateWorth(buckets[req[h].ip], req[h].now)
    BY <1>1, GateRefilledShape DEF Gate!Bucket, GateWorth
  <2>3. Gate!Bucket(h) < FailUnit /\ Burst \in Int /\ FailUnit \in Int /\ Burst >= FailUnit
    BY GateConstantShape DEF Gate!Blocked
  <2>4. GateWorth(buckets[req[h].ip], req[h].now) \in Int
    BY <1>1, GateWorthShape
  <2>5. CASE Gate!Bucket(h) = Burst
    BY <2>3, <2>5
  <2>6. CASE Gate!Bucket(h) = GateWorth(buckets[req[h].ip], req[h].now)
    BY <2>1, <2>3, <2>4, <2>6
  <2>7. QED
    BY <2>2, <2>5, <2>6
<1>3. QED
  BY <1>1, <1>2

\* A blocked address that comes when its wait is over is not blocked, unless
\* another failure of it was counted meanwhile: for every burst, rate and lag.
THEOREM GateRetryCorrect == ASSUME GateAssumptions PROVE Gate!Spec => Gate!RetryHonoured
<1>1. Gate!Init => GateRetryInv
  BY GateBucketInit
<1>2. GateRetryInv /\ [Gate!Next]_Gate!vars => GateRetryInv'
  BY GateStateStep, GateBucketStep DEF GateRetryInv
<1>3. GateRetryInv =>
        [\A h \in Handlers : Gate!Blocked(h) /\ gatePromise[req[h].ip] # Gate!None =>
            req[h].now < gatePromise[req[h].ip]]_Gate!vars
  BY GateBlockedRetry
<1>4. QED
  BY <1>1, <1>2, <1>3, PTL DEF Gate!Spec, Gate!RetryHonoured

-----------------------------------------------------------------------------
(***************************************************************************)
(* What an address has now, capped by nothing, and what waiting for the    *)
(* mutex costs: a handler that read the clock Lag ago sees so much less.   *)
(***************************************************************************)
GateNow(ip) == GateWorth(buckets[ip], gateClock)
GateLag(h) == Rate * gateClock - Rate * req[h].now

LEMMA GateProducts ==
    ASSUME NEW r \in Nat, NEW x \in Int, NEW y \in Int
    PROVE  /\ r * x \in Int /\ r * (x + 1) = r * x + r
           /\ r * (x + y) = r * x + r * y /\ r * (x - y) = r * x - r * y
OBVIOUS

\* The clock of a handler that waits is at most MaxLag behind.
LEMMA GateLagShape ==
    ASSUME GateAssumptions, GateStateInv, NEW h \in Handlers, Gate!Waiting(h)
    PROVE  /\ GateLag(h) \in Nat /\ Rate * MaxLag \in Nat /\ GateLag(h) <= Rate * MaxLag
           /\ req[h].ip \in Ips /\ req[h].now \in 0 .. gateClock
           /\ gateClock \in 0 .. GateMaxClock /\ gateClock <= req[h].now + MaxLag
<1> DEFINE now == req[h].now
<1>1. /\ req[h].ip \in Ips /\ now \in Nat /\ now <= gateClock /\ gateClock <= now + MaxLag
      /\ gateClock \in 0 .. GateMaxClock
  BY GateRequestShape, GateConstantShape
     DEF GateStateInv, GateLagInv, Gate!TypeOK
<1>2. gateClock - now \in Nat /\ gateClock - now <= MaxLag /\ MaxLag \in Nat /\ Rate \in Nat
  BY <1>1, GateConstantShape
<1>3. GateLag(h) = Rate * (gateClock - now)
  BY <1>1, <1>2, GateProducts DEF GateLag
<1>4. Rate * 0 <= Rate * (gateClock - now) /\ Rate * (gateClock - now) <= Rate * MaxLag
  BY <1>2, ProductMonotone
<1>5. Rate * 0 = 0 /\ Rate * (gateClock - now) \in Int /\ Rate * MaxLag \in Int
  BY <1>2
<1>6. QED
  BY <1>1, <1>3, <1>4, <1>5

\* The tokens a handler finds: what is there now less its lag, or, when that
\* is more, a full bucket.
LEMMA GateFinds ==
    ASSUME GateAssumptions, GateRetryInv, NEW h \in Handlers, Gate!Waiting(h),
           req[h].ip \in DOMAIN buckets
    PROVE  /\ Gate!Bucket(h) \in Int /\ Gate!Bucket(h) <= Burst
           /\ GateNow(req[h].ip) \in Nat
           /\ \/ Gate!Bucket(h) = GateNow(req[h].ip) - GateLag(h)
              \/ /\ Gate!Bucket(h) = Burst
                 /\ GateNow(req[h].ip) - GateLag(h) >= Burst
<1> USE DEF GateRetryInv, GateStateInv
<1> DEFINE ip == req[h].ip
           now == req[h].now
           raw == buckets[ip].tokens + Rate * now - Rate * buckets[ip].last
<1>1. /\ ip \in DOMAIN buckets /\ now \in 0 .. GateMaxClock /\ gateClock \in 0 .. GateMaxClock
  BY GateRequestShape DEF Gate!TypeOK
<1>2. /\ buckets[ip].tokens \in Int /\ Rate * now \in Int /\ Rate * buckets[ip].last \in Int
      /\ Rate * gateClock \in Int /\ Burst \in Int
      /\ (now - buckets[ip].last) * Rate = Rate * now - Rate * buckets[ip].last
  <2>1. now \in Int /\ gateClock \in Int /\ buckets[ip].last \in Int
        /\ buckets[ip].tokens \in Int /\ Rate \in Nat /\ Burst \in Int
    BY <1>1, GateBucketShape, GateConstantShape
  <2>2. QED
    BY <2>1
<1>3. raw = GateNow(ip) - GateLag(h) /\ GateNow(ip) \in Int
  BY <1>2 DEF GateNow, GateWorth, GateLag
<1>4. Gate!Bucket(h) = IF raw > Burst THEN Burst ELSE raw
  BY <1>2 DEF Gate!Bucket, Gate!Refilled
<1>5. GateNow(ip) >= 0
  BY <1>1 DEF GateBucketInv, GateNow
<1>6. QED
  BY <1>2, <1>3, <1>4, <1>5

\* What a handler leaves of the bucket, it has now and its lag besides.
LEMMA GateLeaves ==
    ASSUME NEW h, NEW t \in Int, gateClock' = gateClock,
           Rate * gateClock \in Int, Rate * req[h].now \in Int,
           buckets'[req[h].ip] = [tokens |-> t, last |-> req[h].now]
    PROVE  GateWorth(buckets'[req[h].ip], gateClock) = t + GateLag(h)
BY DEF GateWorth, GateLag

-----------------------------------------------------------------------------
(***************************************************************************)
(* Wrong keys.  The load of an address is bounded by what its bucket has   *)
(* now, w, and by how many of its handlers, a, have passed the guard:      *)
(*   - as long as a failure can be paid, load and bucket together hold a   *)
(*     full bucket and what a lag refills, whoever has passed;             *)
(*   - when not, every handler that has passed may fail once more, so with *)
(*     each of them the bound is a failure lower;                          *)
(*   - until a failure can be paid again, the load drains for all handlers *)
(*     twice what comes back, which is enough for the failures they had.   *)
(***************************************************************************)
GateMany == Cardinality(Handlers)
GateFull == Burst + Rate * MaxLag

GateAdmitted(ip) ==
    {h \in Handlers : req[h].at \in {"resolving", "failing"} /\ req[h].ip = ip}

GateBound(l, w, a) ==
    /\ w >= FailUnit => l <= GateFull - w
    /\ w < FailUnit => /\ l <= GateFull - FailUnit + (GateMany - a) * FailUnit
                       /\ l <= GateFull - FailUnit + 2 * (GateMany * (FailUnit - w))

GateLoadOf(ip) ==
    \/ gateLoad[ip] = 0
    \/ /\ ip \in DOMAIN buckets
       /\ GateBound(gateLoad[ip], GateNow(ip), Cardinality(GateAdmitted(ip)))

GateLoadInv == \A ip \in Ips : GateLoadOf(ip)

LEMMA GateBoundShape ==
    ASSUME GateAssumptions
    PROVE  /\ GateMany \in Nat /\ GateMany >= 1 /\ GateFull \in Nat /\ FailUnit \in Nat
           /\ FailUnit >= 1 /\ Rate * MaxLag \in Nat /\ GateFull = Burst + Rate * MaxLag
           /\ 2 * (Rate * MaxLag) <= FailUnit /\ Burst \in Nat /\ Burst >= FailUnit
           /\ Rate \in Nat
<1>1. GateMany \in Nat /\ GateMany # 0
  <2>1. IsFiniteSet(Handlers) /\ Handlers # {}
    BY GateConstantShape DEF GateAssumptions, Gate!HandlersAssumption
  <2>2. QED
    BY <2>1, FS_CardinalityType, FS_EmptySet DEF GateMany
<1>2. Rate * MaxLag \in Nat /\ 2 * Rate * MaxLag = 2 * (Rate * MaxLag)
  BY GateConstantShape
<1>3. 2 * Rate * MaxLag <= FailUnit /\ FailUnit # 0
  BY DEF GateAssumptions, Gate!TimesAssumption, Gate!GuardAssumption
<1>4. QED
  BY <1>1, <1>2, <1>3, GateConstantShape DEF GateFull

LEMMA GateTimes ==
    ASSUME NEW n \in Nat, n >= 1, NEW x \in Nat
    PROVE  n * x \in Nat /\ n * x >= x
<1>1. PICK m \in Nat : n = m + 1
  <2>1. n - 1 \in Nat /\ n = (n - 1) + 1
    OBVIOUS
  <2>2. QED
    BY <2>1
<1>2. n * x = m * x + x /\ m * x \in Nat
  BY <1>1
<1>3. QED
  BY <1>2

\* The failures left to the handlers that have not passed.
LEMMA GateOthers ==
    ASSUME GateAssumptions, NEW a \in Nat, a <= GateMany
    PROVE  /\ (GateMany - a) * FailUnit \in Nat
           /\ (GateMany - a) * FailUnit <= GateMany * FailUnit
           /\ a >= 1 => (GateMany - (a - 1)) * FailUnit = (GateMany - a) * FailUnit + FailUnit
<1>1. PICK d \in Nat : GateMany - a = d
  BY GateBoundShape
<1>2. d * FailUnit \in Nat /\ a * FailUnit \in Nat /\ GateMany * FailUnit = d * FailUnit + a * FailUnit
  <2>1. GateMany = d + a
    BY <1>1, GateBoundShape
  <2>2. QED
    BY <2>1, GateBoundShape
<1>3. (d + 1) * FailUnit = d * FailUnit + FailUnit
  BY GateBoundShape
<1>4. a >= 1 => GateMany - (a - 1) = d + 1
  BY <1>1, GateBoundShape
<1>5. QED
  BY <1>1, <1>2, <1>3, <1>4, GateBoundShape

LEMMA GateBoundFewer ==
    ASSUME GateAssumptions, NEW l \in Nat, NEW w \in Nat, NEW a \in Nat, a >= 1, a <= GateMany,
           GateBound(l, w, a)
    PROVE  GateBound(l, w, a - 1)
<1>1. (GateMany - a) * FailUnit \in Nat
      /\ (GateMany - (a - 1)) * FailUnit = (GateMany - a) * FailUnit + FailUnit
  BY GateOthers
<1>2. QED
  BY <1>1, GateBoundShape DEF GateBound

\* Whoever passes does so while a failure can be paid.
LEMMA GateBoundPass ==
    ASSUME GateAssumptions, NEW l \in Nat, NEW w \in Nat, NEW v \in Nat, NEW a, NEW c,
           GateBound(l, w, a), v <= w, v >= FailUnit
    PROVE  GateBound(l, v, c)
BY GateBoundShape DEF GateBound

LEMMA GateBoundTick ==
    ASSUME GateAssumptions, NEW l \in Nat, NEW w \in Nat, NEW a \in Nat, a <= GateMany,
           GateBound(l, w, a), NEW m \in Nat, m <= l - 2 * (GateMany * Rate)
    PROVE  GateBound(m, w + Rate, a)
<1> USE GateBoundShape
<1>1. GateMany * Rate \in Nat /\ GateMany * Rate >= Rate
  BY GateTimes
<1>2. CASE w >= FailUnit
  BY <1>1, <1>2 DEF GateBound
<1>3. CASE w < FailUnit
  <2>1. GateMany * (FailUnit - (w + Rate)) = GateMany * (FailUnit - w) - GateMany * Rate
        /\ GateMany * (FailUnit - w) \in Int
    <3>1. FailUnit - w \in Int /\ FailUnit - (w + Rate) = (FailUnit - w) - Rate
      OBVIOUS
    <3>2. QED
      BY <3>1, GateProducts
  <2>2. CASE w + Rate < FailUnit
    BY <1>1, <1>3, <2>1, <2>2, GateOthers DEF GateBound
  <2>3. CASE w + Rate >= FailUnit
    <3>1. GateMany * (w + Rate - FailUnit) >= w + Rate - FailUnit
          /\ GateMany * (w + Rate - FailUnit) = GateMany * Rate - GateMany * (FailUnit - w)
      <4>1. w + Rate - FailUnit \in Nat /\ FailUnit - w \in Int
            /\ w + Rate - FailUnit = Rate - (FailUnit - w)
        BY <2>3
      <4>2. QED
        BY <4>1, GateTimes, GateProducts
    <3>2. m <= GateFull - FailUnit + 2 * (GateMany * (FailUnit - w)) - 2 * (GateMany * Rate)
      BY <1>1, <1>3, <2>1 DEF GateBound
    <3>3. m <= GateFull - (w + Rate)
      BY <1>1, <2>1, <2>3, <3>1, <3>2
    <3>4. QED
      BY <2>3, <3>3 DEF GateBound
  <2>4. QED
    BY <2>2, <2>3
<1>4. QED
  BY <1>2, <1>3

\* After a failure that was paid.
LEMMA GateBoundPaid ==
    ASSUME GateAssumptions, NEW m \in Nat, NEW v \in Nat, NEW c \in Nat, c + 1 <= GateMany,
           m <= GateFull - v
    PROVE  GateBound(m, v, c)
<1> USE GateBoundShape
<1>1. ASSUME v < FailUnit
      PROVE  /\ m <= GateFull - FailUnit + (GateMany - c) * FailUnit
             /\ m <= GateFull - FailUnit + 2 * (GateMany * (FailUnit - v))
  <2>1. (GateMany - c) * FailUnit \in Nat /\ (GateMany - c) * FailUnit >= FailUnit
    <3>1. GateMany - c \in Nat /\ GateMany - c >= 1
      OBVIOUS
    <3>2. QED
      BY <3>1, GateTimes
  <2>2. GateMany * (FailUnit - v) \in Nat /\ GateMany * (FailUnit - v) >= FailUnit - v
    BY <1>1, GateTimes
  <2>3. QED
    BY <1>1, <2>1, <2>2
<1>2. QED
  BY <1>1 DEF GateBound

\* After a failure that found no token, the lag of the handler is left.
LEMMA GateBoundFree ==
    ASSUME GateAssumptions, NEW m \in Nat, NEW v \in Nat, NEW c \in Nat, c + 1 <= GateMany,
           v <= Rate * MaxLag, m <= GateFull - FailUnit + (GateMany - c) * FailUnit
    PROVE  GateBound(m, v, c)
<1> USE GateBoundShape
<1>1. v < FailUnit
  OBVIOUS
<1>2. 2 * (GateMany * (FailUnit - v)) >= GateMany * FailUnit /\ GateMany * (FailUnit - v) \in Int
  <2>1. FailUnit - v \in Int /\ FailUnit <= 2 * (FailUnit - v)
    OBVIOUS
  <2>2. GateMany * FailUnit <= GateMany * (2 * (FailUnit - v))
    BY <2>1, ProductMonotone
  <2>3. GateMany * (2 * (FailUnit - v)) = 2 * (GateMany * (FailUnit - v))
    BY <2>1
  <2>4. QED
    BY <2>1, <2>2, <2>3
<1>3. (GateMany - c) * FailUnit <= GateMany * FailUnit /\ (GateMany - c) * FailUnit \in Nat
      /\ GateMany * FailUnit \in Nat
  BY GateOthers, GateTimes
<1>4. QED
  BY <1>1, <1>2, <1>3 DEF GateBound

\* Who has passed, after a request of h went on as r.
LEMMA GateAdmittedGoes ==
    ASSUME Gate!TypeOK, NEW h \in Handlers, NEW r, Gate!Goes(h, r), NEW ip
    PROVE  GateAdmitted(ip)' =
               IF r.at \in {"resolving", "failing"} /\ r.ip = ip
               THEN GateAdmitted(ip) \cup {h} ELSE GateAdmitted(ip) \ {h}
<1>1. \A x \in Handlers : req'[x] = IF x = h THEN r ELSE req[x]
  BY DEF Gate!Goes, Gate!TypeOK
<1>2. QED
  BY <1>1 DEF GateAdmitted

LEMMA GateAdmittedCount ==
    ASSUME GateAssumptions, NEW ip
    PROVE  /\ Cardinality(GateAdmitted(ip)) \in Nat
           /\ Cardinality(GateAdmitted(ip)) <= GateMany
           /\ \A h \in GateAdmitted(ip) :
                  /\ Cardinality(GateAdmitted(ip)) >= 1
                  /\ Cardinality(GateAdmitted(ip) \ {h}) = Cardinality(GateAdmitted(ip)) - 1
<1>1. GateAdmitted(ip) \subseteq Handlers /\ IsFiniteSet(Handlers)
  BY GateConstantShape DEF GateAdmitted
<1>2. IsFiniteSet(GateAdmitted(ip)) /\ Cardinality(GateAdmitted(ip)) <= GateMany
  BY <1>1, FS_Subset DEF GateMany
<1>3. Cardinality(GateAdmitted(ip)) \in Nat
  BY <1>2, FS_CardinalityType
<1>4. ASSUME NEW h \in GateAdmitted(ip)
      PROVE  /\ Cardinality(GateAdmitted(ip)) >= 1
             /\ Cardinality(GateAdmitted(ip) \ {h}) = Cardinality(GateAdmitted(ip)) - 1
  <2>1. Cardinality(GateAdmitted(ip) \ {h}) = Cardinality(GateAdmitted(ip)) - 1
    BY <1>2, FS_RemoveElement
  <2>2. Cardinality(GateAdmitted(ip)) # 0
    BY <1>2, FS_EmptySet
  <2>3. QED
    BY <1>3, <2>1, <2>2
<1>5. QED
  BY <1>2, <1>3, <1>4

\* Buckets hold no less than a lag refills, and gc has read a time that has been.
GateGuardInv ==
    /\ GateRetryInv
    /\ gateSweep # Gate!None => gateSweep <= gateClock
    /\ \A ip \in DOMAIN buckets : buckets[ip].tokens + Rate * MaxLag >= 0

\* An address whose bucket and whose handlers stay, or of which one leaves.
LEMMA GateLoadStays ==
    ASSUME GateAssumptions, GateRetryInv, NEW ip \in Ips, GateLoadOf(ip),
           gateClock' = gateClock, gateLoad'[ip] = gateLoad[ip],
           ip \in DOMAIN buckets => ip \in DOMAIN buckets' /\ buckets'[ip] = buckets[ip],
           \/ GateAdmitted(ip)' = GateAdmitted(ip)
           \/ \E h : GateAdmitted(ip)' = GateAdmitted(ip) \ {h}
    PROVE  GateLoadOf(ip)'
<1> DEFINE a == Cardinality(GateAdmitted(ip))
           w == GateNow(ip)
           l == gateLoad[ip]
<1>1. CASE l = 0
  BY <1>1 DEF GateLoadOf
<1>2. CASE l # 0
  <2>1. ip \in DOMAIN buckets /\ GateBound(l, w, a)
    BY <1>2 DEF GateLoadOf
  <2>2. w \in Nat /\ l \in Nat
    BY <2>1, GateWorthShape, GateConstantShape
       DEF GateNow, GateRetryInv, GateStateInv, GateBucketInv, Gate!TypeOK
  <2>3. ip \in DOMAIN buckets' /\ GateNow(ip)' = w
    BY <2>1 DEF GateNow, GateWorth
  <2>4. GateBound(l, w, Cardinality(GateAdmitted(ip)'))
    <3>1. CASE GateAdmitted(ip)' = GateAdmitted(ip)
      BY <2>1, <3>1
    <3>2. ASSUME NEW h, GateAdmitted(ip)' = GateAdmitted(ip) \ {h}, h \in GateAdmitted(ip)
          PROVE  GateBound(l, w, Cardinality(GateAdmitted(ip)'))
      <4>1. a \in Nat /\ a >= 1 /\ a <= GateMany /\ Cardinality(GateAdmitted(ip)') = a - 1
        BY <3>2, GateAdmittedCount
      <4>2. QED
        BY <2>1, <2>2, <4>1, GateBoundFewer
    <3>3. ASSUME NEW h, GateAdmitted(ip)' = GateAdmitted(ip) \ {h}, h \notin GateAdmitted(ip)
          PROVE  GateAdmitted(ip)' = GateAdmitted(ip)
      BY <3>3
    <3>4. QED
      BY <3>1, <3>2, <3>3
  <2>5. QED
    BY <2>3, <2>4 DEF GateLoadOf, GateBound
<1>3. QED
  BY <1>1, <1>2

\* What the bucket of a failure becomes.
LEMMA GateFailLeaves ==
    ASSUME GateAssumptions, GateGuardInv, NEW h \in Handlers, Gate!Fail(h)
    PROVE  \/ UNCHANGED <<buckets, gateLoad>>
           \/ /\ req[h].ip \in DOMAIN buckets'
              /\ \A x \in DOMAIN buckets :
                     x # req[h].ip => x \in DOMAIN buckets' /\ buckets'[x] = buckets[x]
              /\ DOMAIN buckets' = DOMAIN buckets \cup {req[h].ip}
              /\ gateLoad' = Gate!Add(gateLoad, req[h].ip)
              /\ \E t \in Nat :
                     /\ buckets'[req[h].ip] = [tokens |-> t, last |-> req[h].now]
                     /\ GateWorth(buckets'[req[h].ip], gateClock) = t + GateLag(h)
                     /\ IF req[h].ip \in DOMAIN buckets THEN t = Gate!Less(Gate!Bucket(h))
                                                        ELSE t = Burst - FailUnit
<1> USE DEF GateGuardInv, GateRetryInv, GateStateInv
<1> DEFINE ip == req[h].ip
           now == req[h].now
           Left(t) == /\ buckets' = Gate!Put(buckets, ip, [tokens |-> t, last |-> now])
                      /\ gateLoad' = Gate!Add(gateLoad, ip)
<1>1. Gate!Waiting(h) /\ gateClock' = gateClock
  BY DEF Gate!Fail, Gate!Waiting
<1>2. Rate * gateClock \in Int /\ Rate * now \in Int
  BY <1>1, GateLagShape, GateConstantShape
<1>3. \/ ip \in DOMAIN buckets /\ Left(Gate!Less(Gate!Bucket(h)))
      \/ ip \notin DOMAIN buckets /\ Left(Burst - FailUnit)
      \/ UNCHANGED <<buckets, gateLoad>>
  BY DEF Gate!Fail
<1>4. /\ ip \in DOMAIN buckets => Gate!Less(Gate!Bucket(h)) \in Nat
      /\ Burst - FailUnit \in Nat
  BY <1>1, GateFinds, GateLessShape, GateConstantShape
<1>5. ASSUME NEW t \in Nat, Left(t)
      PROVE  /\ DOMAIN buckets' = DOMAIN buckets \cup {ip}
             /\ \A x \in DOMAIN buckets :
                    x # ip => x \in DOMAIN buckets' /\ buckets'[x] = buckets[x]
             /\ buckets'[ip] = [tokens |-> t, last |-> now]
             /\ GateWorth(buckets'[ip], gateClock) = t + GateLag(h)
  <2>1. /\ DOMAIN buckets' = DOMAIN buckets \cup {ip}
        /\ \A x \in DOMAIN buckets : x # ip => buckets'[x] = buckets[x]
        /\ buckets'[ip] = [tokens |-> t, last |-> now]
    BY <1>5 DEF Gate!Put
  <2>2. QED
    BY <1>1, <1>2, <2>1, GateLeaves
<1>6. CASE ip \in DOMAIN buckets /\ Left(Gate!Less(Gate!Bucket(h)))
  BY <1>4, <1>5, <1>6
<1>7. CASE ip \notin DOMAIN buckets /\ Left(Burst - FailUnit)
  BY <1>4, <1>5, <1>7
<1>8. QED
  BY <1>3, <1>6, <1>7

\* A failure: paid, free, or the first of an address that had no bucket.
LEMMA GateFailLoad ==
    ASSUME GateAssumptions, GateGuardInv, NEW h \in Handlers, Gate!Fail(h), GateLoadInv,
           NEW ip, ip = req[h].ip
    PROVE  GateLoadInv'
<1> USE DEF GateGuardInv, GateRetryInv, GateStateInv
<1> DEFINE a == Cardinality(GateAdmitted(ip))
           l == gateLoad[ip]
<1>1. /\ Gate!Waiting(h) /\ gateClock' = gateClock /\ Gate!Goes(h, Gate!Idle)
      /\ ip \in Ips /\ h \in GateAdmitted(ip)
  BY GateRequestShape DEF Gate!Fail, Gate!Waiting, Gate!Answered, GateAdmitted
<1>2. \A x : GateAdmitted(x)' = GateAdmitted(x) \ {h}
  BY <1>1, GateAdmittedGoes, GateIdleShape
<1>3. ASSUME NEW x \in Ips, gateLoad'[x] = gateLoad[x],
             x \in DOMAIN buckets => x \in DOMAIN buckets' /\ buckets'[x] = buckets[x]
      PROVE  GateLoadOf(x)'
  BY <1>1, <1>2, <1>3, GateLoadStays DEF GateLoadInv
<1>4. CASE UNCHANGED <<buckets, gateLoad>>
  BY <1>3, <1>4 DEF GateLoadInv
<1>5. CASE ~UNCHANGED <<buckets, gateLoad>>
  <2>1. PICK t \in Nat :
            /\ GateWorth(buckets'[ip], gateClock) = t + GateLag(h)
            /\ IF ip \in DOMAIN buckets THEN t = Gate!Less(Gate!Bucket(h))
                                        ELSE t = Burst - FailUnit
    BY <1>5, GateFailLeaves
  <2>2. /\ ip \in DOMAIN buckets' /\ gateLoad' = Gate!Add(gateLoad, ip)
        /\ \A x \in DOMAIN buckets : x # ip => x \in DOMAIN buckets' /\ buckets'[x] = buckets[x]
    BY <1>5, GateFailLeaves
  <2>3. /\ gateLoad'[ip] = l + FailUnit /\ l \in Nat
        /\ \A x \in Ips : x # ip => gateLoad'[x] = gateLoad[x]
    BY <1>1, <2>2 DEF Gate!Add, Gate!TypeOK
  <2>4. /\ a \in Nat /\ a >= 1 /\ a <= GateMany /\ Cardinality(GateAdmitted(ip)') = a - 1
    BY <1>1, <1>2, GateAdmittedCount
  <2>5. /\ GateLag(h) \in Nat /\ GateLag(h) <= Rate * MaxLag
    BY <1>1, GateLagShape
  <2> DEFINE v == t + GateLag(h)
             w == GateNow(ip)
  <2>6. GateBound(l + FailUnit, v, a - 1)
    <3> USE GateBoundShape
    <3>1. (GateMany - a) * FailUnit \in Nat
          /\ (GateMany - (a - 1)) * FailUnit = (GateMany - a) * FailUnit + FailUnit
      BY <2>4, GateOthers
    <3>2. v \in Nat /\ a - 1 \in Nat /\ (a - 1) + 1 <= GateMany
      BY <2>4, <2>5
    <3>3. l + FailUnit <= GateFull - v => GateBound(l + FailUnit, v, a - 1)
      BY <2>3, <3>2, GateBoundPaid
    <3>4. CASE ip \notin DOMAIN buckets
      <4>1. l = 0 /\ t = Burst - FailUnit
        BY <1>1, <2>1, <3>4 DEF GateLoadInv, GateLoadOf
      <4>2. QED
        BY <2>5, <3>3, <4>1
    <3>5. CASE ip \in DOMAIN buckets /\ Gate!Bucket(h) >= FailUnit
      <4>1. /\ Gate!Bucket(h) \in Int /\ Gate!Bucket(h) <= Burst /\ w \in Nat
            /\ Gate!Bucket(h) + GateLag(h) <= w
        BY <1>1, <2>5, <3>5, GateFinds
      <4>2. t = Gate!Bucket(h) - FailUnit
        BY <2>1, <3>5, <4>1, GateLessShape
      <4>3. CASE l = 0
        BY <2>5, <3>3, <4>1, <4>2, <4>3
      <4>4. CASE l # 0
        <5>1. GateBound(l, w, a)
          BY <1>1, <4>4 DEF GateLoadInv, GateLoadOf
        <5>2. l <= GateFull - w
          BY <2>5, <3>5, <4>1, <5>1 DEF GateBound
        <5>3. QED
          BY <2>3, <2>5, <3>3, <4>1, <4>2, <5>2
      <4>5. QED
        BY <4>3, <4>4
    <3>6. CASE ip \in DOMAIN buckets /\ Gate!Bucket(h) < FailUnit
      <4>1. Gate!Bucket(h) \in Int /\ w \in Nat
        BY <1>1, <3>6, GateFinds
      <4>2. t = 0
        BY <2>1, <3>6, <4>1, GateLessShape
      <4>3. l + FailUnit <= GateFull - FailUnit + (GateMany - (a - 1)) * FailUnit
        <5>1. CASE l = 0
          BY <3>1, <5>1
        <5>2. CASE l # 0
          <6>1. GateBound(l, w, a)
            BY <1>1, <5>2 DEF GateLoadInv, GateLoadOf
          <6>2. QED
            BY <2>3, <3>1, <4>1, <6>1 DEF GateBound
        <5>3. QED
          BY <5>1, <5>2
      <4>4. v <= Rate * MaxLag /\ l + FailUnit \in Nat
        BY <2>3, <2>5, <4>2
      <4> HIDE DEF v, a, l
      <4>5. QED
        BY <3>2, <4>3, <4>4, GateBoundFree
    <3>7. QED
      BY <3>4, <3>5, <3>6, <1>1, GateFinds
  <2>7. GateLoadOf(ip)'
    <3>1. GateNow(ip)' = v
      BY <1>1, <2>1 DEF GateNow, GateWorth
    <3>2. GateBound(gateLoad'[ip], v, Cardinality(GateAdmitted(ip)'))
      BY <2>3, <2>4, <2>6
    <3>3. QED
      BY <2>2, <3>1, <3>2 DEF GateLoadOf, GateBound
  <2>8. ASSUME NEW x \in Ips, x # ip PROVE GateLoadOf(x)'
    BY <1>3, <2>2, <2>3, <2>8
  <2>9. QED
    BY <2>7, <2>8 DEF GateLoadInv
<1>6. QED
  BY <1>4, <1>5

\* Looking at the bucket of an address refills it: no more than was there.
LEMMA GateRefillLoad ==
    ASSUME GateAssumptions, GateGuardInv, NEW h \in Handlers, Gate!Waiting(h),
           NEW ip, ip = req[h].ip,
           ip \in DOMAIN buckets, Gate!Refill(h), gateClock' = gateClock
    PROVE  /\ GateNow(ip)' \in Nat /\ GateNow(ip)' <= GateNow(ip)
           /\ GateNow(ip)' = Gate!Bucket(h) + GateLag(h)
           /\ GateNow(ip) \in Nat
<1> USE DEF GateGuardInv, GateRetryInv, GateStateInv
<1>1. /\ Gate!Bucket(h) \in Int /\ GateNow(ip) \in Nat /\ GateLag(h) \in Nat
      /\ Gate!Bucket(h) + GateLag(h) <= GateNow(ip)
  BY GateFinds, GateLagShape
<1>2. buckets'[ip] = [tokens |-> Gate!Bucket(h), last |-> req[h].now]
  BY DEF Gate!Refill, Gate!TypeOK
<1>3. Rate * gateClock \in Int /\ Rate * req[h].now \in Int
  BY GateLagShape, GateConstantShape
<1>4. GateWorth(buckets'[ip], gateClock) = Gate!Bucket(h) + GateLag(h)
  BY <1>1, <1>2, <1>3, GateLeaves
<1>5. GateWorth(buckets'[ip], gateClock) >= 0
  BY GateRefillKeeps
<1>6. GateNow(ip)' = GateWorth(buckets'[ip], gateClock)
  BY DEF GateNow, GateWorth
<1>7. QED
  BY <1>1, <1>4, <1>5, <1>6

LEMMA GatePassesLoad ==
    ASSUME GateAssumptions, GateGuardInv, GateLoadInv, NEW h \in Handlers, Gate!Waiting(h),
           NEW r, Gate!Goes(h, r), gateClock' = gateClock, gateLoad' = gateLoad,
           req[h].at = "arrived",
           \/ req[h].ip \notin DOMAIN buckets /\ buckets' = buckets
           \/ /\ req[h].ip \in DOMAIN buckets /\ Gate!Refill(h)
              /\ Gate!Bucket(h) >= FailUnit \/ r = Gate!Idle,
           r = Gate!Idle \/ r = [at |-> "resolving", ip |-> req[h].ip],
           NEW ip, ip = req[h].ip
    PROVE  GateLoadInv'
<1> USE DEF GateGuardInv, GateRetryInv, GateStateInv
<1>1. ASSUME NEW x \in Ips, x # ip PROVE GateLoadOf(x)'
  <2>1. GateAdmitted(x)' = GateAdmitted(x) \ {h}
    BY <1>1, GateAdmittedGoes, GateIdleShape
  <2>2. x \in DOMAIN buckets => x \in DOMAIN buckets' /\ buckets'[x] = buckets[x]
    BY <1>1, GateRefilledOthers
  <2>3. QED
    BY <2>1, <2>2, GateLoadStays DEF GateLoadInv
<1>2. GateLoadOf(ip)'
  <2>1. CASE gateLoad[ip] = 0
    BY <2>1 DEF GateLoadOf
  <2>2. CASE gateLoad[ip] # 0
    <3> DEFINE l == gateLoad[ip]
               w == GateNow(ip)
               v == GateNow(ip)'
               a == Cardinality(GateAdmitted(ip))
    <3>1. /\ ip \in DOMAIN buckets /\ GateBound(l, w, a) /\ l \in Nat
      BY <2>2, GateRequestShape DEF GateLoadInv, GateLoadOf, Gate!TypeOK
    <3>2. v \in Nat /\ v <= w /\ v = Gate!Bucket(h) + GateLag(h) /\ w \in Nat
      BY <3>1, GateRefillLoad
    <3>3. GateLag(h) \in Nat /\ Gate!Bucket(h) \in Int
      BY <3>1, GateLagShape, GateFinds
    <3>4. GateBound(l, v, Cardinality(GateAdmitted(ip)'))
      <4>1. CASE v >= FailUnit
        BY <3>1, <3>2, <4>1, GateBoundPass
      <4>2. CASE v < FailUnit
        <5>1. r = Gate!Idle /\ v = w
          BY <3>1, <3>2, <3>3, <4>2, GateBoundShape, GateFinds
        <5>2. GateAdmitted(ip)' = GateAdmitted(ip) \ {h} /\ h \notin GateAdmitted(ip)
          BY <5>1, GateAdmittedGoes, GateIdleShape DEF GateAdmitted
        <5>3. GateAdmitted(ip)' = GateAdmitted(ip)
          BY <5>2
        <5>4. QED
          BY <3>1, <5>1, <5>3
      <4>3. QED
        BY <3>2, <4>1, <4>2, GateBoundShape
    <3>5. ip \in DOMAIN buckets'
      BY <3>1, GateRefilledOthers
    <3>6. QED
      BY <3>4, <3>5 DEF GateLoadOf, GateBound
  <2>3. QED
    BY <2>1, <2>2
<1>3. QED
  BY <1>1, <1>2 DEF GateLoadInv

LEMMA GateTickLoad ==
    ASSUME GateAssumptions, GateGuardInv, GateLoadInv, Gate!Tick
    PROVE  GateLoadInv'
<1> USE DEF GateGuardInv, GateRetryInv, GateStateInv
<1>1. /\ gateClock' = gateClock + 1 /\ buckets' = buckets /\ req' = req
      /\ gateClock \in Int /\ gateClock + 1 \in Int
      /\ gateLoad' = Gate!Drained(gateLoad, 2 * Rate * GateMany)
  BY GateConstantShape, GateSets
     DEF Gate!Tick, Gate!TypeOK, Gate!guard, GateMany
<1>2. 2 * Rate * GateMany = 2 * (GateMany * Rate) /\ 2 * (GateMany * Rate) \in Nat
  BY GateBoundShape
<1>3. ASSUME NEW ip \in Ips PROVE GateLoadOf(ip)'
  <2> DEFINE l == gateLoad[ip]
             m == gateLoad'[ip]
             w == GateNow(ip)
             a == Cardinality(GateAdmitted(ip))
  <2>1. /\ l \in Nat /\ m \in Nat
        /\ m = 0 \/ (l # 0 /\ m = l - 2 * (GateMany * Rate))
    <3> DEFINE d == 2 * (GateMany * Rate)
    <3>1. gateLoad' = Gate!Drained(gateLoad, d) /\ d \in Nat
      BY <1>1, <1>2
    <3>2. gateLoad \in [Ips -> Nat]
      BY DEF Gate!TypeOK
    <3> HIDE DEF d
    <3>3. m = IF l > d THEN l - d ELSE 0
      BY <3>1, <3>2 DEF Gate!Drained
    <3>4. l \in Nat /\ m \in Nat /\ (m = 0 \/ (l # 0 /\ m = l - d))
      BY <3>1, <3>2, <3>3
    <3>5. QED
      BY <3>4 DEF d
  <2>2. CASE m = 0
    BY <2>2 DEF GateLoadOf
  <2>3. CASE m # 0
    <3>1. ip \in DOMAIN buckets /\ GateBound(l, w, a)
      BY <2>1, <2>3 DEF GateLoadInv, GateLoadOf
    <3>2. GateNow(ip)' = w + Rate /\ w \in Nat
      <4>1. w \in Int /\ w >= 0
        BY <3>1, GateWorthShape, GateConstantShape
           DEF GateNow, GateBucketInv, Gate!TypeOK
      <4>2. /\ Rate * (gateClock + 1) = Rate * gateClock + Rate
            /\ Rate * gateClock \in Int /\ Rate * buckets[ip].last \in Int
            /\ buckets[ip].tokens \in Int /\ Rate \in Int
        <5>1. buckets[ip].last \in Int /\ buckets[ip].tokens \in Int /\ Rate \in Nat
          BY <3>1, GateBucketShape, GateConstantShape
        <5>2. QED
          BY <1>1, <5>1, GateProducts
      <4>3. QED
        BY <1>1, <4>1, <4>2 DEF GateNow, GateWorth
    <3>3. GateAdmitted(ip)' = GateAdmitted(ip)
      BY <1>1 DEF GateAdmitted
    <3>4. a \in Nat /\ a <= GateMany
      BY GateAdmittedCount
    <3>5. GateBound(m, w + Rate, a)
      <4>1. m <= l - 2 * (GateMany * Rate) /\ m \in Nat /\ l \in Nat
        BY <1>2, <2>1, <2>3
      <4> HIDE DEF m, l, w, a
      <4>2. QED
        BY <3>1, <3>2, <3>4, <4>1, GateBoundTick
    <3>6. QED
      BY <1>1, <3>1, <3>2, <3>3, <3>5 DEF GateLoadOf, GateBound
  <2>4. QED
    BY <2>2, <2>3
<1>4. QED
  BY <1>3 DEF GateLoadInv

\* A bucket that is forgotten has refilled for so long that no load is left.
LEMMA GateGcLoad ==
    ASSUME GateAssumptions, GateGuardInv, GateLoadInv, Gate!Gc
    PROVE  GateLoadInv'
<1> USE DEF GateGuardInv, GateRetryInv, GateStateInv
<1>1. /\ gateClock' = gateClock /\ gateLoad' = gateLoad /\ req' = req
      /\ DOMAIN buckets' = Gate!Live /\ \A x \in Gate!Live : buckets'[x] = buckets[x]
      /\ gateSweep \in 0 .. GateMaxClock /\ gateSweep <= gateClock
      /\ gateClock \in 0 .. GateMaxClock
  BY DEF Gate!Gc, Gate!TypeOK, Gate!observed
<1>2. ASSUME NEW ip \in Ips PROVE GateLoadOf(ip)'
  <2>1. GateAdmitted(ip)' = GateAdmitted(ip)
    BY <1>1 DEF GateAdmitted
  <2>2. CASE ip \in DOMAIN buckets => ip \in Gate!Live
    BY <1>1, <2>1, <2>2, GateLoadStays DEF GateLoadInv
  <2>3. CASE ip \in DOMAIN buckets /\ ip \notin Gate!Live
    <3> DEFINE l == gateLoad[ip]
               last == buckets[ip].last
    <3>1. last \in Nat /\ gateClock \in Nat /\ gateClock >= last + GuardTTL + 1
          /\ buckets[ip].tokens \in Int
      <4>1. last < gateSweep - GuardTTL /\ last \in 0 .. GateMaxClock /\ buckets[ip].tokens \in Int
        <5>1. last \in 0 .. GateMaxClock /\ buckets[ip].tokens \in Int
          BY <2>3, GateBucketShape
        <5>2. ~(last >= gateSweep - GuardTTL)
          BY <2>3 DEF Gate!Live
        <5>3. QED
          BY <1>1, <5>1, <5>2, GateConstantShape
      <4>2. QED
        BY <1>1, <4>1, GateConstantShape
    <3>2. Rate * gateClock >= Rate * last + Rate * (GuardTTL + 1)
          /\ Rate * gateClock \in Int /\ Rate * last \in Int /\ Rate * (GuardTTL + 1) \in Int
      <4>1. last + (GuardTTL + 1) <= gateClock /\ last + (GuardTTL + 1) \in Int
            /\ GuardTTL + 1 \in Int
        BY <3>1, GateConstantShape
      <4>2. Rate * (last + (GuardTTL + 1)) <= Rate * gateClock
        BY <3>1, <4>1, ProductMonotone, GateConstantShape
      <4>3. QED
        BY <3>1, <4>1, <4>2, GateProducts, GateConstantShape
    <3>3. Rate * (GuardTTL + 1) = Rate * (GuardTTL - 2 * MaxLag) + 2 * (Rate * MaxLag) + Rate
          /\ Rate * (GuardTTL - 2 * MaxLag) \in Int
      BY GateConstantShape
    <3>4. Rate * (GuardTTL - 2 * MaxLag) >= Burst /\ Rate >= 1
      BY GateConstantShape
         DEF GateAssumptions, Gate!TimesAssumption, Gate!GuardAssumption
    <3>5. GateNow(ip) > GateFull /\ GateNow(ip) \in Int
      <4>1. buckets[ip].tokens + Rate * MaxLag >= 0 /\ Rate * MaxLag \in Nat
        BY <2>3, GateBoundShape
      <4>2. QED
        BY <3>1, <3>2, <3>3, <3>4, <4>1, GateBoundShape DEF GateNow, GateWorth
    <3>6. l = 0
      BY <1>2, <2>3, <3>5, GateBoundShape
         DEF GateLoadInv, GateLoadOf, GateBound, Gate!TypeOK
    <3>7. QED
      BY <1>1, <3>6 DEF GateLoadOf
  <2>4. QED
    BY <2>2, <2>3
<1>3. QED
  BY <1>2 DEF GateLoadInv

\* A request that neither looks at the bucket nor fails.
LEMMA GateOtherLoad ==
    ASSUME GateAssumptions, GateGuardInv, GateLoadInv, NEW h \in Handlers, NEW r,
           Gate!Goes(h, r), UNCHANGED <<gateClock, buckets, gateLoad>>,
           r.at \in {"resolving", "failing"} =>
               req[h].at \in {"resolving", "failing"} /\ r.ip = req[h].ip
    PROVE  GateLoadInv'
<1>1. ASSUME NEW ip \in Ips
      PROVE  \/ GateAdmitted(ip)' = GateAdmitted(ip)
             \/ GateAdmitted(ip)' = GateAdmitted(ip) \ {h}
  <2>1. CASE r.at \in {"resolving", "failing"} /\ r.ip = ip
    <3>1. h \in GateAdmitted(ip)
      BY <2>1 DEF GateAdmitted
    <3>2. QED
      BY <2>1, <3>1, GateAdmittedGoes
         DEF GateGuardInv, GateRetryInv, GateStateInv
  <2>2. CASE ~(r.at \in {"resolving", "failing"} /\ r.ip = ip)
    BY <2>2, GateAdmittedGoes DEF GateGuardInv, GateRetryInv, GateStateInv
  <2>3. QED
    BY <2>1, <2>2
<1>2. QED
  BY <1>1, GateLoadStays DEF GateLoadInv, GateGuardInv

LEMMA GateGuardStep ==
    ASSUME GateAssumptions, GateGuardInv, [Gate!Next]_Gate!vars
    PROVE  GateGuardInv'
<1> USE DEF GateGuardInv
<1>1. GateRetryInv'
  BY GateStateStep, GateBucketStep DEF GateRetryInv
<1>2. gateClock \in 0 .. GateMaxClock /\ gateSweep \in {Gate!None} \cup 0 .. GateMaxClock
  BY DEF GateRetryInv, GateStateInv, Gate!TypeOK
<1> DEFINE Swept == gateSweep # Gate!None => gateSweep <= gateClock
           Filled == \A ip \in DOMAIN buckets : buckets[ip].tokens + Rate * MaxLag >= 0
<1>3. ASSUME gateClock' >= gateClock, gateClock' \in Int, UNCHANGED <<buckets, gateSweep>>
      PROVE  Swept' /\ Filled'
  BY <1>2, <1>3, GateConstantShape
<1>4. ASSUME NEW h \in Handlers, Gate!Authorize(h) \/ Gate!Handle(h) PROVE Swept' /\ Filled'
  <2>1. Swept'
    BY <1>2, <1>4 DEF Gate!Authorize, Gate!Handle, Gate!Arrives, Gate!Passes,
           Gate!Blocked,
          Gate!Refused, Gate!Invalid, Gate!Fail, Gate!Granted, Gate!Serves, Gate!TakesPlace,
          Gate!RouteEnds, Gate!guard
  <2>2. ASSUME UNCHANGED buckets PROVE Filled'
    BY <2>2
  <2>3. ASSUME Gate!Waiting(h), req[h].ip \in DOMAIN buckets, Gate!Refill(h) PROVE Filled'
    <3>1. Gate!Bucket(h) \in Int /\ Gate!Bucket(h) >= 0 - GateLag(h)
      BY <2>3, GateFinds, GateLagShape, GateConstantShape DEF GateRetryInv
    <3>2. Gate!Bucket(h) + Rate * MaxLag >= 0
      BY <2>3, <3>1, GateLagShape DEF GateRetryInv
    <3>3. /\ DOMAIN buckets' = DOMAIN buckets
          /\ \A ip \in DOMAIN buckets :
                 buckets'[ip] = IF ip = req[h].ip
                                THEN [tokens |-> Gate!Bucket(h), last |-> req[h].now]
                                ELSE buckets[ip]
      BY <2>3 DEF Gate!Refill, GateRetryInv, GateStateInv, Gate!TypeOK
    <3>4. QED
      BY <3>2, <3>3
  <2>4. ASSUME Gate!Fail(h) PROVE Filled'
    <3>1. CASE UNCHANGED buckets
      BY <3>1
    <3>2. CASE ~UNCHANGED buckets
      <4>1. PICK t \in Nat : buckets'[req[h].ip] = [tokens |-> t, last |-> req[h].now]
        BY <2>4, <3>2, GateFailLeaves
      <4>2. /\ DOMAIN buckets' = DOMAIN buckets \cup {req[h].ip}
            /\ \A x \in DOMAIN buckets : x # req[h].ip => buckets'[x] = buckets[x]
        BY <2>4, <3>2, GateFailLeaves
      <4>3. QED
        BY <4>1, <4>2, GateBoundShape
    <3>3. QED
      BY <3>1, <3>2
  <2>5. ASSUME Gate!Passes(h) \/ Gate!Blocked(h) PROVE Filled'
    BY <2>2, <2>3, <2>5 DEF Gate!Passes, Gate!Blocked, Gate!Waiting
  <2>6. QED
    BY <1>4, <2>1, <2>2, <2>4, <2>5
       DEF Gate!Authorize, Gate!Handle, Gate!Arrives, Gate!Refused, Gate!Invalid,
           Gate!Granted, Gate!Serves, Gate!TakesPlace, Gate!RouteEnds, Gate!guard
<1>5. ASSUME Gate!Tick PROVE Swept' /\ Filled'
  BY <1>2, <1>3, <1>5, GateConstantShape DEF Gate!Tick, Gate!guard
<1>6. ASSUME Gate!GcBegins PROVE Swept' /\ Filled'
  BY <1>2, <1>6 DEF Gate!GcBegins
<1>7. ASSUME Gate!Gc PROVE Swept' /\ Filled'
  BY <1>7 DEF Gate!Gc, Gate!Live
<1>8. ASSUME UNCHANGED Gate!vars PROVE Swept' /\ Filled'
  BY <1>2, <1>3, <1>8, GateConstantShape DEF Gate!vars, Gate!guard
<1>9. QED
  BY <1>1, <1>4, <1>5, <1>6, <1>7, <1>8 DEF Gate!Next

LEMMA GateLoadStep ==
    ASSUME GateAssumptions, GateGuardInv, GateLoadInv, [Gate!Next]_Gate!vars
    PROVE  GateLoadInv'
<1> USE GateIdleShape
<1>1. ASSUME NEW h \in Handlers, Gate!Authorize(h) PROVE GateLoadInv'
  <2>1. CASE Gate!Passes(h) \/ Gate!Blocked(h)
    <3>1. CASE Gate!Passes(h)
      BY <3>1, GatePassesLoad DEF Gate!Passes, Gate!Waiting, Gate!observed
    <3>2. CASE Gate!Blocked(h)
      BY <3>2, GatePassesLoad DEF Gate!Blocked, Gate!Waiting, Gate!Answered
    <3>3. QED
      BY <2>1, <3>1, <3>2
  <2>2. CASE Gate!Fail(h)
    BY <2>2, GateFailLoad
  <2>3. CASE \E ip \in Ips : Gate!Arrives(h, ip)
    BY <2>3, GateOtherLoad
       DEF Gate!Arrives, Gate!Reads, Gate!guard, Gate!observed
  <2>4. CASE Gate!Refused(h) \/ Gate!Granted(h)
    BY <2>4, GateOtherLoad
       DEF Gate!Refused, Gate!Granted, Gate!Answered, Gate!guard, Gate!observed
  <2>5. CASE Gate!Invalid(h)
    BY <2>5, GateOtherLoad DEF Gate!Invalid, Gate!Reads, Gate!guard
  <2>6. QED
    BY <1>1, <2>1, <2>2, <2>3, <2>4, <2>5 DEF Gate!Authorize
<1>2. ASSUME NEW h \in Handlers, Gate!Handle(h) PROVE GateLoadInv'
  BY <1>2, GateOtherLoad
     DEF Gate!Handle, Gate!Serves, Gate!TakesPlace, Gate!RouteEnds, Gate!Answered, Gate!guard,
         Gate!observed
<1>3. CASE Gate!GcBegins \/ UNCHANGED Gate!vars
  <2>1. UNCHANGED <<gateClock, buckets, gateLoad, req>>
    BY <1>3 DEF Gate!GcBegins, Gate!vars, Gate!guard, Gate!observed
  <2>2. \A ip : GateAdmitted(ip)' = GateAdmitted(ip)
    BY <2>1 DEF GateAdmitted
  <2>3. QED
    BY <2>1, <2>2, GateLoadStays DEF GateLoadInv, GateGuardInv
<1>4. QED
  BY <1>1, <1>2, <1>3, GateTickLoad, GateGcLoad DEF Gate!Next

LEMMA GateLoadInit ==
    ASSUME GateAssumptions, Gate!Init
    PROVE  GateGuardInv /\ GateLoadInv
<1>1. GateRetryInv
  BY GateBucketInit
<1>2. GateLoadInv
  BY DEF Gate!Init, GateLoadInv, GateLoadOf
<1>3. QED
  BY <1>1, <1>2 DEF Gate!Init, GateGuardInv

\* The wrong keys of an address over every interval, for any handlers, burst,
\* rate and lag.
THEOREM GateFailuresCorrect ==
    ASSUME GateAssumptions PROVE Gate!Spec => []Gate!FailuresBounded
<1>1. Gate!Init => GateGuardInv /\ GateLoadInv
  BY GateLoadInit
<1>2. GateGuardInv /\ GateLoadInv /\ [Gate!Next]_Gate!vars => GateGuardInv' /\ GateLoadInv'
  BY GateGuardStep, GateLoadStep
<1>3. GateGuardInv /\ GateLoadInv => Gate!FailuresBounded
  <2> SUFFICES ASSUME GateGuardInv, GateLoadInv, NEW ip \in Ips
               PROVE  gateLoad[ip] <= Burst + (GateMany - 1) * FailUnit + Rate * MaxLag
    BY GateSets DEF Gate!FailuresBounded, GateMany
  <2> DEFINE l == gateLoad[ip]
             a == Cardinality(GateAdmitted(ip))
  <2>1. (GateMany - 1) * FailUnit = GateMany * FailUnit - FailUnit
        /\ (GateMany - 1) * FailUnit \in Nat
    BY GateBoundShape
  <2>2. (GateMany - a) * FailUnit <= GateMany * FailUnit /\ (GateMany - a) * FailUnit \in Nat
    BY GateAdmittedCount, GateOthers
  <2>3. CASE l = 0
    BY <2>1, <2>3, GateBoundShape
  <2>4. CASE l # 0
    <3>1. /\ GateBound(l, GateNow(ip), a) /\ GateNow(ip) \in Int /\ l \in Nat
      BY <2>4, GateWorthShape, GateConstantShape
         DEF GateLoadInv, GateLoadOf, GateNow, GateGuardInv, GateRetryInv, GateStateInv, Gate!TypeOK
    <3>2. QED
      BY <2>1, <2>2, <3>1, GateBoundShape DEF GateBound
  <2>5. QED
    BY <2>3, <2>4
<1>4. QED
  BY <1>1, <1>2, <1>3, PTL DEF Gate!Spec

-----------------------------------------------------------------------------
(***************************************************************************)
(* Who is blocked has earned it.  The wrong keys an address has spent are  *)
(* known before its failures are counted, so a failure under way is spent  *)
(* already: GatePending.  Either nothing spent was cut off at Burst, and   *)
(* what is spent and what the bucket has now make a full bucket together   *)
(* (GateSpentPaid), or it was cut off at a time t, and the failures under  *)
(* way since then are all that has come in addition (GateSpentFull); those *)
(* of before t will be over when a lag has passed.                         *)
(***************************************************************************)
GateFailing(ip, t) ==
    {h \in Handlers : req[h].at = "failing" /\ req[h].ip = ip /\ req[h].now >= t}
GatePending(ip, t) == FailUnit * Cardinality(GateFailing(ip, t))

GateSpentFull(ip) ==
    \E t \in 0 .. gateClock :
        /\ gateClock <= t + MaxLag
        /\ spent[ip] >= Burst - (Rate * gateClock - Rate * t) + GatePending(ip, t + 1)

GateSpentPaid(ip) ==
    /\ \A t \in 0 .. gateClock :
           spent[ip] >= GatePending(ip, t) - (Rate * gateClock - Rate * t)
    /\ ip \in DOMAIN buckets =>
           GateNow(ip) + spent[ip] >= Burst - Rate * MaxLag + GatePending(ip, 0)

GateSpentOf(ip) == GateSpentFull(ip) \/ GateSpentPaid(ip)
GateSpentInv == \A ip \in Ips : GateSpentOf(ip)

\* Sets of handlers, and what failures of theirs cost.
LEMMA GateCost ==
    ASSUME GateAssumptions, NEW T \in SUBSET Handlers, NEW S \in SUBSET T
    PROVE  /\ FailUnit * Cardinality(S) \in Nat /\ FailUnit * Cardinality(T) \in Nat
           /\ FailUnit * Cardinality(S) <= FailUnit * Cardinality(T)
           /\ S = {} => FailUnit * Cardinality(S) = 0
           /\ \A h : /\ h \in S => FailUnit * Cardinality(S \ {h})
                                       = FailUnit * Cardinality(S) - FailUnit
                     /\ FailUnit * Cardinality(S \cup {h}) \in Nat
                     /\ FailUnit * Cardinality(S \cup {h})
                            <= FailUnit * Cardinality(S) + FailUnit
<1>1. IsFiniteSet(T) /\ IsFiniteSet(S) /\ Cardinality(S) <= Cardinality(T)
  BY GateConstantShape, FS_Subset
<1>2. Cardinality(S) \in Nat /\ Cardinality(T) \in Nat
  BY <1>1, FS_CardinalityType
<1>3. FailUnit * Cardinality(S) <= FailUnit * Cardinality(T)
  BY <1>1, <1>2, ProductMonotone, GateConstantShape
<1>4. FailUnit * Cardinality(S) \in Nat /\ FailUnit * Cardinality(T) \in Nat
  BY <1>2, GateConstantShape
<1>5. S = {} => FailUnit * Cardinality(S) = 0
  BY FS_EmptySet, GateConstantShape
<1>6. ASSUME NEW h, h \in S
      PROVE  FailUnit * Cardinality(S \ {h}) = FailUnit * Cardinality(S) - FailUnit
  <2>1. Cardinality(S \ {h}) = Cardinality(S) - 1
    BY <1>1, <1>6, FS_RemoveElement
  <2>2. FailUnit * (Cardinality(S) - 1) = FailUnit * Cardinality(S) - FailUnit
    BY <1>2, GateConstantShape
  <2>3. QED
    BY <2>1, <2>2
<1>7. ASSUME NEW h
      PROVE  /\ FailUnit * Cardinality(S \cup {h}) \in Nat
             /\ FailUnit * Cardinality(S \cup {h}) <= FailUnit * Cardinality(S) + FailUnit
  <2>1. Cardinality(S \cup {h}) = IF h \in S THEN Cardinality(S) ELSE Cardinality(S) + 1
    BY <1>1, FS_AddElement
  <2>2. FailUnit * (Cardinality(S) + 1) = FailUnit * Cardinality(S) + FailUnit
        /\ FailUnit \in Nat
    BY <1>2, GateConstantShape
  <2>3. QED
    BY <1>4, <2>1, <2>2
<1>8. QED
  BY <1>3, <1>4, <1>5, <1>6, <1>7

LEMMA GatePendingShape ==
    ASSUME GateAssumptions, NEW ip, NEW t
    PROVE  /\ GatePending(ip, t) \in Nat /\ GatePending(ip, t)' \in Nat
           /\ GateFailing(ip, t)' \subseteq GateFailing(ip, t)
                  => GatePending(ip, t)' <= GatePending(ip, t)
<1>1. GateFailing(ip, t) \in SUBSET Handlers /\ GateFailing(ip, t)' \in SUBSET Handlers
  BY DEF GateFailing
<1>2. QED
  BY <1>1, GateCost DEF GatePending

\* Without a cut, no failure under way is older than a lag.
LEMMA GatePaidOld ==
    ASSUME GateAssumptions, GateStateInv, NEW ip \in Ips, GateSpentPaid(ip)
    PROVE  spent[ip] >= GatePending(ip, 0) - Rate * MaxLag
<1> DEFINE t == IF gateClock >= MaxLag THEN gateClock - MaxLag ELSE 0
<1>1. gateClock \in Nat /\ MaxLag \in Nat /\ spent[ip] \in Nat /\ Rate \in Nat
  BY GateConstantShape DEF GateStateInv, Gate!TypeOK
<1>2. t \in 0 .. gateClock /\ gateClock - t <= MaxLag /\ gateClock - t \in Nat
  BY <1>1
<1>3. GateFailing(ip, 0) = GateFailing(ip, t)
  <2>1. ASSUME NEW h \in Handlers, req[h].at = "failing"
        PROVE  req[h].now >= 0 /\ req[h].now >= t
    <3>1. Gate!Waiting(h)
      BY <2>1 DEF Gate!Waiting
    <3>2. req[h].now \in 0 .. gateClock /\ gateClock <= req[h].now + MaxLag
      BY <3>1, GateLagShape
    <3>3. QED
      BY <1>1, <3>2
  <2>2. QED
    BY <2>1 DEF GateFailing
<1>4. Rate * gateClock - Rate * t <= Rate * MaxLag /\ Rate * gateClock - Rate * t \in Int
      /\ Rate * MaxLag \in Int
  <2>1. Rate * (gateClock - t) <= Rate * MaxLag
    BY <1>1, <1>2, ProductMonotone
  <2>2. Rate * (gateClock - t) = Rate * gateClock - Rate * t /\ t \in Int
    BY <1>1, <1>2, GateProducts
  <2>3. Rate * gateClock \in Int /\ Rate * t \in Int /\ Rate * MaxLag \in Int
    BY <1>1, <2>2
  <2>4. QED
    BY <2>1, <2>2, <2>3
<1>5. spent[ip] >= GatePending(ip, t) - (Rate * gateClock - Rate * t)
  BY <1>2 DEF GateSpentPaid
<1>6. GatePending(ip, 0) = GatePending(ip, t) /\ GatePending(ip, t) \in Nat
  BY <1>3, GatePendingShape DEF GatePending
<1>7. QED
  BY <1>1, <1>4, <1>5, <1>6

\* An address that spends nothing now: no failure begins, and its bucket still
\* makes up for what is spent.
LEMMA GateSpentKeeps ==
    ASSUME GateAssumptions, GateStateInv, NEW ip \in Ips, GateSpentOf(ip),
           gateClock' = gateClock, spent'[ip] = spent[ip],
           \A t : GateFailing(ip, t)' \subseteq GateFailing(ip, t),
           GateSpentPaid(ip) /\ ip \in DOMAIN buckets' =>
               GateNow(ip)' + spent[ip] >= Burst - Rate * MaxLag + GatePending(ip, 0)'
    PROVE  GateSpentOf(ip)'
<1>1. /\ spent[ip] \in Nat /\ gateClock \in Nat
      /\ \A t \in 0 .. gateClock : Rate * gateClock - Rate * t \in Int
  BY GateConstantShape, GateProducts DEF GateStateInv, Gate!TypeOK
<1>2. \A t : GatePending(ip, t) \in Nat /\ GatePending(ip, t)' \in Nat
             /\ GatePending(ip, t)' <= GatePending(ip, t)
  BY GatePendingShape
<1>3. CASE GateSpentFull(ip)
  BY <1>1, <1>2, <1>3, GateConstantShape DEF GateSpentFull, GateSpentOf
<1>4. CASE GateSpentPaid(ip)
  <2>1. ASSUME NEW t \in 0 .. gateClock
        PROVE  spent'[ip] >= GatePending(ip, t)' - (Rate * gateClock - Rate * t)
    <3>1. spent[ip] >= GatePending(ip, t) - (Rate * gateClock - Rate * t)
      BY <1>4 DEF GateSpentPaid
    <3>2. QED
      BY <1>1, <1>2, <3>1
  <2>2. GateSpentPaid(ip)'
    BY <1>4, <2>1 DEF GateSpentPaid
  <2>3. QED
    BY <2>2 DEF GateSpentOf
<1>5. QED
  BY <1>3, <1>4 DEF GateSpentOf

\* Which failures are under way, after a request of h went on as r.
LEMMA GateFailingGoes ==
    ASSUME Gate!TypeOK, NEW h \in Handlers, NEW r, Gate!Goes(h, r), NEW ip, NEW t
    PROVE  GateFailing(ip, t)' =
               IF r.at = "failing" /\ r.ip = ip /\ r.now >= t
               THEN GateFailing(ip, t) \cup {h} ELSE GateFailing(ip, t) \ {h}
<1>1. \A x \in Handlers : req'[x] = IF x = h THEN r ELSE req[x]
  BY DEF Gate!Goes, Gate!TypeOK
<1>2. QED
  BY <1>1 DEF GateFailing

\* A step of a request that does not begin to fail, and the bucket it leaves.
LEMMA GateOtherSpent ==
    ASSUME GateAssumptions, GateStateInv, GateSpentInv,
           NEW h \in Handlers, NEW r, Gate!Goes(h, r), r.at # "failing",
           gateClock' = gateClock, spent' = spent, NEW ip \in Ips,
           \A x \in Ips : x # ip /\ x \in DOMAIN buckets' =>
               x \in DOMAIN buckets /\ buckets'[x] = buckets[x],
           GateSpentPaid(ip) /\ ip \in DOMAIN buckets' =>
               GateNow(ip)' + spent[ip] >= Burst - Rate * MaxLag + GatePending(ip, 0)'
    PROVE  GateSpentInv'
<1>1. \A x, t : GateFailing(x, t)' \subseteq GateFailing(x, t)
  BY GateFailingGoes DEF GateStateInv
<1>2. ASSUME NEW x \in Ips, x # ip, GateSpentPaid(x), x \in DOMAIN buckets'
      PROVE  GateNow(x)' + spent[x] >= Burst - Rate * MaxLag + GatePending(x, 0)'
  <2>1. x \in DOMAIN buckets /\ GateNow(x)' = GateNow(x)
    BY <1>2 DEF GateNow, GateWorth
  <2>2. GateNow(x) + spent[x] >= Burst - Rate * MaxLag + GatePending(x, 0)
    BY <1>2, <2>1 DEF GateSpentPaid
  <2>3. GatePending(x, 0) \in Nat /\ GatePending(x, 0)' \in Nat
        /\ GatePending(x, 0)' <= GatePending(x, 0)
    BY <1>1, GatePendingShape
  <2>4. GateNow(x) \in Int /\ spent[x] \in Nat /\ Rate * MaxLag \in Nat /\ Burst \in Nat
    BY <2>1, GateWorthShape, GateBoundShape, GateConstantShape
       DEF GateNow, GateStateInv, Gate!TypeOK
  <2>5. QED
    BY <2>1, <2>2, <2>3, <2>4
<1>3. ASSUME NEW x \in Ips PROVE GateSpentOf(x)'
  <2>1. GateSpentOf(x) /\ spent'[x] = spent[x]
    BY DEF GateSpentInv
  <2>2. CASE x = ip
    BY <1>1, <2>1, <2>2, GateSpentKeeps
  <2>3. CASE x # ip
    BY <1>1, <1>2, <2>1, <2>3, GateSpentKeeps
  <2>4. QED
    BY <2>2, <2>3
<1>4. QED
  BY <1>3 DEF GateSpentInv

\* Looking at a bucket, which is refilled thereby.
LEMMA GateLookSpent ==
    ASSUME GateAssumptions, GateGuardInv, GateSpentInv, NEW h \in Handlers, Gate!Waiting(h),
           NEW r, Gate!Goes(h, r), r.at # "failing", gateClock' = gateClock, spent' = spent,
           \/ req[h].ip \notin DOMAIN buckets /\ buckets' = buckets
           \/ req[h].ip \in DOMAIN buckets /\ Gate!Refill(h),
           NEW ip, ip = req[h].ip
    PROVE  GateSpentInv'
<1> USE DEF GateGuardInv, GateRetryInv, GateStateInv
<1>1. ip \in Ips
  BY GateRequestShape
<1>2. DOMAIN buckets' = DOMAIN buckets
      /\ \A x \in DOMAIN buckets : x # ip => buckets'[x] = buckets[x]
  BY GateRefilledOthers
<1>3. ASSUME GateSpentPaid(ip), ip \in DOMAIN buckets'
      PROVE  GateNow(ip)' + spent[ip] >= Burst - Rate * MaxLag + GatePending(ip, 0)'
  <2>1. ip \in DOMAIN buckets /\ Gate!Refill(h)
    BY <1>2, <1>3
  <2>2. GateNow(ip)' = Gate!Bucket(h) + GateLag(h) /\ GateNow(ip) \in Nat
    BY <2>1, GateRefillLoad
  <2>3. /\ Gate!Bucket(h) \in Int /\ GateLag(h) \in Nat
        /\ Gate!Bucket(h) = GateNow(ip) - GateLag(h) \/ Gate!Bucket(h) = Burst
    BY <2>1, GateFinds, GateLagShape
  <2>4. GateFailing(ip, 0)' \subseteq GateFailing(ip, 0)
    BY GateFailingGoes
  <2>5. GatePending(ip, 0) \in Nat /\ GatePending(ip, 0)' \in Nat
        /\ GatePending(ip, 0)' <= GatePending(ip, 0)
    BY <2>4, GatePendingShape
  <2>6. spent[ip] >= GatePending(ip, 0) - Rate * MaxLag
    BY <1>1, <1>3, GatePaidOld
  <2>7. GateNow(ip) + spent[ip] >= Burst - Rate * MaxLag + GatePending(ip, 0)
    BY <1>3, <2>1 DEF GateSpentPaid
  <2>8. spent[ip] \in Nat /\ Rate * MaxLag \in Nat /\ Burst \in Nat
    BY <1>1, GateBoundShape DEF Gate!TypeOK
  <2>9. QED
    BY <2>2, <2>3, <2>5, <2>6, <2>7, <2>8
<1>4. \A x \in Ips : x # ip /\ x \in DOMAIN buckets' =>
          x \in DOMAIN buckets /\ buckets'[x] = buckets[x]
  BY <1>2
<1>5. QED
  BY <1>1, <1>3, <1>4, GateOtherSpent

\* A failure that is counted: what it takes from the bucket was pending.
LEMMA GateFailSpent ==
    ASSUME GateAssumptions, GateGuardInv, GateSpentInv, NEW h \in Handlers, Gate!Fail(h),
           NEW ip, ip = req[h].ip
    PROVE  GateSpentInv'
<1> USE DEF GateGuardInv, GateRetryInv, GateStateInv
<1>1. /\ Gate!Waiting(h) /\ gateClock' = gateClock /\ Gate!Goes(h, Gate!Idle)
      /\ spent' = spent /\ ip \in Ips /\ req[h].at = "failing"
  BY GateRequestShape DEF Gate!Fail, Gate!Waiting, Gate!Answered
<1>2. GatePending(ip, 0)' = GatePending(ip, 0) - FailUnit
      /\ GatePending(ip, 0) \in Nat /\ FailUnit \in Nat
  <2>1. GateFailing(ip, 0)' = GateFailing(ip, 0) \ {h}
    BY <1>1, GateFailingGoes, GateIdleShape
  <2>2. req[h].now >= 0
    BY <1>1, GateLagShape
  <2>3. h \in GateFailing(ip, 0) /\ GateFailing(ip, 0) \in SUBSET Handlers
    BY <1>1, <2>2 DEF GateFailing
  <2>4. QED
    BY <2>1, <2>3, GateCost, GateConstantShape DEF GatePending
<1>3. /\ spent[ip] \in Nat /\ Rate * MaxLag \in Nat /\ Burst \in Nat /\ Burst >= FailUnit
      /\ GateLag(h) \in Nat
  BY <1>1, GateBoundShape, GateLagShape DEF Gate!TypeOK
<1>4. CASE UNCHANGED <<buckets, gateLoad>>
  <2>1. ASSUME GateSpentPaid(ip), ip \in DOMAIN buckets'
        PROVE  GateNow(ip)' + spent[ip] >= Burst - Rate * MaxLag + GatePending(ip, 0)'
    <3>1. GateNow(ip)' = GateNow(ip) /\ ip \in DOMAIN buckets
      BY <1>1, <1>4, <2>1 DEF GateNow, GateWorth
    <3>2. GateNow(ip) + spent[ip] >= Burst - Rate * MaxLag + GatePending(ip, 0)
      BY <2>1, <3>1 DEF GateSpentPaid
    <3>3. GateNow(ip) \in Nat
      BY <1>1, <3>1, GateFinds
    <3>4. QED
      BY <1>2, <1>3, <3>1, <3>2, <3>3
  <2>2. QED
    BY <1>1, <1>4, <2>1, GateOtherSpent, GateIdleShape
<1>5. CASE ~UNCHANGED <<buckets, gateLoad>>
  <2>1. PICK t \in Nat :
            /\ GateWorth(buckets'[ip], gateClock) = t + GateLag(h)
            /\ IF ip \in DOMAIN buckets THEN t = Gate!Less(Gate!Bucket(h))
                                        ELSE t = Burst - FailUnit
    BY <1>5, GateFailLeaves
  <2>2. /\ \A x \in DOMAIN buckets : x # ip => buckets'[x] = buckets[x]
        /\ DOMAIN buckets' = DOMAIN buckets \cup {ip}
    BY <1>5, GateFailLeaves
  <2>3. GateNow(ip)' = t + GateLag(h)
    BY <1>1, <2>1 DEF GateNow, GateWorth
  <2>4. ASSUME GateSpentPaid(ip)
        PROVE  GateNow(ip)' + spent[ip] >= Burst - Rate * MaxLag + GatePending(ip, 0)'
    <3>1. spent[ip] >= GatePending(ip, 0) - Rate * MaxLag
      BY <1>1, <2>4, GatePaidOld
    <3>2. CASE t = Burst - FailUnit
      BY <1>2, <1>3, <2>3, <3>1, <3>2
    <3>3. CASE ip \in DOMAIN buckets
      <4>1. GateNow(ip) + spent[ip] >= Burst - Rate * MaxLag + GatePending(ip, 0)
        BY <2>4, <3>3 DEF GateSpentPaid
      <4>2. /\ Gate!Bucket(h) \in Int /\ GateNow(ip) \in Nat
            /\ Gate!Bucket(h) = GateNow(ip) - GateLag(h) \/ Gate!Bucket(h) = Burst
        BY <1>1, <3>3, GateFinds
      <4>3. /\ Gate!Bucket(h) < FailUnit => t = 0
            /\ Gate!Bucket(h) >= FailUnit => t = Gate!Bucket(h) - FailUnit
        BY <2>1, <3>3, <4>2, GateLessShape
      <4>4. CASE Gate!Bucket(h) = Burst
        BY <1>3, <3>2, <4>3, <4>4
      <4>5. CASE Gate!Bucket(h) = GateNow(ip) - GateLag(h)
        <5>1. t + GateLag(h) >= GateNow(ip) - FailUnit
          BY <1>2, <1>3, <4>2, <4>3, <4>5
        <5>2. QED
          BY <1>2, <1>3, <2>3, <4>1, <4>2, <5>1
      <4>6. QED
        BY <4>2, <4>4, <4>5
    <3>4. QED
      BY <2>1, <3>2, <3>3
  <2>5. QED
    BY <1>1, <2>2, <2>4, GateOtherSpent, GateIdleShape
<1>6. QED
  BY <1>4, <1>5

\* A key that is not valid is spent at once: its failure is under way.
LEMMA GateInvalidSpent ==
    ASSUME GateAssumptions, GateGuardInv, GateSpentInv, NEW h \in Handlers, Gate!Invalid(h),
           NEW ip, ip = req[h].ip
    PROVE  GateSpentInv'
<1> USE DEF GateGuardInv, GateRetryInv, GateStateInv
<1> DEFINE r == Gate!Reads(ip, "failing")
<1>1. /\ Gate!Goes(h, r) /\ gateClock' = gateClock /\ buckets' = buckets
      /\ spent' = Gate!Spend(spent, ip) /\ ip \in Ips
  BY GateRequestShape DEF Gate!Invalid, Gate!guard
<1>2. r.at = "failing" /\ r.ip = ip /\ r.now = gateClock
  BY DEF Gate!Reads
<1>3. gateClock \in Nat /\ MaxLag \in Nat /\ Burst \in Nat /\ FailUnit \in Nat
      /\ spent \in [Ips -> Nat] /\ spent[ip] \in Nat /\ Rate * MaxLag \in Nat
  BY <1>1, GateConstantShape, GateBoundShape DEF Gate!TypeOK
<1>4. \A x \in Ips : spent'[x] = IF x # ip THEN spent[x] ELSE
          IF spent[ip] + FailUnit > Burst THEN Burst ELSE spent[ip] + FailUnit
  BY <1>1, <1>3 DEF Gate!Spend
<1>5. ASSUME NEW x \in Ips, x # ip PROVE GateSpentOf(x)'
  <2>1. \A t : GateFailing(x, t)' \subseteq GateFailing(x, t)
    BY <1>1, <1>2, <1>5, GateFailingGoes
  <2>2. ASSUME GateSpentPaid(x), x \in DOMAIN buckets'
        PROVE  GateNow(x)' + spent[x] >= Burst - Rate * MaxLag + GatePending(x, 0)'
    <3>1. GateNow(x)' = GateNow(x) /\ x \in DOMAIN buckets
      BY <1>1, <2>2 DEF GateNow, GateWorth
    <3>2. GateNow(x) + spent[x] >= Burst - Rate * MaxLag + GatePending(x, 0)
      BY <2>2, <3>1 DEF GateSpentPaid
    <3>3. GateNow(x) \in Int /\ spent[x] \in Nat
      BY <1>3, <3>1, GateWorthShape, GateConstantShape DEF GateNow, Gate!TypeOK
    <3>4. GatePending(x, 0) \in Nat /\ GatePending(x, 0)' \in Nat
          /\ GatePending(x, 0)' <= GatePending(x, 0)
      BY <2>1, GatePendingShape
    <3>5. QED
      BY <1>3, <3>1, <3>2, <3>3, <3>4
  <2>3. GateSpentOf(x) /\ spent'[x] = spent[x]
    BY <1>4, <1>5 DEF GateSpentInv
  <2>4. QED
    BY <1>1, <2>1, <2>2, <2>3, GateSpentKeeps
<1>6. ASSUME NEW t
      PROVE  /\ GatePending(ip, t) \in Nat /\ GatePending(ip, t)' \in Nat
             /\ GatePending(ip, t)' <= GatePending(ip, t) + FailUnit
  <2>1. GateFailing(ip, t)' = GateFailing(ip, t) \cup {h}
        \/ GateFailing(ip, t)' = GateFailing(ip, t) \ {h}
    BY <1>1, GateFailingGoes
  <2>2. GateFailing(ip, t) \in SUBSET Handlers
    BY DEF GateFailing
  <2>3. GateFailing(ip, t)' = GateFailing(ip, t) \cup {h} =>
            GatePending(ip, t)' <= GatePending(ip, t) + FailUnit
    BY <2>2, GateCost DEF GatePending
  <2>4. /\ GatePending(ip, t) \in Nat /\ GatePending(ip, t)' \in Nat
        /\ GateFailing(ip, t)' = GateFailing(ip, t) \ {h} =>
               GatePending(ip, t)' <= GatePending(ip, t)
    BY GatePendingShape
  <2>5. QED
    BY <1>3, <2>1, <2>3, <2>4
<1>7. CASE spent[ip] + FailUnit > Burst
  <2> PICK c \in Nat : c = gateClock
    BY <1>3
  <2>1. GateFailing(ip, c + 1)' = {}
    <3>1. \A x \in Handlers : req'[x] = IF x = h THEN r ELSE req[x]
      BY <1>1 DEF Gate!Goes, Gate!TypeOK
    <3>2. ASSUME NEW x \in Handlers, req'[x].at = "failing" PROVE ~(req'[x].now >= c + 1)
      <4>1. CASE x = h
        BY <1>2, <1>3, <3>1, <4>1
      <4>2. CASE x # h
        <5>1. req[x].now \in 0 .. gateClock
          BY <3>1, <3>2, <4>2, GateLagShape DEF Gate!Waiting
        <5>2. QED
          BY <1>3, <3>1, <4>2, <5>1
      <4>3. QED
        BY <4>1, <4>2
    <3>3. QED
      BY <3>2 DEF GateFailing
  <2>2. GatePending(ip, c + 1)' = 0
    BY <2>1, GateCost DEF GatePending
  <2>3. Rate * gateClock \in Int
    BY <1>3, GateConstantShape
  <2>4. spent'[ip] >= Burst - (Rate * gateClock - Rate * c) + GatePending(ip, c + 1)'
    BY <1>1, <1>3, <1>4, <1>7, <2>2, <2>3
  <2>5. c \in 0 .. gateClock /\ gateClock <= c + MaxLag
    BY <1>3
  <2>6. GateSpentFull(ip)'
    BY <1>1, <2>4, <2>5 DEF GateSpentFull
  <2>7. QED
    BY <1>5, <2>6 DEF GateSpentInv, GateSpentOf
<1>8. CASE ~(spent[ip] + FailUnit > Burst)
  <2>1. spent'[ip] = spent[ip] + FailUnit
    BY <1>1, <1>4, <1>8
  <2>2. CASE GateSpentFull(ip)
    <3>1. PICK t \in 0 .. gateClock :
              /\ gateClock <= t + MaxLag
              /\ spent[ip] >= Burst - (Rate * gateClock - Rate * t) + GatePending(ip, t + 1)
      BY <2>2 DEF GateSpentFull
    <3>2. Rate * gateClock \in Int /\ Rate * t \in Int
      BY <1>3, GateConstantShape
    <3>3. spent'[ip] >= Burst - (Rate * gateClock - Rate * t) + GatePending(ip, t + 1)'
      <4>1. /\ GatePending(ip, t + 1) \in Nat /\ GatePending(ip, t + 1)' \in Nat
            /\ GatePending(ip, t + 1)' <= GatePending(ip, t + 1) + FailUnit
        BY <1>6
      <4>2. QED
        BY <1>3, <2>1, <3>1, <3>2, <4>1
    <3>4. GateSpentFull(ip)'
      BY <1>1, <3>1, <3>3 DEF GateSpentFull
    <3>5. QED
      BY <1>5, <3>4 DEF GateSpentInv, GateSpentOf
  <2>3. CASE GateSpentPaid(ip)
    <3>1. ASSUME NEW t \in 0 .. gateClock
          PROVE  spent'[ip] >= GatePending(ip, t)' - (Rate * gateClock - Rate * t)
      <4>1. spent[ip] >= GatePending(ip, t) - (Rate * gateClock - Rate * t)
        BY <2>3 DEF GateSpentPaid
      <4>2. Rate * gateClock \in Int /\ Rate * t \in Int
        BY <1>3, GateConstantShape
      <4>3. QED
        BY <1>3, <1>6, <2>1, <4>1, <4>2
    <3>2. ASSUME ip \in DOMAIN buckets'
          PROVE  GateNow(ip)' + spent'[ip] >= Burst - Rate * MaxLag + GatePending(ip, 0)'
      <4>1. GateNow(ip)' = GateNow(ip) /\ ip \in DOMAIN buckets
        BY <1>1, <3>2 DEF GateNow, GateWorth
      <4>2. GateNow(ip) + spent[ip] >= Burst - Rate * MaxLag + GatePending(ip, 0)
        BY <2>3, <4>1 DEF GateSpentPaid
      <4>3. GateNow(ip) \in Int
        BY <4>1, GateWorthShape, GateConstantShape DEF GateNow, Gate!TypeOK
      <4>4. QED
        BY <1>3, <1>6, <2>1, <4>1, <4>2, <4>3
    <3>3. GateSpentPaid(ip)'
      BY <1>1, <3>1, <3>2 DEF GateSpentPaid
    <3>4. QED
      BY <1>5, <3>3 DEF GateSpentInv, GateSpentOf
  <2>4. QED
    BY <1>1, <2>2, <2>3 DEF GateSpentInv, GateSpentOf
<1>9. QED
  BY <1>7, <1>8

\* Time passes: a cut that is a lag ago is over, as all that failed before it is.
LEMMA GateTickSpent ==
    ASSUME GateAssumptions, GateGuardInv, GateSpentInv, Gate!Tick
    PROVE  GateSpentInv'
<1> USE DEF GateGuardInv, GateRetryInv, GateStateInv
<1> PICK c \in Nat : c = gateClock
  BY GateConstantShape DEF Gate!TypeOK
<1>1. /\ gateClock' = c + 1 /\ buckets' = buckets /\ req' = req
      /\ spent' = Gate!Drained(spent, Rate)
      /\ \A h \in Handlers : Gate!Waiting(h) => c < req[h].now + MaxLag
  BY DEF Gate!Tick, Gate!guard
<1>2. /\ MaxLag \in Nat /\ Burst \in Nat /\ Rate \in Nat /\ Rate * MaxLag \in Nat
      /\ Burst >= Rate * MaxLag /\ spent \in [Ips -> Nat]
  <2>1. Burst - Rate * MaxLag >= FailUnit
    BY DEF GateAssumptions, Gate!TimesAssumption
  <2>2. QED
    BY <2>1, GateBoundShape, GateConstantShape DEF Gate!TypeOK
<1>3. Rate * (c + 1) = Rate * c + Rate /\ Rate * c \in Int /\ Rate * (c + 1) \in Int
  BY <1>2
<1>4. ASSUME NEW ip \in Ips PROVE GateSpentOf(ip)'
  <2>1. spent'[ip] \in Nat /\ spent'[ip] >= spent[ip] - Rate /\ spent[ip] \in Nat
    BY <1>1, <1>2 DEF Gate!Drained
  <2>2. \A t : /\ GateFailing(ip, t)' = GateFailing(ip, t)
               /\ GatePending(ip, t)' = GatePending(ip, t) /\ GatePending(ip, t) \in Nat
    <3>1. \A t : GateFailing(ip, t)' = GateFailing(ip, t)
      BY <1>1 DEF GateFailing
    <3>2. QED
      BY <3>1, GatePendingShape DEF GatePending
  <2>3. \A h \in Handlers : req[h].at = "failing" =>
            req[h].now \in 0 .. c /\ c < req[h].now + MaxLag
    BY <1>1, GateLagShape DEF Gate!Waiting
  <2>4. GatePending(ip, c + 1) = 0
    <3>1. GateFailing(ip, c + 1) = {}
      BY <2>3 DEF GateFailing
    <3>2. QED
      BY <3>1, GateCost DEF GatePending
  <2>5. ip \in DOMAIN buckets => GateNow(ip)' = GateNow(ip) + Rate /\ GateNow(ip) \in Nat
    <3> SUFFICES ASSUME ip \in DOMAIN buckets
                 PROVE  GateNow(ip)' = GateNow(ip) + Rate /\ GateNow(ip) \in Nat
      OBVIOUS
    <3>1. buckets[ip].last \in Int /\ buckets[ip].tokens \in Int
      BY GateBucketShape
    <3>2. Rate * buckets[ip].last \in Int
      BY <1>2, <3>1
    <3>3. GateNow(ip) >= 0
      BY DEF GateBucketInv, GateNow
    <3>4. GateNow(ip) = buckets[ip].tokens + Rate * c - Rate * buckets[ip].last
      BY DEF GateNow, GateWorth
    <3>5. GateNow(ip)' = buckets[ip].tokens + Rate * (c + 1) - Rate * buckets[ip].last
      BY <1>1 DEF GateNow, GateWorth
    <3>6. QED
      BY <1>2, <1>3, <3>1, <3>2, <3>3, <3>4, <3>5
  <2>6. ASSUME NEW t \in 0 .. c, c + 1 <= t + MaxLag,
               spent[ip] >= Burst - (Rate * c - Rate * t) + GatePending(ip, t + 1)
        PROVE  GateSpentFull(ip)'
    <3>1. Rate * t \in Int
      BY <1>2
    <3>2. spent'[ip] >= Burst - (Rate * (c + 1) - Rate * t) + GatePending(ip, t + 1)'
      <4>1. GatePending(ip, t + 1)' = GatePending(ip, t + 1) /\ GatePending(ip, t + 1) \in Nat
        BY <2>2
      <4>2. QED
        BY <1>2, <1>3, <2>1, <2>6, <3>1, <4>1
    <3>3. t \in 0 .. (c + 1)
      OBVIOUS
    <3>4. QED
      BY <1>1, <2>6, <3>2, <3>3 DEF GateSpentFull
  <2>7. ASSUME \A t \in 0 .. c : spent[ip] >= GatePending(ip, t) - (Rate * c - Rate * t),
               ip \in DOMAIN buckets =>
                   GateNow(ip) + spent[ip] >= Burst - Rate * MaxLag + GatePending(ip, 0)
        PROVE  GateSpentPaid(ip)'
    <3>1. ASSUME NEW t \in 0 .. (c + 1)
          PROVE  spent'[ip] >= GatePending(ip, t)' - (Rate * (c + 1) - Rate * t)
      <4>1. CASE t = c + 1
        BY <1>3, <2>1, <2>2, <2>4, <4>1
      <4>2. CASE t # c + 1
        <5>1. t \in 0 .. c
          BY <4>2
        <5>2. spent[ip] >= GatePending(ip, t) - (Rate * c - Rate * t) /\ Rate * t \in Int
          BY <1>2, <2>7, <5>1
        <5>3. GatePending(ip, t)' = GatePending(ip, t) /\ GatePending(ip, t) \in Nat
          BY <2>2
        <5>4. QED
          BY <1>2, <1>3, <2>1, <5>2, <5>3
      <4>3. QED
        BY <4>1, <4>2
    <3>2. ip \in DOMAIN buckets =>
              GateNow(ip)' + spent'[ip] >= Burst - Rate * MaxLag + GatePending(ip, 0)'
      BY <1>2, <2>1, <2>2, <2>5, <2>7
    <3>3. QED
      BY <1>1, <3>1, <3>2 DEF GateSpentPaid
  <2>8. CASE GateSpentFull(ip)
    <3>1. PICK t \in 0 .. c :
              /\ c <= t + MaxLag
              /\ spent[ip] >= Burst - (Rate * c - Rate * t) + GatePending(ip, t + 1)
      BY <2>8 DEF GateSpentFull
    <3>2. CASE c + 1 <= t + MaxLag
      BY <2>6, <3>1, <3>2 DEF GateSpentOf
    <3>3. CASE ~(c + 1 <= t + MaxLag)
      <4>1. c = t + MaxLag
        BY <1>2, <3>1, <3>3
      <4>2. GateFailing(ip, 0) = GateFailing(ip, t + 1)
        <5>1. \A h \in Handlers : req[h].at = "failing" => req[h].now >= 0 /\ req[h].now >= t + 1
          BY <1>2, <2>3, <4>1
        <5>2. QED
          BY <5>1 DEF GateFailing
      <4>3. GatePending(ip, 0) = GatePending(ip, t + 1) /\ GatePending(ip, 0) \in Nat
        BY <2>2, <4>2 DEF GatePending
      <4>4. Rate * c - Rate * t = Rate * MaxLag
        <5>1. Rate * (t + MaxLag) = Rate * t + Rate * MaxLag /\ Rate * t \in Int
          BY <1>2
        <5>2. QED
          BY <1>2, <4>1, <5>1
      <4>5. spent[ip] >= Burst - Rate * MaxLag + GatePending(ip, 0)
        BY <3>1, <4>3, <4>4
      <4>6. ASSUME NEW u \in 0 .. c PROVE spent[ip] >= GatePending(ip, u) - (Rate * c - Rate * u)
        <5>1. GateFailing(ip, u) \subseteq GateFailing(ip, 0)
          BY <2>3 DEF GateFailing
        <5>2. GatePending(ip, u) <= GatePending(ip, 0) /\ GatePending(ip, u) \in Nat
          BY <2>2, <5>1, GateCost DEF GatePending, GateFailing
        <5>3. Rate * u <= Rate * c /\ Rate * u \in Int
          BY <1>2, ProductMonotone
        <5>4. QED
          BY <1>2, <1>3, <2>1, <4>3, <4>5, <5>2, <5>3
      <4>7. ip \in DOMAIN buckets =>
                GateNow(ip) + spent[ip] >= Burst - Rate * MaxLag + GatePending(ip, 0)
        BY <1>2, <2>1, <2>5, <4>3, <4>5
      <4>8. QED
        BY <2>7, <4>6, <4>7 DEF GateSpentOf
    <3>4. QED
      BY <3>2, <3>3
  <2>9. CASE GateSpentPaid(ip)
    BY <2>7, <2>9 DEF GateSpentPaid, GateSpentOf
  <2>10. QED
    BY <2>8, <2>9 DEF GateSpentInv, GateSpentOf
<1>5. QED
  BY <1>4 DEF GateSpentInv

\* Nothing happens to the requests, and buckets are at most forgotten.
LEMMA GateQuietSpent ==
    ASSUME GateAssumptions, GateGuardInv, GateSpentInv, UNCHANGED <<gateClock, req, spent>>,
           DOMAIN buckets' \subseteq DOMAIN buckets,
           \A ip \in DOMAIN buckets' : buckets'[ip] = buckets[ip]
    PROVE  GateSpentInv'
<1>1. \A ip, t : GateFailing(ip, t)' = GateFailing(ip, t) /\ GatePending(ip, t)' = GatePending(ip, t)
  BY DEF GateFailing, GatePending
<1>2. \A ip \in DOMAIN buckets' : ip \in DOMAIN buckets /\ GateNow(ip)' = GateNow(ip)
  BY DEF GateNow, GateWorth
<1>3. ASSUME NEW ip \in Ips PROVE GateSpentOf(ip)'
  <2>1. ASSUME GateSpentPaid(ip), ip \in DOMAIN buckets'
        PROVE  GateNow(ip)' + spent[ip] >= Burst - Rate * MaxLag + GatePending(ip, 0)'
    BY <1>1, <1>2, <2>1 DEF GateSpentPaid
  <2>2. \A t : GateFailing(ip, t)' \subseteq GateFailing(ip, t)
    BY <1>1
  <2>3. QED
    BY <2>1, <2>2, GateSpentKeeps DEF GateSpentInv, GateGuardInv, GateRetryInv
<1>4. QED
  BY <1>3 DEF GateSpentInv

LEMMA GateSpentStep ==
    ASSUME GateAssumptions, GateGuardInv, GateSpentInv, [Gate!Next]_Gate!vars
    PROVE  GateSpentInv'
<1> USE GateIdleShape
<1>1. ASSUME NEW h \in Handlers, NEW r, Gate!Goes(h, r), r.at # "failing",
             UNCHANGED <<gateClock, spent, buckets>>
      PROVE  GateSpentInv'
  <2>1. \A x, t : GateFailing(x, t)' \subseteq GateFailing(x, t)
    BY <1>1, GateFailingGoes DEF GateGuardInv, GateRetryInv, GateStateInv
  <2>2. ASSUME NEW ip \in Ips, GateSpentPaid(ip), ip \in DOMAIN buckets'
        PROVE  GateNow(ip)' + spent[ip] >= Burst - Rate * MaxLag + GatePending(ip, 0)'
    <3>1. GateNow(ip)' = GateNow(ip) /\ ip \in DOMAIN buckets
      BY <1>1, <2>2 DEF GateNow, GateWorth
    <3>2. GateNow(ip) + spent[ip] >= Burst - Rate * MaxLag + GatePending(ip, 0)
      BY <2>2, <3>1 DEF GateSpentPaid
    <3>3. GatePending(ip, 0) \in Nat /\ GatePending(ip, 0)' \in Nat
          /\ GatePending(ip, 0)' <= GatePending(ip, 0)
      BY <2>1, GatePendingShape
    <3>4. GateNow(ip) \in Int /\ spent[ip] \in Nat /\ Rate * MaxLag \in Nat /\ Burst \in Nat
      BY <3>1, GateWorthShape, GateBoundShape, GateConstantShape
         DEF GateNow, GateGuardInv, GateRetryInv, GateStateInv, Gate!TypeOK
    <3>5. QED
      BY <3>1, <3>2, <3>3, <3>4
  <2>3. ASSUME NEW ip \in Ips PROVE GateSpentOf(ip)'
    BY <1>1, <2>1, <2>2, GateSpentKeeps
       DEF GateSpentInv, GateGuardInv, GateRetryInv
  <2>4. QED
    BY <2>3 DEF GateSpentInv
<1>2. ASSUME NEW h \in Handlers, Gate!Authorize(h) PROVE GateSpentInv'
  <2>1. CASE Gate!Passes(h)
    BY <2>1, GateLookSpent DEF Gate!Passes, Gate!Waiting, Gate!observed
  <2>2. CASE Gate!Blocked(h)
    BY <2>2, GateLookSpent DEF Gate!Blocked, Gate!Waiting, Gate!Answered
  <2>3. CASE Gate!Fail(h)
    BY <2>3, GateFailSpent
  <2>4. CASE Gate!Invalid(h)
    BY <2>4, GateInvalidSpent
  <2>5. CASE \E ip \in Ips : Gate!Arrives(h, ip)
    BY <1>1, <2>5 DEF Gate!Arrives, Gate!Reads, Gate!guard, Gate!observed
  <2>6. CASE Gate!Refused(h) \/ Gate!Granted(h)
    BY <1>1, <2>6 DEF Gate!Refused, Gate!Granted, Gate!Answered, Gate!guard,
           Gate!observed
  <2>7. QED
    BY <1>2, <2>1, <2>2, <2>3, <2>4, <2>5, <2>6 DEF Gate!Authorize
<1>3. ASSUME NEW h \in Handlers, Gate!Handle(h) PROVE GateSpentInv'
  BY <1>1, <1>3
     DEF Gate!Handle, Gate!Serves, Gate!TakesPlace, Gate!RouteEnds, Gate!Answered, Gate!guard,
         Gate!observed
<1>4. CASE Gate!GcBegins \/ UNCHANGED Gate!vars
  BY <1>4, GateQuietSpent
     DEF Gate!GcBegins, Gate!vars, Gate!guard, Gate!observed
<1>5. CASE Gate!Gc
  BY <1>5, GateQuietSpent DEF Gate!Gc, Gate!Live, Gate!observed
<1>6. QED
  BY <1>2, <1>3, <1>4, <1>5, GateTickSpent DEF Gate!Next

LEMMA GateSpentInit ==
    ASSUME GateAssumptions, Gate!Init
    PROVE  GateSpentInv
<1>1. ASSUME NEW ip \in Ips, NEW t PROVE GatePending(ip, t) = 0
  <2>1. GateFailing(ip, t) = {}
    BY DEF Gate!Init, Gate!Idle, GateFailing
  <2>2. QED
    BY <2>1, GateCost DEF GatePending
<1>2. ASSUME NEW ip \in Ips PROVE GateSpentPaid(ip)
  <2>1. gateClock = 0 /\ spent[ip] = 0 /\ ip \notin DOMAIN buckets /\ Rate * 0 = 0
    BY GateConstantShape DEF Gate!Init
  <2>2. QED
    BY <1>1, <2>1 DEF GateSpentPaid
<1>3. QED
  BY <1>2 DEF GateSpentInv, GateSpentOf

LEMMA GateBlockedEarned ==
    ASSUME GateAssumptions, GateGuardInv, GateSpentInv, NEW h \in Handlers, Gate!Blocked(h)
    PROVE  spent[req[h].ip] + 2 * Rate * MaxLag > Burst - FailUnit
<1> USE DEF GateGuardInv, GateRetryInv, GateStateInv
<1> DEFINE ip == req[h].ip
<1>1. Gate!Waiting(h) /\ ip \in DOMAIN buckets /\ Gate!Bucket(h) < FailUnit
  BY DEF Gate!Blocked, Gate!Waiting
<1>2. /\ GateLag(h) \in Nat /\ GateLag(h) <= Rate * MaxLag /\ Rate * MaxLag \in Nat
      /\ ip \in Ips /\ spent[ip] \in Nat /\ gateClock \in Nat
      /\ Burst \in Nat /\ FailUnit \in Nat /\ Burst >= FailUnit /\ FailUnit >= 1
      /\ 2 * Rate * MaxLag = 2 * (Rate * MaxLag) /\ MaxLag \in Nat /\ Rate \in Nat
  BY <1>1, GateLagShape, GateBoundShape, GateConstantShape DEF Gate!TypeOK
<1>3. GateNow(ip) \in Nat /\ GateNow(ip) < FailUnit + Rate * MaxLag
  <2>1. /\ Gate!Bucket(h) \in Int /\ GateNow(ip) \in Nat
        /\ Gate!Bucket(h) = GateNow(ip) - GateLag(h) \/ Gate!Bucket(h) = Burst
    BY <1>1, GateFinds
  <2>2. QED
    BY <1>1, <1>2, <2>1
<1>4. CASE GateSpentFull(ip)
  <2>1. PICK t \in 0 .. gateClock :
            /\ gateClock <= t + MaxLag
            /\ spent[ip] >= Burst - (Rate * gateClock - Rate * t) + GatePending(ip, t + 1)
    BY <1>4 DEF GateSpentFull
  <2>2. GatePending(ip, t + 1) \in Nat
    BY GatePendingShape
  <2>3. Rate * gateClock <= Rate * t + Rate * MaxLag /\ Rate * gateClock \in Int /\ Rate * t \in Int
    <3>1. Rate * gateClock <= Rate * (t + MaxLag) /\ t + MaxLag \in Int
      BY <1>2, <2>1, ProductMonotone
    <3>2. QED
      BY <1>2, <3>1, GateProducts
  <2>4. QED
    BY <1>2, <2>1, <2>2, <2>3
<1>5. CASE GateSpentPaid(ip)
  <2>1. GateNow(ip) + spent[ip] >= Burst - Rate * MaxLag + GatePending(ip, 0)
    BY <1>1, <1>5 DEF GateSpentPaid
  <2>2. GatePending(ip, 0) \in Nat
    BY GatePendingShape
  <2>3. QED
    BY <1>2, <1>3, <2>1, <2>2
<1>6. QED
  BY <1>2, <1>4, <1>5 DEF GateSpentInv, GateSpentOf

\* Only wrong keys block an address, and it takes as many as the guard holds:
\* for any handlers, burst, rate and lag.
THEOREM GateEarnedCorrect ==
    ASSUME GateAssumptions PROVE Gate!Spec => Gate!BlockedEarned
<1>1. Gate!Init => GateGuardInv /\ GateSpentInv
  BY GateLoadInit, GateSpentInit
<1>2. GateGuardInv /\ GateSpentInv /\ [Gate!Next]_Gate!vars => GateGuardInv' /\ GateSpentInv'
  BY GateGuardStep, GateSpentStep
<1>3. GateGuardInv /\ GateSpentInv =>
        [\A h \in Handlers : Gate!Blocked(h) =>
            spent[req[h].ip] + 2 * Rate * MaxLag > Burst - FailUnit]_Gate!vars
  BY GateBlockedEarned
<1>4. QED
  BY <1>1, <1>2, <1>3, PTL DEF Gate!Spec, Gate!BlockedEarned

-----------------------------------------------------------------------------
(***************************************************************************)
(* Both kinds of buckets side by side, as the run explores them: a step of *)
(* either is one the other does not see.                                   *)
(***************************************************************************)
LEMMA BucketsParts ==
    BucketsSpec => Spec /\ Gate!Spec
<1>1. BucketsInit => Init /\ Gate!Init
  BY DEF BucketsInit
<1>2. [BucketsNext]_<<part, vars, gateVars>> => [Next]_vars /\ [Gate!Next]_Gate!vars
  BY DEF BucketsNext, LimiterStep, GateStep, gateVars, Gate!vars, Gate!guard,
         Gate!observed
<1>3. QED
  BY <1>1, <1>2, PTL DEF BucketsSpec, Spec, Gate!Spec

\* The gate: its types, and the wrong keys of an address over every interval.
THEOREM GateRightCorrect == BucketsSpec => []GateRight
<1>1. GateAssumptions
  BY GateAssumption DEF GateAssumptions
<1>2. BucketsSpec => []Gate!TypeOK /\ []Gate!FailuresBounded
  BY <1>1, BucketsParts, GateTypeCorrect, GateFailuresCorrect, PTL
<1>3. Gate!TypeOK /\ Gate!FailuresBounded => GateRight
  BY DEF GateRight
<1>4. QED
  BY <1>2, <1>3, PTL

\* Who is told to wait and waits is let in, by the limiter and by the guard,
\* which tells it only those who sent wrong keys.
THEOREM RetriesRightCorrect == BucketsSpec => RetriesRight
<1>1. GateAssumptions
  BY GateAssumption DEF GateAssumptions
<1>2. QED
  BY <1>1, BucketsParts, RetryCorrect, GateRetryCorrect, GateEarnedCorrect, PTL
     DEF RetriesRight

=============================================================================
