---------------------------- MODULE ResolverProofs ---------------------------
(***************************************************************************)
(* Proofs about Resolver, for every set of callers and keys, all TTLs and  *)
(* any number of changes of the rows.                                      *)
(***************************************************************************)
EXTENDS Resolver, FiniteSetTheorems, TLAPS

-----------------------------------------------------------------------------
(***************************************************************************)
(* The shape of a call in each state of Resolve.                           *)
(***************************************************************************)
LEMMA WaitingType ==
    ASSUME TypeOK, NEW c \in Callers, call[c].state \in {"called", "asking"}
    PROVE  /\ call[c] \in [state: {"called", "asking"}, key: Secrets, now: Times]
           /\ call[c].key \in Secrets /\ call[c].now \in Times
BY DEF TypeOK, Calls, Idle

\* A call that has read a row has a key, a time and the row.
LEMMA ReadType ==
    ASSUME TypeOK, NEW c \in Callers, call[c].state \in {"read", "done"}
    PROVE  call[c].key \in Secrets /\ call[c].now \in Times /\ call[c].rec \in Rows
BY DEF TypeOK, Calls, Idle

\* Eviction leaves a map or empties it.
LEMMA AfterEvictType ==
    ASSUME NEW S, NEW T, NEW f, DOMAIN f \subseteq S, f \in [DOMAIN f -> T]
    PROVE  /\ DOMAIN AfterEvict(f) \subseteq DOMAIN f
           /\ DOMAIN AfterEvict(f) \subseteq S
           /\ AfterEvict(f) \in [DOMAIN AfterEvict(f) -> T]
           /\ \A k \in DOMAIN AfterEvict(f) : AfterEvict(f)[k] = f[k]
BY DEF AfterEvict

\* Every change of a row keeps the types.
LEMMA ChangeType ==
    ASSUME TypeOK, NEW k \in Secrets, NEW rec \in Rows, Change(k, rec)
    PROVE  TypeOK'
<1>1. changes' \in 0 .. MaxChanges
  BY BoundsAssumption DEF TypeOK, Change
<1>2. row' \in [Secrets -> Rows]
  BY DEF TypeOK, Change
<1>3. left' \in [Secrets -> SUBSET [rec: Rows, at: Times]]
  <2>1. [rec |-> row[k], at |-> clock] \in [rec: Rows, at: Times]
    BY DEF TypeOK
  <2>2. left[k] \cup {[rec |-> row[k], at |-> clock]} \subseteq [rec: Rows, at: Times]
    BY <2>1 DEF TypeOK
  <2>3. QED
    BY <2>2 DEF TypeOK, Change
<1>4. QED
  BY <1>1, <1>2, <1>3 DEF TypeOK, Change

\* The steps of console and staff keep the types.
LEMMA RowStepType ==
    ASSUME TypeOK, NEW k \in Secrets, RowStep(k)
    PROVE  \E rec \in Records : Change(k, rec)
<1> USE BoundsAssumption, TTLAssumption
<1>1. ASSUME NEW account \in AccountStates, CreateKey(k, account)
      PROVE  \E rec \in Records : Change(k, rec)
  <2>1. [found |-> TRUE, revoked |-> FALSE, expires |-> Never,
         account |-> account] \in Records
    BY DEF Records, Never
  <2>2. QED
    BY <1>1, <2>1 DEF CreateKey
<1>2. row[k].found => row[k] \in Records
  BY DEF TypeOK, Rows, Absent
<1>3. CASE RevokeKey(k)
  BY <1>2, <1>3 DEF RevokeKey, Records
<1>4. CASE RotateKey(k)
  <2> DEFINE e == IF row[k].expires < clock + Grace THEN row[k].expires
                  ELSE clock + Grace
  <2>1. row[k] \in Records /\ row[k].expires \in 0 .. Never
    BY <1>2, <1>4 DEF RotateKey, Records
  <2>2. e \in 0 .. Never
    BY <2>1 DEF TypeOK, Times, Never
  <2>3. [row[k] EXCEPT !.expires = e] \in Records
    BY <2>1, <2>2 DEF Records
  <2>4. QED
    BY <1>4, <2>3 DEF RotateKey
<1>5. ASSUME NEW account \in AccountStates, AccountChanges(k, account)
      PROVE  \E rec \in Records : Change(k, rec)
  BY <1>2, <1>5 DEF AccountChanges, Records
<1>6. QED
  BY <1>1, <1>3, <1>4, <1>5 DEF RowStep

-----------------------------------------------------------------------------
(***************************************************************************)
(* Type correctness.                                                       *)
(***************************************************************************)
LEMMA TypeInit == Init => TypeOK
BY BoundsAssumption DEF Init, TypeOK, Times, Rows, Absent, Idle

\* What Store writes has the types of the maps.
LEMMA StoreType ==
    ASSUME TypeOK, NEW c \in Callers, Store(c)
    PROVE  /\ DOMAIN pos' \subseteq Secrets
           /\ pos' \in [DOMAIN pos' -> [rec: Records, at: Times]]
           /\ DOMAIN neg' \subseteq Secrets
           /\ neg' \in [DOMAIN neg' -> 0 .. (MaxClock + NegTTL)]
<1> DEFINE k == call[c].key
           P == [rec: Records, at: Times]
           N == 0 .. (MaxClock + NegTTL)
<1>1. k \in Secrets /\ call[c].now \in Times /\ call[c].rec \in Rows
  BY ReadType DEF Store
<1>2. DOMAIN pos \subseteq Secrets /\ pos \in [DOMAIN pos -> P]
  BY DEF TypeOK
<1>3. DOMAIN neg \subseteq Secrets /\ neg \in [DOMAIN neg -> N]
  BY DEF TypeOK
<1> HIDE DEF P, N
<1>4. DOMAIN AfterEvict(pos) \subseteq Secrets
      /\ AfterEvict(pos) \in [DOMAIN AfterEvict(pos) -> P]
  BY <1>2, AfterEvictType
<1>5. DOMAIN AfterEvict(neg) \subseteq Secrets
      /\ AfterEvict(neg) \in [DOMAIN AfterEvict(neg) -> N]
  BY <1>3, AfterEvictType
<1>6. CASE call[c].rec.found
  <2>1. Entry(c) \in P
    BY <1>1, <1>6 DEF Entry, P, Rows, Absent
  <2>2. pos' = Put(AfterEvict(pos), k, Entry(c)) /\ neg' = AfterEvict(neg)
    BY <1>6 DEF Store
  <2>3. DOMAIN pos' \subseteq Secrets /\ pos' \in [DOMAIN pos' -> P]
    BY <1>1, <1>4, <2>1, <2>2 DEF Put
  <2>4. QED
    BY <1>5, <2>2, <2>3 DEF P, N
<1>7. CASE ~call[c].rec.found
  <2>1. call[c].now + NegTTL \in N
    BY <1>1, BoundsAssumption, TTLAssumption DEF Times, N
  <2>2. pos' = AfterEvict(pos) /\ neg' = Put(AfterEvict(neg), k, call[c].now + NegTTL)
    BY <1>7 DEF Store
  <2>3. DOMAIN neg' \subseteq Secrets /\ neg' \in [DOMAIN neg' -> N]
    BY <1>1, <1>5, <2>1, <2>2 DEF Put
  <2>4. QED
    BY <1>4, <2>2, <2>3 DEF P, N
<1>8. QED
  BY <1>6, <1>7

\* Every step keeps the types.
LEMMA TypeStep == TypeOK /\ [Next]_vars => TypeOK'
<1> SUFFICES ASSUME TypeOK, [Next]_vars PROVE TypeOK'
  OBVIOUS
<1>1. CASE Tick
  BY <1>1, BoundsAssumption DEF Tick, dbVars, TypeOK, Times
<1>2. ASSUME NEW k \in Secrets, RowStep(k) PROVE TypeOK'
  BY <1>2, RowStepType, ChangeType DEF Rows
<1>3. ASSUME NEW c \in Callers, NEW k \in Secrets, Resolve(c, k) PROVE TypeOK'
  BY <1>3 DEF Resolve, dbVars, TypeOK, Calls
<1>4. ASSUME NEW c \in Callers, RefusedByCache(c) PROVE TypeOK'
  <2>1. call[c].key \in Secrets /\ call[c].now \in Times
    BY <1>4, WaitingType DEF RefusedByCache
  <2>2. [state |-> "done", key |-> call[c].key, now |-> call[c].now,
         rec |-> Absent] \in Calls
    BY <2>1 DEF Calls, Rows
  <2>3. call' \in [Callers -> Calls \cup {Idle}]
    BY <1>4, <2>2 DEF RefusedByCache, Answer, TypeOK
  <2>4. QED
    BY <1>4, <2>3 DEF RefusedByCache, dbVars, TypeOK
<1>5. ASSUME NEW c \in Callers, AnsweredByCache(c) PROVE TypeOK'
  <2>1. call[c].key \in Secrets /\ call[c].now \in Times
    BY <1>5, WaitingType DEF AnsweredByCache
  <2>2. pos[call[c].key].rec \in Records
    BY <1>5 DEF AnsweredByCache, Hit, TypeOK
  <2>3. [state |-> "done", key |-> call[c].key, now |-> call[c].now,
         rec |-> pos[call[c].key].rec] \in Calls
    BY <2>1, <2>2 DEF Calls, Rows
  <2>4. call' \in [Callers -> Calls \cup {Idle}]
    BY <1>5, <2>3 DEF AnsweredByCache, Answer, TypeOK
  <2>5. /\ DOMAIN neg' \subseteq Secrets
        /\ neg' \in [DOMAIN neg' -> 0 .. (MaxClock + NegTTL)]
    BY <1>5 DEF AnsweredByCache, Without, TypeOK
  <2>6. QED
    BY <1>5, <2>4, <2>5 DEF AnsweredByCache, dbVars, TypeOK
<1>6. ASSUME NEW c \in Callers, Missed(c) PROVE TypeOK'
  <2>1. [call[c] EXCEPT !.state = "asking"] \in Calls
    BY <1>6, WaitingType DEF Missed, Calls
  <2>2. call' \in [Callers -> Calls \cup {Idle}]
    BY <1>6, <2>1 DEF Missed, TypeOK
  <2>3. /\ DOMAIN neg' \subseteq Secrets
        /\ neg' \in [DOMAIN neg' -> 0 .. (MaxClock + NegTTL)]
    BY <1>6 DEF Missed, Without, TypeOK
  <2>4. /\ DOMAIN pos' \subseteq Secrets
        /\ pos' \in [DOMAIN pos' -> [rec: Records, at: Times]]
    BY <1>6 DEF Missed, Without, TypeOK
  <2>5. QED
    BY <1>6, <2>2, <2>3, <2>4 DEF Missed, dbVars, TypeOK
<1>7. ASSUME NEW c \in Callers, LookupKey(c) PROVE TypeOK'
  <2>1. call[c].key \in Secrets /\ call[c].now \in Times
    BY <1>7, WaitingType DEF LookupKey
  <2>2. [state |-> "read", key |-> call[c].key, now |-> call[c].now,
         rec |-> row[call[c].key]] \in Calls
    BY <2>1 DEF Calls, TypeOK
  <2>3. call' \in [Callers -> Calls \cup {Idle}]
    BY <1>7, <2>2 DEF LookupKey, TypeOK
  <2>4. QED
    BY <1>7, <2>3 DEF LookupKey, dbVars, TypeOK
<1>8. ASSUME NEW c \in Callers, LookupFails(c) PROVE TypeOK'
  <2>1. [call[c] EXCEPT !.state = "failed"] \in Calls
    BY <1>8, WaitingType DEF LookupFails, Calls
  <2>2. call' \in [Callers -> Calls \cup {Idle}]
    BY <1>8, <2>1 DEF LookupFails, TypeOK
  <2>3. QED
    BY <1>8, <2>2 DEF LookupFails, dbVars, TypeOK
<1>9. ASSUME NEW c \in Callers, Store(c) PROVE TypeOK'
  <2>1. [state |-> "done", key |-> call[c].key, now |-> call[c].now,
         rec |-> call[c].rec] \in Calls
    BY <1>9, ReadType DEF Store, Calls
  <2>2. call' \in [Callers -> Calls \cup {Idle}]
    BY <1>9, <2>1 DEF Store, Answer, TypeOK
  <2>3. QED
    BY <1>9, <2>2, StoreType DEF Store, dbVars, TypeOK
<1>10. CASE UNCHANGED vars
  BY <1>10 DEF vars, TypeOK
<1>11. QED
  BY <1>1, <1>2, <1>3, <1>4, <1>5, <1>6, <1>7, <1>8, <1>9, <1>10
     DEF Next, CallStep

(***************************************************************************)
(* Every state of the cache, of the calls and of the rows is well typed.   *)
(***************************************************************************)
THEOREM TypeCorrect == Spec => []TypeOK
BY TypeInit, TypeStep, PTL DEF Spec

-----------------------------------------------------------------------------
(***************************************************************************)
(* Having had a row: since an earlier time too, and still after a change.  *)
(***************************************************************************)
LEMMA HadEarlier ==
    ASSUME TypeOK, NEW k \in Secrets, NEW rec, NEW t \in Int, NEW u \in Int,
           u <= t, HadSince(k, rec, t)
    PROVE  HadSince(k, rec, u)
<1>1. \A h \in left[k] : h.at \in Int
  BY DEF TypeOK, Times
<1>2. QED
  BY <1>1 DEF HadSince

\* A row once had is still had after any change.
LEMMA HadStill ==
    ASSUME TypeOK, NEW k \in Secrets, NEW new, Change(k, new),
           NEW x \in Secrets, NEW rec, NEW t \in Int, t <= clock,
           HadSince(x, rec, t)
    PROVE  HadSince(x, rec, t)'
<1>1. CASE row'[x] = row[x]
  <2>1. left[x] \subseteq left'[x]
    BY DEF Change, TypeOK
  <2>2. QED
    BY <1>1, <2>1 DEF HadSince
<1>2. CASE row'[x] # row[x]
  <2>1. x = k /\ left'[x] = left[x] \cup {[rec |-> row[x], at |-> clock]}
    BY <1>2 DEF Change, TypeOK
  <2>2. CASE row[x] = rec
    <3>1. [rec |-> row[x], at |-> clock] \in left'[x]
      BY <2>1
    <3>2. QED
      BY <2>2, <3>1 DEF HadSince
  <2>3. CASE row[x] # rec
    BY <2>1, <2>3 DEF HadSince
  <2>4. QED
    BY <2>2, <2>3
<1>3. QED
  BY <1>1, <1>2

\* Ages are natural numbers.
LEMMA AgeType == \A rec \in Rows : Age(rec) \in Nat
BY TTLAssumption DEF Age

\* Times are integers.
LEMMA TimesInt == Times \subseteq Int /\ PosTTL \in Nat /\ NegTTL \in Nat
BY BoundsAssumption, TTLAssumption DEF Times

\* The types of what AnswerInv speaks of.
LEMMA EntryTypes ==
    ASSUME TypeOK
    PROVE  /\ \A k \in DOMAIN pos : /\ k \in Secrets /\ pos[k].rec \in Records
                                    /\ pos[k].at \in Int
           /\ \A k \in DOMAIN neg : k \in Secrets /\ neg[k] \in Int
           /\ clock \in Int
BY TimesInt, BoundsAssumption DEF TypeOK

\* An empty cache has nothing to be wrong about.
LEMMA CacheInit == Init => CacheInv
BY DEF Init, CacheInv, ClockInv, AnswerInv, Idle

\* Time only makes entries older.
LEMMA TickCache ==
    ASSUME TypeOK, CacheInv, Tick
    PROVE  CacheInv'
<1>1. ClockInv'
  <2>1. \A c \in Callers : call[c].state # "idle" => call[c].now \in Int
    BY TimesInt DEF TypeOK, Calls, Idle
  <2>2. QED
    BY <2>1, EntryTypes, TimesInt DEF CacheInv, ClockInv, Tick
<1>2. AnswerInv'
  BY DEF CacheInv, AnswerInv, Tick, dbVars, HadSince
<1>3. QED
  BY <1>1, <1>2 DEF CacheInv

\* A change of a row: what was true once stays true.
LEMMA ChangeCache ==
    ASSUME TypeOK, CacheInv, NEW k \in Secrets, NEW rec, Change(k, rec)
    PROVE  CacheInv'
<1>1. ClockInv'
  BY DEF CacheInv, ClockInv, Change
<1>2. ASSUME NEW x \in DOMAIN pos' PROVE HadSince(x, pos[x].rec, pos[x].at)'
  <2>1. /\ x \in Secrets /\ pos[x].at \in Int /\ pos[x].at <= clock
        /\ HadSince(x, pos[x].rec, pos[x].at) /\ pos' = pos
    BY <1>2, EntryTypes DEF Change, CacheInv, ClockInv, AnswerInv
  <2>2. \A r, t : r = pos[x].rec /\ t = pos[x].at => HadSince(x, r, t)'
    BY <2>1, HadStill
  <2>3. QED
    BY <2>1, <2>2
<1>3. ASSUME NEW x \in DOMAIN neg' PROVE HadSince(x, Absent, neg[x] - NegTTL)'
  <2>1. /\ x \in Secrets /\ neg[x] - NegTTL \in Int /\ neg[x] - NegTTL <= clock
        /\ HadSince(x, Absent, neg[x] - NegTTL) /\ neg' = neg
    BY <1>3, EntryTypes, TimesInt DEF Change, CacheInv, ClockInv, AnswerInv
  <2>2. \A t : t = neg[x] - NegTTL => HadSince(x, Absent, t)'
    BY <2>1, HadStill
  <2>3. QED
    BY <2>1, <2>2
<1>4. ASSUME NEW c \in Callers, call'[c].state = "read"
      PROVE  HadSince(call[c].key, call[c].rec, call[c].now)'
  <2>1. /\ call' = call /\ call[c].state = "read"
        /\ call[c].key \in Secrets /\ call[c].now \in Int
    BY <1>4, ReadType, TimesInt DEF Change
  <2>2. call[c].now <= clock /\ HadSince(call[c].key, call[c].rec, call[c].now)
    BY <2>1 DEF CacheInv, ClockInv, AnswerInv
  <2>3. \A x, r, t : x = call[c].key /\ r = call[c].rec /\ t = call[c].now
                        => HadSince(x, r, t)'
    BY <2>1, <2>2, HadStill
  <2>4. QED
    BY <2>1, <2>3
<1>5. ASSUME NEW c \in Callers, call'[c].state = "done"
      PROVE  HadSince(call[c].key, call[c].rec, call[c].now - Age(call[c].rec))'
  <2> DEFINE u == call[c].now - Age(call[c].rec)
  <2>1. /\ call' = call /\ call[c].state = "done"
        /\ call[c].key \in Secrets /\ call[c].now \in Int
        /\ Age(call[c].rec) \in Nat
    BY <1>5, ReadType, TimesInt, AgeType DEF Change
  <2>2. call[c].now <= clock /\ HadSince(call[c].key, call[c].rec, u)
    BY <2>1 DEF CacheInv, ClockInv, AnswerInv
  <2>3. u \in Int /\ u <= clock
    BY <2>1, <2>2, EntryTypes
  <2>4. \A x, r, t : x = call[c].key /\ r = call[c].rec /\ t = u
                        => HadSince(x, r, t)'
    BY <2>1, <2>2, <2>3, HadStill
  <2>5. u' = u
    BY <2>1 DEF Age
  <2>6. QED
    BY <2>1, <2>4, <2>5
<1>6. AnswerInv'
  BY <1>2, <1>3, <1>4, <1>5 DEF AnswerInv, Change
<1>7. QED
  BY <1>1, <1>6 DEF CacheInv

-----------------------------------------------------------------------------
(***************************************************************************)
(* The steps of Resolve leave the rows alone.                              *)
(***************************************************************************)
LEMMA SameRows ==
    ASSUME UNCHANGED dbVars
    PROVE  \A k, rec, t : HadSince(k, rec, t)' <=> HadSince(k, rec, t)
BY DEF dbVars, HadSince

\* What holds of one call when the step changes no other.
LEMMA OneCall ==
    ASSUME TypeOK, AnswerInv, UNCHANGED dbVars, NEW c \in Callers,
           \A d \in Callers \ {c} : call'[d] = call[d],
           \A k \in DOMAIN pos' : HadSince(k, pos'[k].rec, pos'[k].at),
           \A k \in DOMAIN neg' : HadSince(k, Absent, neg'[k] - NegTTL),
           call'[c].state = "read" =>
               HadSince(call'[c].key, call'[c].rec, call'[c].now),
           call'[c].state = "done" =>
               HadSince(call'[c].key, call'[c].rec,
                        call'[c].now - Age(call'[c].rec))
    PROVE  AnswerInv'
<1>1. \A k \in DOMAIN pos' : HadSince(k, pos[k].rec, pos[k].at)'
  BY DEF HadSince, dbVars
<1>2. \A k \in DOMAIN neg' : HadSince(k, Absent, neg[k] - NegTTL)'
  BY DEF HadSince, dbVars
<1>3. \A d \in Callers : call'[d].state = "read" =>
          HadSince(call[d].key, call[d].rec, call[d].now)'
  BY DEF HadSince, dbVars, AnswerInv
<1>4. \A d \in Callers : call'[d].state = "done" =>
          HadSince(call[d].key, call[d].rec, call[d].now - Age(call[d].rec))'
  BY DEF HadSince, dbVars, AnswerInv, Age
<1>5. QED
  BY <1>1, <1>2, <1>3, <1>4 DEF AnswerInv

\* A call that begins reads the clock and nothing else.
LEMMA ResolveCache ==
    ASSUME TypeOK, CacheInv, NEW c \in Callers, NEW k \in Secrets, Resolve(c, k)
    PROVE  CacheInv'
<1>1. call' = [call EXCEPT ![c] = [state |-> "called", key |-> k, now |-> clock]]
      /\ call \in [Callers -> Calls \cup {Idle}]
  BY DEF Resolve, TypeOK
<1>2. ClockInv'
  BY <1>1, EntryTypes DEF CacheInv, ClockInv, Resolve
<1>3. AnswerInv'
  BY <1>1, OneCall DEF CacheInv, AnswerInv, Resolve
<1>4. QED
  BY <1>2, <1>3 DEF CacheInv

\* A refusal from the cache is as old as its entry.
LEMMA RefusedByCacheCache ==
    ASSUME TypeOK, CacheInv, NEW c \in Callers, RefusedByCache(c)
    PROVE  CacheInv'
<1> DEFINE k == call[c].key
           now == call[c].now
<1>1. /\ k \in DOMAIN neg /\ now < neg[k] /\ k \in Secrets /\ now \in Int
      /\ neg[k] \in Int
  BY WaitingType, EntryTypes, TimesInt DEF RefusedByCache, Known
<1>2. /\ call'[c] = [state |-> "done", key |-> k, now |-> now, rec |-> Absent]
      /\ \A d \in Callers \ {c} : call'[d] = call[d]
      /\ UNCHANGED <<clock, dbVars, pos, neg>>
  BY DEF RefusedByCache, Answer, TypeOK
<1>3. ClockInv'
  <2>1. call[c].state # "idle"
    BY DEF RefusedByCache
  <2>2. QED
    BY <1>2, <2>1 DEF CacheInv, ClockInv
<1>4. HadSince(k, Absent, now - NegTTL)
  <2>1. HadSince(k, Absent, neg[k] - NegTTL)
    BY <1>1 DEF CacheInv, AnswerInv
  <2>2. now - NegTTL <= neg[k] - NegTTL /\ now - NegTTL \in Int /\ neg[k] - NegTTL \in Int
    BY <1>1, TimesInt
  <2>3. QED
    BY <1>1, <2>1, <2>2, HadEarlier
<1>5. Age(Absent) = NegTTL
  BY DEF Age, Absent
<1>6. AnswerInv'
  <2> HIDE DEF k, now
  <2>1. call'[c].state = "done" /\ call'[c].key = k /\ call'[c].now = now
        /\ call'[c].rec = Absent
    BY <1>2
  <2>2. QED
    BY <1>2, <1>4, <1>5, <2>1, OneCall DEF CacheInv, AnswerInv
<1>7. QED
  BY <1>3, <1>6 DEF CacheInv

\* An answer from the cache is as old as its entry.
LEMMA AnsweredByCacheCache ==
    ASSUME TypeOK, CacheInv, NEW c \in Callers, AnsweredByCache(c)
    PROVE  CacheInv'
<1> DEFINE k == call[c].key
           now == call[c].now
           rec == pos[call[c].key].rec
<1>1. /\ k \in DOMAIN pos /\ now - pos[k].at <= PosTTL
      /\ k \in Secrets /\ now \in Int /\ pos[k].at \in Int /\ rec \in Records
  BY WaitingType, EntryTypes, TimesInt DEF AnsweredByCache, Hit
<1>2. /\ call'[c] = [state |-> "done", key |-> k, now |-> now, rec |-> rec]
      /\ \A d \in Callers \ {c} : call'[d] = call[d]
      /\ UNCHANGED <<clock, dbVars, pos>>
      /\ DOMAIN neg' \subseteq DOMAIN neg
      /\ \A x \in DOMAIN neg' : neg'[x] = neg[x]
  BY DEF AnsweredByCache, Answer, TypeOK, Without
<1>3. ClockInv'
  <2>1. call[c].state # "idle"
    BY DEF AnsweredByCache
  <2>2. QED
    BY <1>2, <2>1 DEF CacheInv, ClockInv
<1>4. HadSince(k, rec, now - PosTTL)
  <2>1. HadSince(k, rec, pos[k].at)
    BY <1>1 DEF CacheInv, AnswerInv
  <2>2. now - PosTTL <= pos[k].at /\ now - PosTTL \in Int
    BY <1>1, TimesInt
  <2>3. QED
    BY <1>1, <2>1, <2>2, HadEarlier
<1>5. Age(rec) = PosTTL
  BY <1>1 DEF Age, Records
<1>6. AnswerInv'
  <2> HIDE DEF k, now, rec
  <2>1. call'[c].state = "done" /\ call'[c].key = k /\ call'[c].now = now
        /\ call'[c].rec = rec
    BY <1>2
  <2>2. QED
    BY <1>2, <1>4, <1>5, <2>1, OneCall DEF CacheInv, AnswerInv
<1>7. QED
  BY <1>3, <1>6 DEF CacheInv

\* Entries that ran out are dropped, the rest stays.
LEMMA MissedCache ==
    ASSUME TypeOK, CacheInv, NEW c \in Callers, Missed(c)
    PROVE  CacheInv'
<1>1. /\ call'[c].state = "asking" /\ call'[c].now = call[c].now
      /\ call[c].state = "called"
      /\ \A d \in Callers \ {c} : call'[d] = call[d]
      /\ UNCHANGED <<clock, dbVars>>
  <2>1. call[c] \in [state: {"called", "asking"}, key: Secrets, now: Times]
    BY WaitingType DEF Missed
  <2>2. QED
    BY <2>1 DEF Missed, TypeOK
<1>2. /\ DOMAIN neg' \subseteq DOMAIN neg /\ \A x \in DOMAIN neg' : neg'[x] = neg[x]
      /\ DOMAIN pos' \subseteq DOMAIN pos /\ \A x \in DOMAIN pos' : pos'[x] = pos[x]
  BY DEF Missed, Without
<1>3. ClockInv'
  BY <1>1, <1>2 DEF CacheInv, ClockInv
<1>4. AnswerInv'
  BY <1>1, <1>2, OneCall DEF CacheInv, AnswerInv
<1>5. QED
  BY <1>3, <1>4 DEF CacheInv

\* What the lookup returns is the row of that moment.
LEMMA LookupKeyCache ==
    ASSUME TypeOK, CacheInv, NEW c \in Callers, LookupKey(c)
    PROVE  CacheInv'
<1>1. /\ call'[c] = [state |-> "read", key |-> call[c].key, now |-> call[c].now,
                    rec |-> row[call[c].key]]
      /\ \A d \in Callers \ {c} : call'[d] = call[d]
      /\ call[c].state = "asking"
      /\ UNCHANGED <<clock, dbVars, pos, neg>>
  BY DEF LookupKey, TypeOK
<1>2. HadSince(call[c].key, row[call[c].key], call[c].now)
  BY DEF HadSince
<1>3. ClockInv'
  BY <1>1 DEF CacheInv, ClockInv
<1>4. AnswerInv'
  <2>1. call'[c].state = "read" /\ HadSince(call'[c].key, call'[c].rec, call'[c].now)
    BY <1>1, <1>2
  <2>2. QED
    BY <1>1, <2>1, OneCall DEF CacheInv, AnswerInv
<1>5. QED
  BY <1>3, <1>4 DEF CacheInv

\* A failed lookup answers nothing.
LEMMA LookupFailsCache ==
    ASSUME TypeOK, CacheInv, NEW c \in Callers, LookupFails(c)
    PROVE  CacheInv'
<1>1. /\ call'[c].state = "failed" /\ call'[c].now = call[c].now
      /\ call[c].state = "asking"
      /\ \A d \in Callers \ {c} : call'[d] = call[d]
      /\ UNCHANGED <<clock, dbVars, pos, neg>>
  <2>1. call[c] \in [state: {"called", "asking"}, key: Secrets, now: Times]
    BY WaitingType DEF LookupFails
  <2>2. QED
    BY <2>1 DEF LookupFails, TypeOK
<1>2. ClockInv'
  BY <1>1 DEF CacheInv, ClockInv
<1>3. AnswerInv'
  BY <1>1, OneCall DEF CacheInv, AnswerInv
<1>4. QED
  BY <1>2, <1>3 DEF CacheInv

\* A late answer is stored with the early time of its call.
LEMMA StoreCache ==
    ASSUME TypeOK, CacheInv, NEW c \in Callers, Store(c)
    PROVE  CacheInv'
<1> DEFINE k == call[c].key
           now == call[c].now
           rec == call[c].rec
<1>1. /\ k \in Secrets /\ now \in Int /\ rec \in Rows /\ call[c].state = "read"
      /\ now <= clock /\ clock \in Int
  BY ReadType, TimesInt, EntryTypes DEF Store, CacheInv, ClockInv
<1>2. HadSince(k, rec, now)
  BY <1>1 DEF CacheInv, AnswerInv
<1>3. /\ call'[c] = [state |-> "done", key |-> k, now |-> now, rec |-> rec]
      /\ \A d \in Callers \ {c} : call'[d] = call[d]
      /\ UNCHANGED <<clock, dbVars>>
  BY DEF Store, Answer, TypeOK
<1>4. \A x \in DOMAIN pos' : \/ x \in DOMAIN pos /\ pos'[x] = pos[x]
                             \/ x = k /\ pos'[x] = [rec |-> rec, at |-> now]
  BY DEF Store, Put, AfterEvict, Entry
<1>5. \A x \in DOMAIN neg' : \/ x \in DOMAIN neg /\ neg'[x] = neg[x]
                             \/ x = k /\ neg'[x] = now + NegTTL /\ rec = Absent
  <2>1. \A x \in DOMAIN AfterEvict(neg) :
            x \in DOMAIN neg /\ AfterEvict(neg)[x] = neg[x]
    BY DEF AfterEvict
  <2>2. CASE rec.found
    BY <2>1, <2>2 DEF Store
  <2>3. CASE ~rec.found
    <3>1. rec = Absent
      BY <1>1, <2>3 DEF Rows, Records
    <3>2. neg' = Put(AfterEvict(neg), k, now + NegTTL)
      BY <2>3 DEF Store
    <3>3. QED
      BY <2>1, <3>1, <3>2 DEF Put
  <2>4. QED
    BY <2>2, <2>3
<1>6. HadSince(k, rec, now - Age(rec))
  <2>1. now - Age(rec) \in Int /\ now - Age(rec) <= now
    BY <1>1, AgeType
  <2>2. QED
    BY <1>1, <1>2, <2>1, HadEarlier
<1>7. (now + NegTTL) - NegTTL = now
  BY <1>1, TimesInt
<1> HIDE DEF k, now, rec
<1>8. ClockInv'
  <2>1. \A d \in Callers : call'[d].state # "idle" => call'[d].now <= clock'
    BY <1>1, <1>3 DEF CacheInv, ClockInv
  <2>2. \A x \in DOMAIN pos' : pos'[x].at <= clock'
    BY <1>1, <1>3, <1>4 DEF CacheInv, ClockInv
  <2>3. \A x \in DOMAIN neg' : neg'[x] <= clock' + NegTTL
    BY <1>1, <1>3, <1>5, TimesInt DEF CacheInv, ClockInv
  <2>4. QED
    BY <2>1, <2>2, <2>3 DEF ClockInv
<1>9. AnswerInv'
  <2>1. \A x \in DOMAIN pos' : HadSince(x, pos'[x].rec, pos'[x].at)
    BY <1>2, <1>4 DEF CacheInv, AnswerInv
  <2>2. \A x \in DOMAIN neg' : HadSince(x, Absent, neg'[x] - NegTTL)
    BY <1>2, <1>5, <1>7 DEF CacheInv, AnswerInv
  <2>3. call'[c].state = "done" /\ call'[c].key = k /\ call'[c].now = now
        /\ call'[c].rec = rec
    BY <1>3
  <2>4. QED
    BY <1>3, <1>6, <2>1, <2>2, <2>3, OneCall DEF CacheInv
<1>10. QED
  BY <1>8, <1>9 DEF CacheInv

\* Every step keeps the invariant of the cache.
LEMMA CacheStep == TypeOK /\ CacheInv /\ [Next]_vars => CacheInv'
<1> SUFFICES ASSUME TypeOK, CacheInv, [Next]_vars PROVE CacheInv'
  OBVIOUS
<1>1. CASE Tick
  BY <1>1, TickCache
<1>2. ASSUME NEW k \in Secrets, RowStep(k) PROVE CacheInv'
  BY <1>2, RowStepType, ChangeCache
<1>3. ASSUME NEW c \in Callers, CallStep(c) PROVE CacheInv'
  BY <1>3, ResolveCache, RefusedByCacheCache, AnsweredByCacheCache, MissedCache,
     LookupKeyCache, LookupFailsCache, StoreCache DEF CallStep
<1>4. CASE UNCHANGED vars
  BY <1>4 DEF vars, CacheInv, ClockInv, AnswerInv, HadSince, Age
<1>5. QED
  BY <1>1, <1>2, <1>3, <1>4 DEF Next

\* Every entry and every answer under way was once true of the database.
THEOREM CacheCorrect == Spec => [](TypeOK /\ CacheInv)
<1>1. Init => TypeOK /\ CacheInv
  BY TypeInit, CacheInit
<1>2. (TypeOK /\ CacheInv) /\ [Next]_vars => (TypeOK /\ CacheInv)'
  BY TypeStep, CacheStep
<1>3. QED
  BY <1>1, <1>2, PTL DEF Spec

-----------------------------------------------------------------------------
(***************************************************************************)
(* What a request is granted on was in the database at most PosTTL before  *)
(* it came, and what it is refused on at most Age.                         *)
(***************************************************************************)
LEMMA CacheAnswers == TypeOK /\ CacheInv => AnswersRight
<1> SUFFICES ASSUME TypeOK, CacheInv PROVE FreshAnswer /\ RefusedRightly
  BY DEF AnswersRight
<1>1. FreshAnswer
  BY DEF CacheInv, AnswerInv, FreshAnswer, Accepted, Dead, Age
<1>2. RefusedRightly
  BY DEF CacheInv, AnswerInv, RefusedRightly, Refused
<1>3. QED
  BY <1>1, <1>2

\* Acceptances and refusals of Resolve are fresh in every state.
THEOREM AnswersCorrect == Spec => []AnswersRight
BY CacheCorrect, CacheAnswers, PTL

(***************************************************************************)
(* A key that was revoked is let in for at most PosTTL more.               *)
(***************************************************************************)
LEMMA FreshRevocation == TypeOK /\ AnswersRight => RevocationBounded
<1> SUFFICES ASSUME TypeOK, AnswersRight, NEW c \in Callers,
                    Accepted(c), row[call[c].key].revoked
             PROVE  \E t \in RevokedAt(call[c].key) : call[c].now <= t + PosTTL
  BY DEF RevocationBounded
<1> DEFINE k == call[c].key
           rec == call[c].rec
<1>1. k \in Secrets /\ call[c].now \in Int /\ rec.found /\ ~rec.revoked
  BY ReadType, TimesInt DEF Accepted, Dead
<1>2. HadSince(k, rec, call[c].now - PosTTL)
  BY DEF AnswersRight, FreshAnswer
<1>3. row[k] # rec
  BY <1>1
<1>4. PICK h \in left[k] : h.rec = rec /\ h.at >= call[c].now - PosTTL
  BY <1>2, <1>3 DEF HadSince
<1>5. h.at \in Int
  BY <1>1, TimesInt DEF TypeOK
<1>6. h.at \in RevokedAt(k)
  BY <1>1, <1>4 DEF RevokedAt
<1>7. call[c].now <= h.at + PosTTL
  BY <1>1, <1>4, <1>5, TimesInt
<1>8. QED
  BY <1>6, <1>7

\* A revoked key is let in for at most PosTTL, in every state.
THEOREM RevocationCorrect == Spec => []RevocationBounded
BY TypeCorrect, AnswersCorrect, FreshRevocation, PTL

-----------------------------------------------------------------------------
(***************************************************************************)
(* The two maps never hold more than MaxEntries entries together.          *)
(***************************************************************************)
LEMMA SizeType ==
    ASSUME TypeOK
    PROVE  /\ IsFiniteSet(DOMAIN pos) /\ Cardinality(DOMAIN pos) \in Nat
           /\ IsFiniteSet(DOMAIN neg) /\ Cardinality(DOMAIN neg) \in Nat
BY SecretsAssumption, FS_Subset, FS_CardinalityType DEF TypeOK

\* Maps with fewer keys are not larger.
LEMMA SizeShrinks ==
    ASSUME TypeOK, CacheBounded,
           DOMAIN pos' \subseteq DOMAIN pos, DOMAIN neg' \subseteq DOMAIN neg
    PROVE  CacheBounded'
<1>1. Cardinality(DOMAIN pos') <= Cardinality(DOMAIN pos)
      /\ Cardinality(DOMAIN pos') \in Nat
  BY SizeType, FS_Subset, FS_CardinalityType
<1>2. Cardinality(DOMAIN neg') <= Cardinality(DOMAIN neg)
      /\ Cardinality(DOMAIN neg') \in Nat
  BY SizeType, FS_Subset, FS_CardinalityType
<1>3. QED
  BY <1>1, <1>2, SizeType, MaxEntriesAssumption DEF CacheBounded, Size

\* A key more in a finite set.
LEMMA OneMore ==
    ASSUME NEW S, IsFiniteSet(S), NEW k
    PROVE  /\ Cardinality(S \cup {k}) <= Cardinality(S) + 1
           /\ Cardinality(S \cup {k}) \in Nat
<1>1. CASE k \in S
  <2>1. S \cup {k} = S
    BY <1>1
  <2>2. Cardinality(S) \in Nat
    BY FS_CardinalityType
  <2>3. QED
    BY <2>1, <2>2
<1>2. CASE k \notin S
  <2>1. Cardinality(S \cup {k}) = Cardinality(S) + 1
    BY <1>2, FS_AddElement
  <2>2. QED
    BY <2>1, FS_CardinalityType
<1>3. QED
  BY <1>1, <1>2

\* A store evicts first when there is no room.
LEMMA StoreSize ==
    ASSUME TypeOK, CacheBounded, NEW c \in Callers, Store(c)
    PROVE  CacheBounded'
<1> DEFINE k == call[c].key
           p == DOMAIN AfterEvict(pos)
           n == DOMAIN AfterEvict(neg)
<1>1. IsFiniteSet(p) /\ IsFiniteSet(n)
  BY SizeType, FS_EmptySet DEF AfterEvict
<1>2. Cardinality(p) \in Nat /\ Cardinality(n) \in Nat
  BY <1>1, FS_CardinalityType
<1>3. Cardinality(p) + Cardinality(n) < MaxEntries
  <2>1. CASE Size >= MaxEntries
    <3>1. p = {} /\ n = {}
      BY <2>1 DEF AfterEvict
    <3>2. QED
      BY <3>1, FS_EmptySet, MaxEntriesAssumption
  <2>2. CASE ~(Size >= MaxEntries)
    <3>1. p = DOMAIN pos /\ n = DOMAIN neg
      BY <2>2 DEF AfterEvict
    <3>2. QED
      BY <2>2, <3>1, SizeType, MaxEntriesAssumption DEF Size
  <2>3. QED
    BY <2>1, <2>2
<1>4. \/ DOMAIN pos' = p \cup {k} /\ DOMAIN neg' = n
      \/ DOMAIN pos' = p /\ DOMAIN neg' = n \cup {k}
  BY DEF Store, Put
<1> HIDE DEF p, n, k
<1>5. /\ Cardinality(p \cup {k}) \in Nat /\ Cardinality(n \cup {k}) \in Nat
      /\ Cardinality(p \cup {k}) <= Cardinality(p) + 1
      /\ Cardinality(n \cup {k}) <= Cardinality(n) + 1
  BY <1>1, OneMore
<1>6. CASE DOMAIN pos' = p \cup {k} /\ DOMAIN neg' = n
  BY <1>2, <1>3, <1>5, <1>6, MaxEntriesAssumption DEF CacheBounded, Size
<1>7. CASE DOMAIN pos' = p /\ DOMAIN neg' = n \cup {k}
  BY <1>2, <1>3, <1>5, <1>7, MaxEntriesAssumption DEF CacheBounded, Size
<1>8. QED
  BY <1>4, <1>6, <1>7

\* Every step keeps the size of the cache bounded.
LEMMA SizeStep == TypeOK /\ CacheBounded /\ [Next]_vars => CacheBounded'
<1> SUFFICES ASSUME TypeOK, CacheBounded, [Next]_vars PROVE CacheBounded'
  OBVIOUS
<1>1. ASSUME NEW c \in Callers, Store(c) PROVE CacheBounded'
  BY <1>1, StoreSize
<1>2. ASSUME NEW c \in Callers, CallStep(c), ~Store(c) PROVE CacheBounded'
  <2>1. DOMAIN pos' \subseteq DOMAIN pos /\ DOMAIN neg' \subseteq DOMAIN neg
    BY <1>2 DEF CallStep, Resolve, RefusedByCache, AnsweredByCache, Missed,
                LookupKey, LookupFails, Without
  <2>2. QED
    BY <2>1, SizeShrinks
<1>3. CASE UNCHANGED <<pos, neg>>
  BY <1>3, SizeShrinks
<1>4. CASE Tick \/ UNCHANGED vars
  BY <1>3, <1>4 DEF Tick, vars
<1>5. ASSUME NEW k \in Secrets, RowStep(k) PROVE CacheBounded'
  BY <1>3, <1>5, RowStepType DEF Change
<1>6. QED
  BY <1>1, <1>2, <1>4, <1>5 DEF Next

\* The two maps of the cache share the limit MaxEntries in every state.
THEOREM SizeCorrect == Spec => []CacheBounded
<1>1. Init => CacheBounded
  <2> SUFFICES ASSUME Init PROVE Size <= MaxEntries
    BY DEF CacheBounded
  <2>1. DOMAIN pos = {} /\ DOMAIN neg = {}
    BY DEF Init
  <2>2. QED
    BY <2>1, FS_EmptySet, MaxEntriesAssumption DEF Size
<1>2. QED
  BY <1>1, TypeCorrect, SizeStep, PTL DEF Spec
=============================================================================
