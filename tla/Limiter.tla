------------------------------- MODULE Limiter -------------------------------
(***************************************************************************)
(* The token bucket limiter of the /v2 API and of the console:             *)
(* devplatform/limiter.go, type Limiter.  httpapi/ratelimit.go repeats it  *)
(* with one plan for everybody.                                            *)
(*                                                                         *)
(* Time is counted in ticks and tokens in fractions: a request costs Unit  *)
(* tokens and a plan refills plan.rate of them per tick, so that every     *)
(* product of the code's float arithmetic is an integer here.  A caller    *)
(* reads the clock before it takes the mutex, hence a call is two steps    *)
(* and the bucket meets the times of its callers in any order.             *)
(***************************************************************************)
EXTENDS Integers, FiniteSets

CONSTANTS
    Callers,     \* goroutines that serve requests
    Ids,         \* what is limited: a key, or a bucket name and an IP
    Plans,       \* records [rate, burst]
    PlanOf,      \* the plan the calls for an id come with
    Unit,        \* tokens one request costs
    TTL,         \* limiterTTL
    MaxEntries,  \* limiterMaxEntries
    MaxLag,      \* bound: ticks between reading the clock and the mutex
    MaxClock     \* bound: the end of the clock

ASSUME IdsAssumption == IsFiniteSet(Ids)
ASSUME PlansAssumption == Plans \subseteq [rate: Nat \ {0}, burst: Nat]
ASSUME PlanOfAssumption == PlanOf \in [Ids -> Plans]
ASSUME UnitAssumption == Unit \in Nat \ {0}
\* Every plan lets at least one request through at once.
ASSUME BurstAssumption == \A p \in Plans : p.burst >= Unit
ASSUME TimesAssumption ==
    /\ TTL \in Nat
    /\ MaxLag \in Nat
    /\ MaxClock \in Nat
    /\ MaxLag < TTL
ASSUME MaxEntriesAssumption == MaxEntries \in Nat \ {0}

VARIABLES
    clock,
    b,         \* Limiter.b: the buckets, by id
    call,      \* call[c]: the call c is in, with the time it read
    sweep,     \* the time gc read, None outside it
    load,      \* (observation) tokens granted beyond the rate, see Drained
    promise    \* (observation) when the last denied call may come again

vars == <<clock, b, call, sweep, load, promise>>

None == -1
Idle == [state |-> "idle"]
Calls == [state: {"calling"}, id: Ids, now: 0 .. MaxClock]
Calling(c) == call[c].state = "calling"
Buckets == [tokens: Int, last: 0 .. MaxClock]

Init ==
    /\ clock = 0
    /\ b = [id \in {} |-> None]
    /\ call = [c \in Callers |-> Idle]
    /\ sweep = None
    /\ load = [id \in Ids |-> 0]
    /\ promise = [id \in Ids |-> None]

(***************************************************************************)
(* load[id] is the largest excess of what buckets of id granted over what  *)
(* the rate allows, over all intervals that end now: it grows with every   *)
(* grant and drains at the rate of the plan.                               *)
(***************************************************************************)
Drained ==
    [id \in Ids |-> IF load[id] > PlanOf[id].rate
                    THEN load[id] - PlanOf[id].rate ELSE 0]

\* Time passes; whoever has read the clock gets the mutex within MaxLag.
Tick ==
    /\ clock < MaxClock
    /\ \A c \in Callers : Calling(c) => clock < call[c].now + MaxLag
    /\ sweep # None => clock < sweep + MaxLag
    /\ clock' = clock + 1
    /\ load' = Drained
    /\ UNCHANGED <<b, call, sweep, promise>>

-----------------------------------------------------------------------------
(***************************************************************************)
(* Allow(id, rps, burst), up to the mutex.  rps and burst come with every  *)
(* call; here those of an id stay the same.  No plan of the program has    *)
(* rps = 0, the case the code denies at once.                              *)
(***************************************************************************)
Call(c, id) ==
    /\ ~Calling(c)
    /\ call' = [call EXCEPT ![c] = [state |-> "calling", id |-> id,
                                    now |-> clock]]
    /\ UNCHANGED <<clock, b, sweep, load, promise>>

\* (mutant) a bucket may overflow
CappedNot(tokens, plan) == tokens
Capped(tokens, plan) == IF tokens > plan.burst THEN plan.burst ELSE tokens

\* Tokens of a bucket at the time the caller read, which may precede `last'.
Refilled(bk, plan, now) ==
    Capped(bk.tokens + (now - bk.last) * plan.rate, plan)

Return(c) == call' = [call EXCEPT ![c] = Idle]
Grant(id) == /\ load' = [load EXCEPT ![id] = @ + Unit]
             /\ promise' = [promise EXCEPT ![id] = None]

\* The map f with value v for key k.
Put(f, k, v) == [x \in DOMAIN f \cup {k} |-> IF x = k THEN v ELSE f[x]]

\* (mutant) one bucket too many
FullOffByOne == Cardinality(DOMAIN b) > MaxEntries
Full == Cardinality(DOMAIN b) >= MaxEntries

\* The first request of an id: a full bucket less this request.
AllowNew(c) ==
    LET id == call[c].id IN
    /\ Calling(c)
    /\ id \notin DOMAIN b
    /\ ~Full
    /\ b' = Put(b, id, [tokens |-> PlanOf[id].burst - Unit,
                        last |-> call[c].now])
    /\ Grant(id)
    /\ Return(c)
    /\ UNCHANGED <<clock, sweep>>

\* No room for another bucket: the request passes and leaves no trace.
AllowUntracked(c) ==
    /\ Calling(c)
    /\ call[c].id \notin DOMAIN b
    /\ Full
    /\ Return(c)
    /\ UNCHANGED <<clock, b, sweep, load, promise>>

AllowGrants(c) ==
    LET id == call[c].id
        t == Refilled(b[id], PlanOf[id], call[c].now)
    IN  /\ Calling(c)
        /\ id \in DOMAIN b
        /\ t >= Unit
        /\ b' = [b EXCEPT ![id] = [tokens |-> t - Unit, last |-> call[c].now]]
        /\ Grant(id)
        /\ Return(c)
        /\ UNCHANGED <<clock, sweep>>

\* (mutant) rounded down
WaitRoundedDown(missing, plan) == missing \div plan.rate
\* Whole ticks until `missing' tokens are refilled: the retryAfter returned.
Wait(missing, plan) == (missing + plan.rate - 1) \div plan.rate

AllowDenies(c) ==
    LET id == call[c].id
        now == call[c].now
        t == Refilled(b[id], PlanOf[id], now)
    IN  /\ Calling(c)
        /\ id \in DOMAIN b
        /\ t < Unit
        /\ b' = [b EXCEPT ![id] = [tokens |-> t, last |-> now]]
        /\ promise' = [promise EXCEPT ![id] =
                          now + Wait(Unit - t, PlanOf[id])]
        /\ Return(c)
        /\ UNCHANGED <<clock, sweep, load>>

-----------------------------------------------------------------------------
(***************************************************************************)
(* gc drops the buckets not used for TTL.  It runs every TTL from the start*)
(* of the process on; when that is, seen from a bucket, is arbitrary.      *)
(***************************************************************************)
GcBegins ==
    /\ sweep = None
    /\ sweep' = clock
    /\ UNCHANGED <<clock, b, call, load, promise>>

Live == {id \in DOMAIN b : b[id].last >= sweep - TTL}

Gc ==
    /\ sweep # None
    /\ b' = [id \in Live |-> b[id]]
    /\ sweep' = None
    /\ UNCHANGED <<clock, call, load, promise>>

Allow(c) ==
    \/ AllowNew(c)
    \/ AllowUntracked(c)
    \/ AllowGrants(c)
    \/ AllowDenies(c)

Next ==
    \/ Tick
    \/ \E c \in Callers, id \in Ids : Call(c, id)
    \/ \E c \in Callers : Allow(c)
    \/ GcBegins
    \/ Gc

Spec == Init /\ [][Next]_vars

-----------------------------------------------------------------------------
\* Types, and the bound on the table that keeps a flood of ids out of memory.
TypeOK ==
    /\ clock \in 0 .. MaxClock
    /\ DOMAIN b \subseteq Ids
    /\ b \in [DOMAIN b -> Buckets]
    /\ Cardinality(DOMAIN b) <= MaxEntries
    /\ call \in [Callers -> Calls \cup {Idle}]
    /\ sweep \in {None} \cup 0 .. MaxClock
    /\ load \in [Ids -> Nat]
    /\ promise \in [Ids -> Int]

\* A bucket idle for TTL is full again, so that forgetting it changes nothing.
Refills(p) == p.rate * (TTL - 2 * MaxLag) >= p.burst

(***************************************************************************)
(* The limit: over every interval of time the buckets of an id let through *)
(* no more than the burst and what the rate refills in it (and in the lag  *)
(* of a caller), whatever order the callers' times arrive in and although  *)
(* gc forgets buckets, provided the plan refills within TTL.               *)
(***************************************************************************)
GrantsBounded ==
    \A id \in Ids : Refills(PlanOf[id]) =>
        load[id] <= PlanOf[id].burst + PlanOf[id].rate * MaxLag

(***************************************************************************)
(* Retry-After is kept: once an id was told to wait, the first call that   *)
(* comes when the wait is over is let through, unless another call of the  *)
(* id was let through meanwhile.                                           *)
(***************************************************************************)
RetryHonoured ==
    [][\A c \in Callers :
          AllowDenies(c) /\ promise[call[c].id] # None =>
              call[c].now < promise[call[c].id]]_vars

-----------------------------------------------------------------------------
(***************************************************************************)
(* What GrantsBounded rests on.  Worth is what a bucket would hold now if  *)
(* nothing capped it.  Until it exceeds Ceiling, load and worth together   *)
(* do not, and beyond it the load is gone; so an idle bucket may be        *)
(* dropped.  A caller with an old time never makes a bucket worth less     *)
(* than nothing.                                                           *)
(***************************************************************************)
Worth(id) == b[id].tokens + PlanOf[id].rate * (clock - b[id].last)
Ceiling(id) == PlanOf[id].burst + PlanOf[id].rate * MaxLag

LagInv ==
    /\ \A c \in Callers : Calling(c) =>
          call[c].now <= clock /\ clock <= call[c].now + MaxLag
    /\ sweep # None => sweep <= clock /\ clock <= sweep + MaxLag

BucketInv ==
    \A id \in DOMAIN b :
        /\ b[id].last <= clock
        /\ Worth(id) >= 0
        /\ b[id].tokens + PlanOf[id].rate * MaxLag >= 0

LoadInv ==
    \A id \in Ids : Refills(PlanOf[id]) =>
        \/ load[id] = 0
        \/ id \in DOMAIN b /\ load[id] + Worth(id) <= Ceiling(id)

\* A promise made is one the bucket can keep.
PromiseInv ==
    \A id \in DOMAIN b : promise[id] # None =>
        b[id].tokens + PlanOf[id].rate * (promise[id] - b[id].last) >= Unit

LimiterInv == LagInv /\ BucketInv /\ LoadInv /\ PromiseInv
=============================================================================
