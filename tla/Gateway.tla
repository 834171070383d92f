------------------------------- MODULE Gateway -------------------------------
(***************************************************************************)
(* The gate of the /v2 API: the wrapper Server.v2 and v2Directions of      *)
(* httpapi/routes_v2.go, Platform.Authorize of devplatform/platform.go and *)
(* the AuthFailGuard of devplatform/limiter.go, which keeps those away who *)
(* send wrong keys.                                                        *)
(*                                                                         *)
(* What the resolver, the limiter and the meter answer is their own matter *)
(* (Resolver, Limiter, Meter): here any answer may come.  Blocked and Fail *)
(* are critical sections of their own, with the lookup of the key between  *)
(* them, and each reads the clock before it takes the mutex.  Times and    *)
(* tokens are integers as in Limiter.                                      *)
(***************************************************************************)
EXTENDS Integers, FiniteSets

CONSTANTS
    Handlers,    \* goroutines that serve requests
    Ips,
    Burst, Rate, \* of the guard: tokens at most, and tokens per tick
    Unit,        \* tokens one failure costs
    RetryAfter,  \* what a blocked caller is told to wait
    TTL,         \* limiterTTL
    MaxRoutes,   \* v2MaxConcurrentRoutes
    MaxLag,      \* bound: ticks between reading the clock and the mutex
    MaxClock     \* bound: the end of the clock

HandlersAssumption == IsFiniteSet(Handlers) /\ Handlers # {}
GuardAssumption ==
    /\ {Burst, RetryAfter, TTL, MaxRoutes, MaxLag, MaxClock} \subseteq Nat
    /\ {Rate, Unit} \subseteq Nat \ {0}
    /\ Burst >= Unit
\* A failure costs at least twice what is refilled while a caller waits for
\* the mutex, a full bucket and RetryAfter are good for a failure besides that,
\* and whoever is silent for TTL has a full bucket.
TimesAssumption ==
    /\ 2 * Rate * MaxLag <= Unit
    /\ Burst - Rate * MaxLag >= Unit
    /\ Rate * (RetryAfter - MaxLag) >= Unit
    /\ Rate * (TTL - 2 * MaxLag) >= Burst

VARIABLES
    clock,
    b,        \* AuthFailGuard.b: the buckets, by address
    req,      \* the request of a handler
    sweep,    \* the time gc read, None outside it
    routes,   \* the places taken in v2RouteSem
    load,     \* (observation) wrong keys beyond what is refilled for all handlers
    spent,    \* (observation) wrong keys beyond what is refilled, at most Burst
    promise   \* (observation) when the last blocked caller may come again

guard == <<b, sweep>>
observed == <<load, spent, promise>>
vars == <<clock, guard, req, routes, observed>>

None == -1
Idle == [at |-> "idle"]
\* A request: how far it is, its address, and the time it read when it waits
\* for the mutex of the guard.
Requests ==
    [at: {"arrived", "failing"}, ip: Ips, now: 0 .. MaxClock] \cup
    [at: {"resolving"}, ip: Ips] \cup
    [at: {"granted", "routing"}]
Waiting(h) == req[h].at \in {"arrived", "failing"}

Init ==
    /\ clock = 0
    /\ b = [ip \in {} |-> None]
    /\ req = [h \in Handlers |-> Idle]
    /\ sweep = None
    /\ routes = 0
    /\ load = [ip \in Ips |-> 0]
    /\ spent = [ip \in Ips |-> 0]
    /\ promise = [ip \in Ips |-> None]

\* What is left of an observed sum when r has drained from it.
Drained(sum, r) == [ip \in Ips |-> IF sum[ip] > r THEN sum[ip] - r ELSE 0]

\* Time passes, for no handler more than MaxLag between clock and mutex.  Of
\* load it drains twice what is refilled: a handler that read the clock late
\* may see again what another one has used.
Tick ==
    /\ clock < MaxClock
    /\ \A h \in Handlers : Waiting(h) => clock < req[h].now + MaxLag
    /\ sweep # None => clock < sweep + MaxLag
    /\ clock' = clock + 1
    /\ load' = Drained(load, 2 * Rate * Cardinality(Handlers))
    /\ spent' = Drained(spent, Rate)
    /\ UNCHANGED <<guard, req, routes, promise>>

Goes(h, r) == req' = [req EXCEPT ![h] = r]
Answered(h) == Goes(h, Idle)
Reads(ip, at) == [at |-> at, ip |-> ip, now |-> clock]

-----------------------------------------------------------------------------
(* Authorize.                                                              *)

Arrives(h, ip) ==
    /\ req[h] = Idle
    /\ Goes(h, Reads(ip, "arrived"))
    /\ UNCHANGED <<clock, guard, routes, observed>>

\* (mutant) Blocked does not refill
RefilledNot(bk, now) == bk.tokens
\* The tokens of a bucket at a time, which may precede its last one.
Refilled(bk, now) ==
    LET t == bk.tokens + (now - bk.last) * Rate
    IN  IF t > Burst THEN Burst ELSE t
Bucket(h) == Refilled(b[req[h].ip], req[h].now)

\* The bucket of h is as of now.
Refill(h) == b' = [b EXCEPT ![req[h].ip] = [tokens |-> Bucket(h), last |-> req[h].now]]

\* Not blocked: an address without a bucket, or one with a token.
Passes(h) ==
    /\ req[h].at = "arrived"
    /\ IF req[h].ip \in DOMAIN b THEN Bucket(h) >= Unit /\ Refill(h)
                                 ELSE UNCHANGED b
    /\ Goes(h, [at |-> "resolving", ip |-> req[h].ip])
    /\ UNCHANGED <<clock, sweep, routes, observed>>

\* Answered with 429 and RetryAfter, before the key is looked at.
Blocked(h) ==
    /\ req[h].at = "arrived"
    /\ req[h].ip \in DOMAIN b
    /\ Bucket(h) < Unit
    /\ Refill(h)
    /\ Answered(h)
    /\ promise' = [promise EXCEPT ![req[h].ip] = req[h].now + RetryAfter]
    /\ UNCHANGED <<clock, sweep, routes, load, spent>>

\* (mutant) a database out of reach counts as a wrong key
RefusedBlamed(h) ==
    /\ req[h].at = "resolving"
    /\ Goes(h, Reads(req[h].ip, "failing"))
    /\ UNCHANGED <<clock, guard, routes, observed>>
\* No key was sent, the database is out of reach, or the key may not do this:
\* the account, the rules of the key, the API, the rate or the month say no.
Refused(h) ==
    /\ req[h].at = "resolving"
    /\ Answered(h)
    /\ UNCHANGED <<clock, guard, routes, observed>>

\* The sum of wrong keys; of those spent no more than the guard holds.
Add(sum, ip) == [sum EXCEPT ![ip] = @ + Unit]
Spend(sum, ip) ==
    [sum EXCEPT ![ip] = IF @ + Unit > Burst THEN Burst ELSE @ + Unit]

\* The key is not valid; Fail reads the clock.
Invalid(h) ==
    /\ req[h].at = "resolving"
    /\ Goes(h, Reads(req[h].ip, "failing"))
    /\ spent' = Spend(spent, req[h].ip)
    /\ UNCHANGED <<clock, guard, routes, load, promise>>

\* (mutant) a failure that finds no token gives one
LessNot(t) == IF t >= Unit THEN t - Unit ELSE Unit
\* What a failure leaves of t tokens.
Less(t) == IF t >= Unit THEN t - Unit ELSE 0

Put(f, k, v) == [x \in DOMAIN f \cup {k} |-> IF x = k THEN v ELSE f[x]]

\* The critical section of Fail.  At any time other addresses, not modelled
\* here, may leave no room for another bucket: then nothing is kept.
Fail(h) ==
    LET ip == req[h].ip
        Keep(t) == /\ b' = Put(b, ip, [tokens |-> t, last |-> req[h].now])
                   /\ load' = Add(load, ip)
                   /\ promise' = [promise EXCEPT ![ip] = None]
    IN  /\ req[h].at = "failing"
        /\ \/ ip \in DOMAIN b /\ Keep(Less(Bucket(h)))
           \/ ip \notin DOMAIN b /\ Keep(Burst - Unit)
           \/ ip \notin DOMAIN b /\ UNCHANGED <<b, load, promise>>
        /\ Answered(h)
        /\ UNCHANGED <<clock, sweep, routes, spent>>

Granted(h) ==
    /\ req[h].at = "resolving"
    /\ Goes(h, [at |-> "granted"])
    /\ UNCHANGED <<clock, guard, routes, observed>>

-----------------------------------------------------------------------------
(* gc of the guard, every TTL from a time on that is arbitrary here.       *)

GcBegins ==
    /\ sweep = None
    /\ sweep' = clock
    /\ UNCHANGED <<clock, b, req, routes, observed>>

\* (mutant) the buckets that are used are dropped, the others kept
LiveNot == {ip \in DOMAIN b : b[ip].last < sweep - TTL}
Live == {ip \in DOMAIN b : b[ip].last >= sweep - TTL}

Gc ==
    /\ sweep # None
    /\ b' = [ip \in Live |-> b[ip]]
    /\ sweep' = None
    /\ UNCHANGED <<clock, req, routes, observed>>

-----------------------------------------------------------------------------
(* The handler, v2Directions or another one.                               *)

\* Whatever it answers: a result, an error, or nothing at all in a panic.
Serves(h) ==
    /\ req[h].at = "granted"
    /\ Answered(h)
    /\ UNCHANGED <<clock, guard, routes, observed>>

\* A place in v2RouteSem is taken.  When all are taken the caller is answered
\* 429 at once: Serves.
TakesPlace(h) ==
    /\ req[h].at = "granted"
    /\ routes < MaxRoutes
    /\ routes' = routes + 1
    /\ Goes(h, [at |-> "routing"])
    /\ UNCHANGED <<clock, guard, observed>>

\* fetchRoute comes back with a route, none or an error, runs out of time or
\* panics: the deferred function gives the place back.
RouteEnds(h) ==
    /\ req[h].at = "routing"
    /\ Answered(h)
    /\ routes' = routes - 1
    /\ UNCHANGED <<clock, guard, observed>>

Authorize(h) ==
    \/ \E ip \in Ips : Arrives(h, ip)
    \/ Passes(h) \/ Blocked(h) \/ Refused(h) \/ Invalid(h) \/ Fail(h) \/ Granted(h)
Handle(h) == Serves(h) \/ TakesPlace(h) \/ RouteEnds(h)

Next ==
    \/ Tick
    \/ \E h \in Handlers : Authorize(h) \/ Handle(h)
    \/ GcBegins \/ Gc

Spec == Init /\ [][Next]_vars

-----------------------------------------------------------------------------
Buckets == [tokens: Int, last: 0 .. MaxClock]

\* Every variable has its type.
TypeOK ==
    /\ clock \in 0 .. MaxClock
    /\ DOMAIN b \subseteq Ips
    /\ b \in [DOMAIN b -> Buckets]
    /\ req \in [Handlers -> Requests \cup {Idle}]
    /\ sweep \in {None} \cup 0 .. MaxClock
    /\ routes \in 0 .. MaxRoutes
    /\ {load, spent} \subseteq [Ips -> Nat]
    /\ promise \in [Ips -> Int]

(***************************************************************************)
(* Handlers that passed the guard together fail together: only one of them *)
(* pays.  The wrong keys of an address that are let through and kept are   *)
(* bounded over every interval of time by what the guard holds, one more   *)
(* for every other handler, what a lag refills, and twice what is refilled *)
(* since for each handler: however they are interleaved, they do not grow  *)
(* with the requests.                                                      *)
(***************************************************************************)
FailuresBounded ==
    \A ip \in Ips :
        load[ip] <= Burst + (Cardinality(Handlers) - 1) * Unit + Rate * MaxLag

(***************************************************************************)
(* limiter.go:84: only failures count.  Whoever is blocked shares an       *)
(* address with someone that has used up the tokens with wrong keys; keys  *)
(* that are not sent, not permitted or could not be looked up block nobody.*)
(***************************************************************************)
BlockedEarned ==
    [][\A h \in Handlers : Blocked(h) =>
          spent[req[h].ip] + 2 * Rate * MaxLag
              > Burst - Unit]_vars

(***************************************************************************)
(* Retry-After is kept: a blocked address that comes when its wait is over *)
(* is not blocked, unless another failure of it was counted meanwhile.     *)
(***************************************************************************)
RetryHonoured ==
    [][\A h \in Handlers :
          Blocked(h) /\ promise[req[h].ip] # None =>
              req[h].now < promise[req[h].ip]]_vars
=============================================================================
