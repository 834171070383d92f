------------------------------ MODULE MCLimiter ------------------------------
(***************************************************************************)
(* Small instances of the two kinds of buckets: those of Limiter, and the  *)
(* guard against wrong keys with the rest of the gate (Gate).  They share  *)
(* nothing but the package, so one run explores them side by side: part    *)
(* says which of them moves.                                               *)
(*                                                                         *)
(* Limiter: a request costs 3 tokens.  Both plans fill their burst, of 2   *)
(* requests and of 1, just within the TTL.  Gateway: a wrong key costs 2,  *)
(* and the guard holds two of them.                                        *)
(***************************************************************************)
EXTENDS Limiter, TLC

CONSTANTS
    c1, c2, k1, k2, k3,
    Handlers, Ips, Burst, Rate, FailUnit, RetryAfter, GuardTTL, MaxRoutes,
    GateMaxClock

VARIABLES
    part,
    gateClock, buckets, req, gateSweep, routes, gateLoad, spent, gatePromise

MCPaid == [rate |-> 2, burst |-> 6]
MCFree == [rate |-> 1, burst |-> 3]
MCCallers == {c1, c2}
MCPlans == {MCPaid, MCFree}
MCIds == {k1, k2, k3}
MCPlanOf == (k1 :> MCPaid) @@ (k2 :> MCFree) @@ (k3 :> MCFree)
MCSymmetry ==
    Permutations(MCCallers) \cup Permutations({k2, k3}) \cup Permutations(Handlers)

Gate == INSTANCE Gateway
    WITH Unit <- FailUnit, TTL <- GuardTTL, MaxClock <- GateMaxClock,
         clock <- gateClock, b <- buckets, sweep <- gateSweep,
         load <- gateLoad, promise <- gatePromise

ASSUME GateAssumption ==
    Gate!HandlersAssumption /\ Gate!GuardAssumption /\ Gate!TimesAssumption

gateVars == <<gateClock, buckets, req, gateSweep, routes, gateLoad, spent,
              gatePromise>>

BucketsInit ==
    /\ part \in {"limiter", "gate"}
    /\ Init
    /\ Gate!Init

LimiterStep == part = "limiter" /\ Next /\ UNCHANGED <<part, gateVars>>
GateStep == part = "gate" /\ Gate!Next /\ UNCHANGED <<part, vars>>

BucketsNext == LimiterStep \/ GateStep

BucketsSpec == BucketsInit /\ [][BucketsNext]_<<part, vars, gateVars>>

-----------------------------------------------------------------------------
(***************************************************************************)
(* However requests of one address overlap, their wrong keys are bounded   *)
(* over every interval; and the gate has its types.                        *)
(***************************************************************************)
GateRight == part = "gate" => Gate!TypeOK /\ Gate!FailuresBounded

(***************************************************************************)
(* Who is told to wait and waits is let in, by the limiter and by the      *)
(* guard, and the guard tells it only those whose address sent wrong keys. *)
(***************************************************************************)
RetriesRight == RetryHonoured /\ Gate!RetryHonoured /\ Gate!BlockedEarned
=============================================================================
