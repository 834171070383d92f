------------------------------- MODULE Sessions -------------------------------
(***************************************************************************)
(* Sessions of the developer console: the middleware of                    *)
(* console/service.go, handleLogout, their statements in                   *)
(* console/pgstore.go and the hourly PurgeExpired of cmd/console.  Login   *)
(* is the last step of SignIn.                                             *)
(*                                                                         *)
(* A request reads its session, then the clock, and writes or deletes the  *)
(* row in a statement of its own, with requests of the same session and    *)
(* the purge between.  The tokens are random: each is used once.           *)
(***************************************************************************)
EXTENDS Integers, FiniteSets

CONSTANTS
    Handlers,       \* goroutines that serve requests
    Absolute,       \* sessionAbsolute
    IdleLimit,      \* sessionIdle
    TouchEvery,     \* touchEvery
    PurgeIdle,      \* the 7 days of PurgeExpired
    MaxLag,         \* bound: ticks between two steps of a request
    MaxClock,       \* bound: the end of the clock
    MaxSessions     \* bound: sessions made

HandlersAssumption == IsFiniteSet(Handlers) /\ Handlers # {}
TimesAssumption ==
    /\ {Absolute, IdleLimit, TouchEvery, PurgeIdle, MaxLag} \subseteq Nat
    /\ IdleLimit <= PurgeIdle
    /\ 2 * MaxLag <= TouchEvery
BoundsAssumption == {MaxClock, MaxSessions} \subseteq Nat

VARIABLES
    clock,
    sessions,    \* dev_sessions, by token
    made,        \* the last token
    task,        \* task[h]: the step h takes next, and what it has read
    purge,       \* the time PurgeExpired was called with, NotRunning outside it
    used,        \* (observation) used[t]: when session t was last accepted
    until,       \* (observation) until[t]: when t ends at the latest
    loggedOut,   \* (observation) sessions that were logged out
    lax          \* (observation) sessions once unused for longer than Steady,
                 \* or with a TouchSession that failed

table == <<sessions, made>>
uses == <<used, until, loggedOut, lax>>
vars == <<clock, table, task, purge, uses>>

Times == 0 .. MaxClock
Tokens == 1 .. MaxSessions
NotRunning == -1
NoRow == [none |-> TRUE]
Rest == [do |-> "rest"]

Sessions == [expires: Nat, lastSeen: Times]
Tasks ==
    [do: {"session"}, at: Times, token: Tokens, row: Sessions \cup {NoRow}]
        \cup [do: {"end", "touch", "serve"}, at: Times, token: Tokens]

Init ==
    /\ clock = 0
    /\ sessions = [t \in {} |-> NoRow]
    /\ made = 0
    /\ task = [h \in Handlers |-> Rest]
    /\ purge = NotRunning
    /\ used = [t \in Tokens |-> 0]
    /\ until = [t \in Tokens |-> 0]
    /\ loggedOut = {}
    /\ lax = {}

\* Every statement has a timeout.
Tick ==
    /\ clock < MaxClock
    /\ \A h \in Handlers : task[h] # Rest => clock < task[h].at + MaxLag
    /\ purge # NotRunning => clock < purge + MaxLag
    /\ clock' = clock + 1
    /\ UNCHANGED <<table, task, purge, uses>>

Goto(h, t) == task' = [task EXCEPT ![h] = t]
\* The map f with value v for key k, and without the keys K.
Put(f, k, v) == [x \in DOMAIN f \cup {k} |-> IF x = k THEN v ELSE f[x]]
Without(f, K) == [x \in DOMAIN f \ K |-> f[x]]

-----------------------------------------------------------------------------
\* The end of handleVerify.  expires_at may be from up to MaxLag ago.
Login(h) ==
    /\ task[h] = Rest
    /\ made < MaxSessions
    /\ made' = made + 1
    /\ \E read \in Times :
          /\ read <= clock /\ clock <= read + MaxLag
          /\ sessions' = Put(sessions, made', [expires |-> read + Absolute,
                                               lastSeen |-> clock])
          /\ until' = [until EXCEPT ![made'] = read + Absolute]
    /\ used' = [used EXCEPT ![made'] = clock]
    /\ UNCHANGED <<clock, task, purge, loggedOut, lax>>

(***************************************************************************)
(* A request with a session: authed.  SessionByHash comes first, then the  *)
(* clock; last_seen_at is written only if it is older than TouchEvery.     *)
(***************************************************************************)
SessionByHash(h, t) ==
    /\ task[h] = Rest
    /\ t <= made
    /\ Goto(h, [do |-> "session", at |-> clock, token |-> t,
                row |-> IF t \in DOMAIN sessions THEN sessions[t] ELSE NoRow])
    /\ UNCHANGED <<clock, table, purge, uses>>

Alive(row) ==
    /\ row # NoRow
    /\ clock < row.expires
    /\ clock - row.lastSeen <= IdleLimit

\* 401, and a row that has run out is deleted.
Unauthenticated(h) ==
    LET t == task[h] IN
    /\ t.do = "session"
    /\ ~Alive(t.row)
    /\ Goto(h, IF t.row = NoRow THEN Rest
               ELSE [do |-> "end", at |-> t.at, token |-> t.token])
    /\ UNCHANGED <<clock, table, purge, uses>>

Steady == IdleLimit - TouchEvery - 2 * MaxLag
Stale(row) == clock - row.lastSeen > TouchEvery

\* What may still refuse it (an account that cannot be read or is suspended,
\* a CSRF token) writes nothing: it is Fails and Serve.
Authenticated(h) ==
    LET t == task[h] IN
    /\ t.do = "session"
    /\ Alive(t.row)
    /\ Goto(h, [do |-> IF Stale(t.row) THEN "touch" ELSE "serve",
                at |-> clock, token |-> t.token])
    /\ used' = [used EXCEPT ![t.token] = clock]
    /\ lax' = IF clock - used[t.token] <= Steady THEN lax
              ELSE lax \cup {t.token}
    /\ UNCHANGED <<clock, table, purge, until, loggedOut>>

\* (mutants) a row that is gone is inserted again; the wrong time is written
TouchedOrInserted(t, at) ==
    Put(sessions, t, [expires |-> until[t], lastSeen |-> at])
TouchedAhead(t, at) ==
    IF t \in DOMAIN sessions
    THEN [sessions EXCEPT ![t].lastSeen = at + IdleLimit] ELSE sessions
Touched(t, at) ==
    IF t \in DOMAIN sessions THEN [sessions EXCEPT ![t].lastSeen = at]
    ELSE sessions

TouchSession(h) ==
    /\ task[h].do = "touch"
    /\ sessions' = Touched(task[h].token, task[h].at)
    /\ Goto(h, [task[h] EXCEPT !.do = "serve"])
    /\ UNCHANGED <<clock, made, purge, uses>>

\* The handler proper; none of them but handleLogout writes here.
Serve(h) ==
    /\ task[h].do = "serve"
    /\ Goto(h, Rest)
    /\ UNCHANGED <<clock, table, purge, uses>>

DeleteSession(h) == sessions' = Without(sessions, {task[h].token})

Logout(h) ==
    /\ task[h].do = "serve"
    /\ DeleteSession(h)
    /\ loggedOut' = loggedOut \cup {task[h].token}
    /\ Goto(h, Rest)
    /\ UNCHANGED <<clock, made, purge, used, until, lax>>

EndSession(h) ==
    /\ task[h].do = "end"
    /\ DeleteSession(h)
    /\ Goto(h, Rest)
    /\ UNCHANGED <<clock, made, purge, uses>>

(***************************************************************************)
(* A statement fails.  A session not read ends the request; one not        *)
(* touched and one not deleted are passed over (a logout that fails is     *)
(* Serve).                                                                 *)
(***************************************************************************)
Fails(h) ==
    LET t == task[h] IN
    /\ t # Rest
    /\ t.do # "serve"
    /\ Goto(h, IF t.do = "touch" THEN [t EXCEPT !.do = "serve"] ELSE Rest)
    /\ lax' = IF t.do = "touch" THEN lax \cup {t.token} ELSE lax
    /\ UNCHANGED <<clock, table, purge, used, until, loggedOut>>

-----------------------------------------------------------------------------
(***************************************************************************)
(* PurgeExpired reads the clock and deletes with that time; what it        *)
(* deletes next are codes (SignIn).                                        *)
(***************************************************************************)
PurgeExpired ==
    /\ purge = NotRunning
    /\ purge' = clock
    /\ UNCHANGED <<clock, table, task, uses>>

\* (mutant) another interval: minutes for days
RunOutSoon(s, now) == s.expires < now \/ s.lastSeen < now - TouchEvery
RunOut(s, now) == s.expires < now \/ s.lastSeen < now - PurgeIdle

PurgeSessions ==
    /\ purge # NotRunning
    /\ purge' = NotRunning
    /\ sessions' = Without(sessions,
                      {t \in DOMAIN sessions : RunOut(sessions[t], purge)})
    /\ UNCHANGED <<clock, made, task, uses>>

PurgeFails ==
    /\ purge # NotRunning
    /\ purge' = NotRunning
    /\ UNCHANGED <<clock, table, task, uses>>

Authed(h) ==
    \/ Login(h)
    \/ \E t \in Tokens : SessionByHash(h, t)
    \/ Unauthenticated(h)
    \/ Authenticated(h)
    \/ TouchSession(h)
    \/ Serve(h)
    \/ Logout(h)
    \/ EndSession(h)
    \/ Fails(h)

Next ==
    \/ Tick
    \/ \E h \in Handlers : Authed(h)
    \/ PurgeExpired
    \/ PurgeSessions
    \/ PurgeFails

Spec == Init /\ [][Next]_vars

-----------------------------------------------------------------------------
TypeOK ==
    /\ clock \in Times
    /\ made \in 0 .. MaxSessions
    /\ DOMAIN sessions \subseteq 1 .. made
    /\ sessions \in [DOMAIN sessions -> Sessions]
    /\ \A t \in DOMAIN sessions : sessions[t].lastSeen <= clock
    /\ task \in [Handlers -> Tasks \cup {Rest}]
    /\ purge \in {NotRunning} \cup Times
    /\ used \in [Tokens -> Times]
    /\ until \in [Tokens -> Nat]
    /\ loggedOut \subseteq 1 .. made
    /\ lax \subseteq 1 .. made

\* Logging out is final: a request still under way does not bring it back.
LoggedOutIsGone == loggedOut \cap DOMAIN sessions = {}

(***************************************************************************)
(* Nobody is thrown out too early: whoever uses a session at least every   *)
(* Steady ticks keeps it to its end, unless he logs out or a TouchSession  *)
(* fails, although last_seen_at is written only when it is TouchEvery old, *)
(* late and out of order, rows that look dead are deleted, and the purge   *)
(* runs.                                                                   *)
(***************************************************************************)
KeptAlive ==
    [][\A h \in Handlers :
          Unauthenticated(h) =>
              LET t == task[h].token IN
              \/ t \in loggedOut \cup lax
              \/ clock - used[t] > Steady
              \/ clock >= until[t]]_vars
=============================================================================
