-------------------------------- MODULE SignIn --------------------------------
(***************************************************************************)
(* Signing in to the developer console with codes sent by e-mail:          *)
(* console/handlers_auth.go, its statements in console/pgstore.go and the  *)
(* hourly PurgeExpired of cmd/console.  What follows is in Sessions.       *)
(*                                                                         *)
(* All of it is about one e-mail address.  A handler is a sequence of      *)
(* statements, each a step of its own, with what it has read in between.   *)
(* Refusals that change nothing (limits of an IP, captcha, formats) leave  *)
(* a handler where it was and are no steps.                                *)
(***************************************************************************)
EXTENDS Integers, FiniteSets

CONSTANTS
    Handlers,       \* goroutines that serve requests
    CodeTTL,        \* otpTTL
    Cooldown,       \* otpCooldown
    Window,         \* the 10 minutes of otpPer10Min
    PerWindow,      \* otpPer10Min
    MaxAttempts,    \* otpMaxAttempts
    PurgeCode,      \* the day of PurgeExpired
    MaxLag,         \* bound: ticks a handler may take
    MaxClock,       \* bound: the end of the clock
    MaxCodes        \* bound: codes issued

HandlersAssumption == IsFiniteSet(Handlers) /\ Handlers # {}
LimitsAssumption == PerWindow \in Nat \ {0} /\ MaxAttempts \in Nat \ {0}
TimesAssumption ==
    /\ {CodeTTL, Cooldown, Window, PurgeCode, MaxLag} \subseteq Nat
    /\ Cooldown <= Window
    /\ Window <= PurgeCode
BoundsAssumption == {MaxClock, MaxCodes} \subseteq Nat

VARIABLES
    clock,
    codes,       \* dev_otps, by id
    issued,      \* the last id of dev_otps
    task,        \* task[h]: the step h takes next, and what it has read
    purge,       \* the time PurgeExpired was called with, NotRunning outside it
    wrong,       \* (observation) wrong[c]: guesses that code c refused, but
                 \* for those whose BumpOTPAttempts failed
    signed       \* (observation) signed[c]: sessions made with code c

tables == <<codes, issued>>
guesses == <<wrong, signed>>
vars == <<clock, tables, task, purge, guesses>>

Times == 0 .. MaxClock
CodeIds == 1 .. MaxCodes
NotRunning == -1
NoRow == [none |-> TRUE]
Rest == [do |-> "rest"]

Codes == [created: Times, expires: Nat, attempts: Nat, consumed: BOOLEAN]
Tasks ==
    [do: {"ask", "count", "store"}, at: Times]
        \cup [do: {"verify"}, at: Times, code: CodeIds, row: Codes]
        \cup [do: {"bump", "consume", "login"}, at: Times, code: CodeIds]

Init ==
    /\ clock = 0
    /\ codes = [c \in {} |-> NoRow]
    /\ issued = 0
    /\ task = [h \in Handlers |-> Rest]
    /\ purge = NotRunning
    /\ wrong = [c \in CodeIds |-> 0]
    /\ signed = [c \in CodeIds |-> 0]

\* A handler and the purge take MaxLag at most: every statement has a timeout.
Tick ==
    /\ clock < MaxClock
    /\ \A h \in Handlers : task[h] # Rest => clock < task[h].at + MaxLag
    /\ purge # NotRunning => clock < purge + MaxLag
    /\ clock' = clock + 1
    /\ UNCHANGED <<tables, task, purge, guesses>>

Goto(h, t) == task' = [task EXCEPT ![h] = t]
\* The map f with value v for key k, and without the keys K.
Put(f, k, v) == [x \in DOMAIN f \cup {k} |-> IF x = k THEN v ELSE f[x]]
Without(f, K) == [x \in DOMAIN f \ K |-> f[x]]

-----------------------------------------------------------------------------
(***************************************************************************)
(* handleRequestCode.  otpQuotaOK reads the clock, the latest code and the *)
(* number of recent codes; CreateOTP looks at neither.  Whether the mail   *)
(* is sent changes nothing here.                                           *)
(***************************************************************************)
Ask(h) ==
    /\ task[h] = Rest
    /\ Goto(h, [do |-> "ask", at |-> clock])
    /\ UNCHANGED <<clock, tables, purge, guesses>>

Latest == CHOOSE c \in DOMAIN codes : \A d \in DOMAIN codes : d <= c

ReadLast(h) ==
    /\ task[h].do = "ask"
    /\ Goto(h, IF /\ DOMAIN codes # {}
                  /\ task[h].at - codes[Latest].created < Cooldown
               THEN Rest ELSE [task[h] EXCEPT !.do = "count"])
    /\ UNCHANGED <<clock, tables, purge, guesses>>

\* Codes of the Window that ends at time t, or were made since.
Recent(t) == {c \in DOMAIN codes : codes[c].created >= t - Window}

QuotaUsedUp(t) == Cardinality(Recent(t)) >= PerWindow

CountCodes(h) ==
    /\ task[h].do = "count"
    /\ Goto(h, IF QuotaUsedUp(task[h].at) THEN Rest
               ELSE [do |-> "store", at |-> clock])
    /\ UNCHANGED <<clock, tables, purge, guesses>>

CreateOTP(h) ==
    /\ task[h].do = "store"
    /\ issued < MaxCodes
    /\ issued' = issued + 1
    /\ codes' = Put(codes, issued', [created |-> clock,
                                     expires |-> task[h].at + CodeTTL,
                                     attempts |-> 0, consumed |-> FALSE])
    /\ Goto(h, Rest)
    /\ UNCHANGED <<clock, purge, guesses>>

-----------------------------------------------------------------------------
(***************************************************************************)
(* handleVerify.  checkOTP reads the latest code, then the clock, compares,*)
(* and only then counts the attempt or consumes the code.                  *)
(***************************************************************************)
\* (mutant) goes on without a code when there is none
LatestOTPOrNone(h) ==
    LET c == IF DOMAIN codes # {} THEN Latest ELSE 0 IN
    /\ task[h] = Rest
    /\ Goto(h, [do |-> "verify", at |-> clock, code |-> c,
                row |-> IF c # 0 THEN codes[c] ELSE NoRow])
    /\ UNCHANGED <<clock, tables, purge, guesses>>
LatestOTP(h) ==
    /\ task[h] = Rest
    /\ DOMAIN codes # {}
    /\ Goto(h, [do |-> "verify", at |-> clock, code |-> Latest,
                row |-> codes[Latest]])
    /\ UNCHANGED <<clock, tables, purge, guesses>>

\* (mutant) one attempt too many
UsableOnceMore(row) ==
    /\ ~row.consumed
    /\ clock < row.expires
    /\ row.attempts <= MaxAttempts
Usable(row) ==
    /\ ~row.consumed
    /\ clock < row.expires
    /\ row.attempts < MaxAttempts

CodeRefused(h) ==
    /\ task[h].do = "verify"
    /\ ~Usable(task[h].row)
    /\ Goto(h, Rest)
    /\ UNCHANGED <<clock, tables, purge, guesses>>

CodeWrong(h) ==
    LET c == task[h].code IN
    /\ task[h].do = "verify"
    /\ Usable(task[h].row)
    /\ wrong' = [wrong EXCEPT ![c] = @ + 1]
    /\ Goto(h, [do |-> "bump", at |-> task[h].at, code |-> c])
    /\ UNCHANGED <<clock, tables, purge, signed>>

CodeRight(h) ==
    /\ task[h].do = "verify"
    /\ Usable(task[h].row)
    /\ Goto(h, [do |-> "consume", at |-> task[h].at, code |-> task[h].code])
    /\ UNCHANGED <<clock, tables, purge, guesses>>

BumpOTPAttempts(h) ==
    LET c == task[h].code IN
    /\ task[h].do = "bump"
    /\ codes' = IF c \in DOMAIN codes
                THEN [codes EXCEPT ![c].attempts = @ + 1] ELSE codes
    /\ Goto(h, Rest)
    /\ UNCHANGED <<clock, issued, purge, guesses>>

Consumable(c) == c \in DOMAIN codes /\ ~codes[c].consumed

\* ConsumeOTP: only the statement that changes the row goes on to sign in.
ConsumeOTP(h) ==
    LET c == task[h].code IN
    /\ task[h].do = "consume"
    /\ IF Consumable(c)
       THEN /\ codes' = [codes EXCEPT ![c].consumed = TRUE]
            /\ Goto(h, [task[h] EXCEPT !.do = "login"])
       ELSE /\ Goto(h, Rest)
            /\ UNCHANGED codes
    /\ UNCHANGED <<clock, issued, purge, guesses>>

\* The account exists or is created, then a session is made for it.
CreateSession(h) ==
    /\ task[h].do = "login"
    /\ signed' = [signed EXCEPT ![task[h].code] = @ + 1]
    /\ Goto(h, Rest)
    /\ UNCHANGED <<clock, tables, purge, wrong>>

-----------------------------------------------------------------------------
(***************************************************************************)
(* A statement fails and the handler ends; that an attempt could not be    *)
(* counted is passed over.  A statement that takes effect and is reported  *)
(* as failed is its own step, for ConsumeOTP with this one after it.       *)
(***************************************************************************)
Fails(h) ==
    LET t == task[h] IN
    /\ t # Rest
    /\ Goto(h, Rest)
    /\ wrong' = IF t.do = "bump" THEN [wrong EXCEPT ![t.code] = @ - 1]
                ELSE wrong
    /\ UNCHANGED <<clock, tables, purge, signed>>

-----------------------------------------------------------------------------
(***************************************************************************)
(* PurgeExpired reads the clock, deletes sessions, then codes.             *)
(***************************************************************************)
PurgeExpired ==
    /\ purge = NotRunning
    /\ purge' = clock
    /\ UNCHANGED <<clock, tables, task, guesses>>

PurgeCodes ==
    /\ purge # NotRunning
    /\ purge' = NotRunning
    /\ codes' = Without(codes,
                   {c \in DOMAIN codes : codes[c].expires < purge - PurgeCode})
    /\ UNCHANGED <<clock, issued, task, guesses>>

PurgeFails ==
    /\ purge # NotRunning
    /\ purge' = NotRunning
    /\ UNCHANGED <<clock, tables, task, guesses>>

RequestCode(h) == Ask(h) \/ ReadLast(h) \/ CountCodes(h) \/ CreateOTP(h)

Verify(h) ==
    \/ LatestOTP(h)
    \/ CodeRefused(h)
    \/ CodeWrong(h)
    \/ CodeRight(h)
    \/ BumpOTPAttempts(h)
    \/ ConsumeOTP(h)
    \/ CreateSession(h)

Next ==
    \/ Tick
    \/ \E h \in Handlers : RequestCode(h) \/ Verify(h) \/ Fails(h)
    \/ PurgeExpired
    \/ PurgeCodes
    \/ PurgeFails

Spec == Init /\ [][Next]_vars

-----------------------------------------------------------------------------
TypeOK ==
    /\ clock \in Times
    /\ issued \in 0 .. MaxCodes
    /\ DOMAIN codes \subseteq 1 .. issued
    /\ codes \in [DOMAIN codes -> Codes]
    /\ task \in [Handlers -> Tasks \cup {Rest}]
    /\ purge \in {NotRunning} \cup Times
    /\ wrong \in [CodeIds -> Nat]
    /\ signed \in [CodeIds -> Nat]

(***************************************************************************)
(* Six digits must not be guessed.  The attempts are read, compared and    *)
(* counted in three statements, so handlers that read together guess       *)
(* together: a code takes fewer wrong guesses than MaxAttempts and the     *)
(* handlers there are, those a failed statement did not count left aside.  *)
(***************************************************************************)
GuessesBounded ==
    \A c \in CodeIds :
        wrong[c] <= MaxAttempts - 1 + Cardinality(Handlers)

(***************************************************************************)
(* A mailbox is not flooded: in any Window no more codes are made than     *)
(* PerWindow and the other handlers that counted before they were stored.  *)
(***************************************************************************)
CodesBounded ==
    \A c \in DOMAIN codes :
        Cardinality({d \in DOMAIN codes :
                        codes[d].created \in
                            (codes[c].created - Window) .. codes[c].created})
            <= PerWindow + Cardinality(Handlers) - 1

\* A code signs in once, however many requests bring it at the same time.
OneSessionPerCode == \A c \in CodeIds : signed[c] <= 1
=============================================================================
