------------------------------ MODULE Resolver -------------------------------
(***************************************************************************)
(* The key cache of the /v2 API: devplatform/resolver.go, Resolver.Resolve,*)
(* against the rows of api_keys and dev_accounts that the console, the     *)
(* staff panel and the billing change meanwhile.                           *)
(*                                                                         *)
(* Resolve reads the clock once, then takes its mutex, asks the database   *)
(* without it and takes it again to store what came back: four steps, and  *)
(* a slow answer may be stored over a newer one.                           *)
(***************************************************************************)
EXTENDS Integers, FiniteSets

CONSTANTS
    Callers,         \* goroutines that serve requests
    Secrets,         \* well-formed keys, as clients send them
    AccountStates,   \* what LookupKey says of the account of a key
    PosTTL, NegTTL,  \* Resolver.posTTL, Resolver.negTTL
    MaxEntries,      \* Resolver.maxEntries
    Grace,           \* RotationGrace of the console
    MaxClock,        \* bound: the end of the clock
    MaxChanges       \* bound: changes of the rows

ASSUME TTLAssumption == PosTTL \in Nat /\ NegTTL \in Nat /\ Grace \in Nat
ASSUME MaxEntriesAssumption == MaxEntries \in Nat \ {0}
ASSUME SecretsAssumption == IsFiniteSet(Secrets)
ASSUME BoundsAssumption == MaxClock \in Nat /\ MaxChanges \in Nat

VARIABLES
    clock,
    row,       \* row[k]: the row of key k in the database
    changes,
    pos, neg,  \* Resolver.pos, Resolver.neg
    call,      \* call[c]: where c is in Resolve
    left       \* (observation) left[k]: rows k once had, with when it lost them

vars == <<clock, row, changes, pos, neg, call, left>>
dbVars == <<row, changes, left>>

Times == 0 .. MaxClock
Never == MaxClock + Grace + 1     \* expires_at IS NULL
Absent == [found |-> FALSE]
Records == [found: {TRUE}, revoked: BOOLEAN, expires: 0 .. Never,
            account: AccountStates]
Rows == Records \cup {Absent}

Idle == [state |-> "idle"]
Calls == [state: {"called", "asking"}, key: Secrets, now: Times]
            \cup [state: {"read", "done"}, key: Secrets, now: Times, rec: Rows]
            \cup [state: {"failed"}, key: Secrets, now: Times]

\* ErrInvalidKey whatever the cache says: not there, revoked or expired.
Dead(rec, now) == ~rec.found \/ rec.revoked \/ now >= rec.expires

Init ==
    /\ clock = 0
    /\ row = [k \in Secrets |-> Absent]
    /\ changes = 0
    /\ pos = [k \in {} |-> Absent]
    /\ neg = [k \in {} |-> 0]
    /\ call = [c \in Callers |-> Idle]
    /\ left = [k \in Secrets |-> {}]

Tick ==
    /\ clock < MaxClock
    /\ clock' = clock + 1
    /\ UNCHANGED <<dbVars, pos, neg, call>>

-----------------------------------------------------------------------------
(***************************************************************************)
(* The other programs write the rows.  A revoked key stays revoked and a   *)
(* row is never deleted; an expiry only moves to an earlier time.          *)
(***************************************************************************)
Change(k, rec) ==
    /\ changes < MaxChanges
    /\ changes' = changes + 1
    /\ row' = [row EXCEPT ![k] = rec]
    /\ left' = [left EXCEPT ![k] = @ \cup {[rec |-> row[k], at |-> clock]}]
    /\ UNCHANGED <<clock, pos, neg, call>>

\* Console CreateKey, and the second half of RotateKey.
CreateKey(k, account) ==
    /\ ~row[k].found
    /\ Change(k, [found |-> TRUE, revoked |-> FALSE, expires |-> Never,
                  account |-> account])

\* RevokeKey of the console and of the staff panel.
RevokeKey(k) ==
    /\ row[k].found /\ ~row[k].revoked
    /\ Change(k, [row[k] EXCEPT !.revoked = TRUE])

\* RotateKey gives the old key Grace more to live, or what it has left.
RotateKey(k) ==
    /\ row[k].found /\ ~row[k].revoked
    /\ Change(k, [row[k] EXCEPT !.expires =
                     IF @ < clock + Grace THEN @ ELSE clock + Grace])

\* Suspended, subscribed, overdue: the account of the key changes.
AccountChanges(k, account) ==
    /\ row[k].found /\ row[k].account # account
    /\ Change(k, [row[k] EXCEPT !.account = account])

-----------------------------------------------------------------------------
Resolve(c, k) ==
    /\ call[c].state \in {"idle", "done", "failed"}
    /\ call' = [call EXCEPT ![c] = [state |-> "called", key |-> k, now |-> clock]]
    /\ UNCHANGED <<clock, dbVars, pos, neg>>

\* (mutants) what is known stays known; an entry of any age will do
KnownForEver(c) == call[c].key \in DOMAIN neg
HitAtAnyAge(c) == call[c].key \in DOMAIN pos
Known(c)  == call[c].key \in DOMAIN neg /\ call[c].now < neg[call[c].key]
Hit(c)    == /\ call[c].key \in DOMAIN pos
             /\ call[c].now - pos[call[c].key].at <= PosTTL
Answer(c, rec) == call' = [call EXCEPT ![c] =
                      [state |-> "done", key |-> @.key, now |-> @.now, rec |-> rec]]

\* The map f with value v for key k, and without key k.
Put(f, k, v) == [x \in DOMAIN f \cup {k} |-> IF x = k THEN v ELSE f[x]]
Without(f, k) == [x \in DOMAIN f \ {k} |-> f[x]]

\* First critical section: the negative cache knows the key.
RefusedByCache(c) ==
    /\ call[c].state = "called"
    /\ Known(c)
    /\ Answer(c, Absent)
    /\ UNCHANGED <<clock, dbVars, pos, neg>>

\* First critical section: a positive entry, not too old, answers.
AnsweredByCache(c) ==
    /\ call[c].state = "called"
    /\ ~Known(c)
    /\ Hit(c)
    /\ Answer(c, pos[call[c].key].rec)
    /\ neg' = Without(neg, call[c].key)
    /\ UNCHANGED <<clock, dbVars, pos>>

\* First critical section: entries that have run out are dropped.
Missed(c) ==
    /\ call[c].state = "called"
    /\ ~Known(c)
    /\ ~Hit(c)
    /\ neg' = Without(neg, call[c].key)
    /\ pos' = Without(pos, call[c].key)
    /\ call' = [call EXCEPT ![c].state = "asking"]
    /\ UNCHANGED <<clock, dbVars>>

\* LookupKey: one SELECT over key and account.
LookupKey(c) ==
    /\ call[c].state = "asking"
    /\ call' = [call EXCEPT ![c] = [state |-> "read", key |-> @.key,
                                    now |-> @.now, rec |-> row[@.key]]]
    /\ UNCHANGED <<clock, dbVars, pos, neg>>

\* A database error is neither cached nor taken for an invalid key.
LookupFails(c) ==
    /\ call[c].state = "asking"
    /\ call' = [call EXCEPT ![c].state = "failed"]
    /\ UNCHANGED <<clock, dbVars, pos, neg>>

Size == Cardinality(DOMAIN pos) + Cardinality(DOMAIN neg)
\* (mutant) one entry too many
AfterEvictOffByOne(f) == IF Size > MaxEntries THEN [k \in {} |-> Absent] ELSE f
\* evictIfFull empties both maps.
AfterEvict(f) == IF Size >= MaxEntries THEN [k \in {} |-> Absent] ELSE f

\* (mutants) the time of the answer, or of the end of the entry, is kept
EntryLate(c) == [rec |-> call[c].rec, at |-> clock]
EntryExpiry(c) == [rec |-> call[c].rec, at |-> call[c].now + PosTTL]
\* A positive entry has the time of the call, not that of the answer.
Entry(c) == [rec |-> call[c].rec, at |-> call[c].now]

\* Second critical section: the answer is stored.
Store(c) ==
    LET k == call[c].key
        rec == call[c].rec
        now == call[c].now
    IN  /\ call[c].state = "read"
        /\ IF rec.found
           THEN /\ pos' = Put(AfterEvict(pos), k, Entry(c))
                /\ neg' = AfterEvict(neg)
           ELSE /\ pos' = AfterEvict(pos)
                /\ neg' = Put(AfterEvict(neg), k, now + NegTTL)
        /\ Answer(c, rec)
        /\ UNCHANGED <<clock, dbVars>>

CallStep(c) ==
    \/ \E k \in Secrets : Resolve(c, k)
    \/ RefusedByCache(c)
    \/ AnsweredByCache(c)
    \/ Missed(c)
    \/ LookupKey(c)
    \/ LookupFails(c)
    \/ Store(c)

RowStep(k) ==
    \/ \E account \in AccountStates : CreateKey(k, account)
    \/ RevokeKey(k)
    \/ RotateKey(k)
    \/ \E account \in AccountStates : AccountChanges(k, account)

Next ==
    \/ Tick
    \/ \E k \in Secrets : RowStep(k)
    \/ \E c \in Callers : CallStep(c)

Spec == Init /\ [][Next]_vars

-----------------------------------------------------------------------------
TypeOK ==
    /\ clock \in Times
    /\ row \in [Secrets -> Rows]
    /\ changes \in 0 .. MaxChanges
    /\ DOMAIN pos \subseteq Secrets
    /\ pos \in [DOMAIN pos -> [rec: Records, at: Times]]
    /\ DOMAIN neg \subseteq Secrets
    /\ neg \in [DOMAIN neg -> 0 .. (MaxClock + NegTTL)]
    /\ call \in [Callers -> Calls \cup {Idle}]
    /\ left \in [Secrets -> SUBSET [rec: Rows, at: Times]]

\* Key k had this row at some time not before t.
HadSince(k, rec, t) ==
    \/ row[k] = rec
    \/ \E h \in left[k] : h.rec = rec /\ h.at >= t

\* How old an answer may be when it is given.
Age(rec) == IF rec.found THEN PosTTL ELSE NegTTL

\* What Resolve returned: a key, or ErrInvalidKey.
Accepted(c) == call[c].state = "done" /\ ~Dead(call[c].rec, call[c].now)
Refused(c)  == call[c].state = "done" /\ Dead(call[c].rec, call[c].now)

(***************************************************************************)
(* Whatever a request is granted on (not revoked, its plan, its account's  *)
(* state) was in the database at most PosTTL before the request came, also *)
(* when a slow lookup overwrites the entry a later one has stored.         *)
(***************************************************************************)
FreshAnswer ==
    \A c \in Callers : Accepted(c) =>
        HadSince(call[c].key, call[c].rec, call[c].now - PosTTL)

(***************************************************************************)
(* A key is refused as invalid only if it was: a key that exists is never  *)
(* taken for unknown later than NegTTL after its creation.                 *)
(***************************************************************************)
RefusedRightly ==
    \A c \in Callers : Refused(c) =>
        HadSince(call[c].key, call[c].rec, call[c].now - Age(call[c].rec))

\* Whatever is answered, yes or no, was true of the database not long ago.
AnswersRight == FreshAnswer /\ RefusedRightly

(***************************************************************************)
(* resolver.go: a revoked key may go on working for posTTL, no longer; and *)
(* nobody who comes later than that is let in again.                       *)
(***************************************************************************)
RevokedAt(k) == {h.at : h \in {g \in left[k] : g.rec.found /\ ~g.rec.revoked}}
RevocationBounded ==
    \A c \in Callers :
        Accepted(c) /\ row[call[c].key].revoked =>
            \E t \in RevokedAt(call[c].key) : call[c].now <= t + PosTTL

\* The two maps together never exceed the limit on memory.
CacheBounded == Size <= MaxEntries

-----------------------------------------------------------------------------
(***************************************************************************)
(* What the answers rest on: an entry, and an answer under way, is a row   *)
(* the key had at the time the entry says or later.                        *)
(***************************************************************************)
ClockInv ==
    /\ \A c \in Callers : call[c].state # "idle" => call[c].now <= clock
    /\ \A k \in DOMAIN pos : pos[k].at <= clock
    /\ \A k \in DOMAIN neg : neg[k] <= clock + NegTTL

AnswerInv ==
    /\ \A k \in DOMAIN pos : HadSince(k, pos[k].rec, pos[k].at)
    /\ \A k \in DOMAIN neg : HadSince(k, Absent, neg[k] - NegTTL)
    /\ \A c \in Callers :
          /\ call[c].state = "read" =>
                HadSince(call[c].key, call[c].rec, call[c].now)
          /\ call[c].state = "done" =>
                HadSince(call[c].key, call[c].rec, call[c].now - Age(call[c].rec))

CacheInv == ClockInv /\ AnswerInv
=============================================================================
