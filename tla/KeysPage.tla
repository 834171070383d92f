------------------------------- MODULE KeysPage -------------------------------
(***************************************************************************)
(* The page of the API keys, console/src/app/(app)/keys/page.tsx, and the  *)
(* handlers it calls, internal/console/handlers_keys.go: keys are made,    *)
(* rotated and revoked while lists of them are still on their way.  A key  *)
(* is a number.  keyRoom counts the keys in a step of its own, before the  *)
(* key is inserted.  The window that shows the secret is left out, and a   *)
(* page that is left: it opens again with a list of its own.               *)
(***************************************************************************)
EXTENDS Naturals, Sequences, FiniteSets

CONSTANTS
    None,
    Keys,          \* the keys that are made
    Slots,         \* the calls in flight
    MaxActive,     \* maxActiveKeys of the server
    MaxLoads       \* bound: lists on their way

Statuses == {"none", "active", "revoked"}

VARIABLES
    keys,       \* the table: the status of each key of the account
    list,       \* what the page shows of it, None before the first answer
    loads,      \* the lists on their way, in the order they were asked for
    calls,      \* the calls in flight, None for a free slot
    showCreate, \* the form of a new key: closed, open, or the slot it waits for
    fresh,      \* (observation) the list is the one asked for last
    unheard,    \* (observation) a change that nobody was told of since
    crowded     \* (observation) two calls were between the count and the key

server == <<keys, calls>>
page == <<list, loads, showCreate>>
observed == <<fresh, unheard, crowded>>
vars == <<server, page, observed>>

\* A call: its key (None for a new one) and how far it is.
Calls == [op: {"create", "rotate", "revoke"}, key: Keys \cup {None},
          phase: {"asked", "counted", "done"}]
\* A list: what the server has read (None: not yet), and whether it is the last
\* one that was asked for.
Lists == [Keys -> Statuses]
Loads == [rows: Lists \cup {None}, last: BOOLEAN]

\* What is assumed of the constants.
ConstantsAssumption ==
    /\ MaxActive \in Nat /\ MaxLoads \in Nat \ {0}
    /\ None \notin Keys \cup Slots \cup Calls \cup Lists

Active(rows) == IF rows = None THEN {} ELSE {k \in Keys : rows[k] = "active"}
Room == Cardinality(Active(keys)) < MaxActive

Init ==
    /\ keys = [k \in Keys |-> "none"]
    /\ list = None
    /\ loads = <<[rows |-> None, last |-> TRUE]>>
    /\ calls = [s \in Slots |-> None]
    /\ showCreate = "closed"
    /\ fresh = FALSE
    /\ unheard = FALSE
    /\ crowded = FALSE

--------------------------------------------------------------------------
(* load: asked for when the page opens and after every change.             *)

Ask ==
    /\ Len(loads) < MaxLoads
    /\ loads' = Append([i \in DOMAIN loads |-> [loads[i] EXCEPT !.last = FALSE]],
                       [rows |-> None, last |-> TRUE])
    /\ fresh' = FALSE
    /\ unheard' = FALSE

\* ListKeys.
ListKeys(i) ==
    /\ loads[i].rows = None
    /\ loads' = [loads EXCEPT ![i].rows = keys]
    /\ UNCHANGED <<server, list, showCreate, observed>>

Without(i) == SubSeq(loads, 1, i - 1) \o SubSeq(loads, i + 1, Len(loads))

\* The answers come in any order, and each replaces the list.
ListArrives(i) ==
    /\ loads[i].rows # None
    /\ list' = loads[i].rows
    /\ fresh' = loads[i].last
    /\ loads' = Without(i)
    /\ UNCHANGED <<server, showCreate, unheard, crowded>>

\* Only an error is shown; the list stays what it was.
ListFails(i) ==
    /\ loads[i].rows = None
    /\ loads' = Without(i)
    /\ UNCHANGED <<server, list, showCreate, observed>>

--------------------------------------------------------------------------
(* What the developer does.                                                *)

Call(op, k) ==
    \E s \in Slots :
        /\ calls[s] = None
        /\ calls' = [calls EXCEPT ![s] =
              [op |-> op, key |-> k, phase |-> "asked"]]
        /\ showCreate' = IF op = "create" THEN s ELSE showCreate

\* The button is off when the list shows as many keys as there may be.
OpenCreate ==
    /\ showCreate = "closed"
    /\ Cardinality(Active(list)) < MaxActive
    /\ showCreate' = "open"
    /\ UNCHANGED <<server, list, loads, observed>>

\* Also while the key is being made.
CloseCreate ==
    /\ showCreate # "closed"
    /\ showCreate' = "closed"
    /\ UNCHANGED <<server, list, loads, observed>>

\* submit of the form.
submit ==
    /\ showCreate = "open"
    /\ Call("create", None)
    /\ UNCHANGED <<keys, list, loads, observed>>

\* rotate and revoke of a row: its buttons are off while one of them runs.
Row(op, k) ==
    /\ k \in Active(list)
    /\ \A s \in Slots : calls[s] # None => calls[s].key # k
    /\ Call(op, k)
    /\ UNCHANGED <<keys, list, loads, observed>>

--------------------------------------------------------------------------
(* The server.                                                             *)

Asked(s, ops, phase) ==
    /\ calls[s] # None
    /\ calls[s].op \in ops
    /\ calls[s].phase = phase

Outcome(s, phase) == calls' = [calls EXCEPT ![s].phase = phase]

Counted(s) ==
    /\ Outcome(s, "counted")
    /\ crowded' = (crowded \/ \E r \in Slots : calls[r] # None /\ calls[r].phase = "counted")
    /\ UNCHANGED <<keys, page, fresh, unheard>>

\* (mutant) a rotation is not counted.
keyRoomOfNew(s) ==
    /\ Asked(s, {"create", "rotate"}, "asked")
    /\ IF calls[s].op = "rotate" THEN keys[calls[s].key] = "active" ELSE Room
    /\ Counted(s)
\* activeKey of a rotation, and keyRoom.  A call that is refused here or later
\* stays as it is until its answer arrives: see Fails.
keyRoom(s) ==
    /\ Asked(s, {"create", "rotate"}, "asked")
    /\ calls[s].op = "rotate" => keys[calls[s].key] = "active"
    /\ Room
    /\ Counted(s)

\* The key is inserted.
Made(s, k) ==
    /\ keys[k] = "none"
    /\ keys' = [keys EXCEPT ![k] = "active"]
    /\ Outcome(s, "done")
    /\ UNCHANGED <<page, observed>>

CreateKey(s) ==
    /\ Asked(s, {"create"}, "counted")
    /\ \E k \in Keys : Made(s, k)

\* One transaction; the old key stays active until it expires.
RotateKey(s) ==
    /\ Asked(s, {"rotate"}, "counted")
    /\ keys[calls[s].key] = "active"
    /\ \E k \in Keys : Made(s, k)

RevokeKey(s) ==
    /\ Asked(s, {"revoke"}, "asked")
    /\ keys[calls[s].key] = "active"
    /\ keys' = [keys EXCEPT ![calls[s].key] = "revoked"]
    /\ Outcome(s, "done")
    /\ UNCHANGED <<page, observed>>

--------------------------------------------------------------------------
(* The answers.                                                            *)

\* The form shows the error, and its button works again.
Settled(s) == showCreate' = IF showCreate = s THEN "open" ELSE showCreate

\* onCreated, onSecret and onChanged.  They are the functions of the page, so
\* that they are called even when the form is closed; a form that was opened
\* again in the meantime is closed with it.
Succeeds(s) ==
    /\ calls[s] # None /\ calls[s].phase = "done"
    /\ calls' = [calls EXCEPT ![s] = None]
    /\ LET c == calls[s] IN
       /\ showCreate' = IF c.op = "create" THEN "closed" ELSE showCreate
    /\ Ask
    /\ UNCHANGED <<keys, list, crowded>>

\* Refused (a key that is not active, no room, an error), or the answer is lost:
\* the list is not asked for.
Fails(s) ==
    /\ calls[s] # None
    /\ calls' = [calls EXCEPT ![s] = None]
    /\ Settled(s)
    /\ unheard' = (unheard \/ calls[s].phase = "done")
    /\ UNCHANGED <<keys, list, loads, fresh, crowded>>

Next ==
    \/ \E i \in DOMAIN loads : ListKeys(i) \/ ListArrives(i) \/ ListFails(i)
    \/ OpenCreate \/ CloseCreate \/ submit
    \/ \E k \in Keys, op \in {"rotate", "revoke"} : Row(op, k)
    \/ \E s \in Slots :
          \/ keyRoom(s) \/ CreateKey(s) \/ RotateKey(s) \/ RevokeKey(s)
          \/ Succeeds(s) \/ Fails(s)

Spec == Init /\ [][Next]_vars

--------------------------------------------------------------------------

\* Every variable has its type.
TypeOK ==
    /\ keys \in Lists
    /\ list \in Lists \cup {None}
    /\ loads \in Seq(Loads) /\ Len(loads) <= MaxLoads
    /\ calls \in [Slots -> Calls \cup {None}]
    /\ showCreate \in {"closed", "open"} \cup Slots
    /\ {fresh, unheard, crowded} \subseteq BOOLEAN

\* The limit of the active keys (handlers_keys.go:176) is passed only when two
\* calls were counted before either of them had made its key.
KeysBounded == ~crowded => Cardinality(Active(keys)) <= MaxActive

\* However the lists overtake each other, a page at rest that shows the one it
\* asked for last shows the keys there are, unless a call was carried out whose
\* answer was lost.
ListRight ==
    (\A s \in Slots : calls[s] = None) /\ loads = <<>> /\ fresh /\ ~unheard
        => list = keys
=============================================================================
