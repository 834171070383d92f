-------------------------------- MODULE Ledger --------------------------------
(***************************************************************************)
(* What the usage meter promises to the bill, without flushes, counters    *)
(* and phases: a request is noted once; what is owed is added to the table *)
(* once, and then no longer owed; it stays owed only if the addition is in *)
(* doubt; and it is forgotten only with a process that does not end well.  *)
(***************************************************************************)
EXTENDS Integers

CONSTANT Requests

VARIABLES
    noted,    \* requests whose usage was recorded
    owed,     \* those that memory still has to add to the table
    table,    \* table[r]: how often the unit of r was added
    doubts,   \* additions that took effect and were reported as failed
    exit      \* how the process ended, "none" while it lives

vars == <<noted, owed, table, doubts, exit>>

Init ==
    /\ noted = {}
    /\ owed = {}
    /\ table = [r \in Requests |-> 0]
    /\ doubts = 0
    /\ exit = "none"

Added(S) == [r \in Requests |-> IF r \in S THEN table[r] + 1 ELSE table[r]]

Note(r) ==
    /\ exit = "none"
    /\ r \notin noted
    /\ noted' = noted \cup {r}
    /\ owed' = owed \cup {r}
    /\ UNCHANGED <<table, doubts, exit>>

Settle(S) ==
    /\ exit = "none"
    /\ table' = Added(S)
    /\ owed' = owed \ S
    /\ UNCHANGED <<noted, doubts, exit>>

\* It stays owed, or is forgotten by a process that gives up over it.
Doubt(S) ==
    /\ exit = "none"
    /\ table' = Added(S)
    /\ doubts' = doubts + 1
    /\ \/ owed' = owed /\ exit' = "none"
       \/ owed' = {} /\ exit' = "failed"
    /\ UNCHANGED noted

EndClean ==
    /\ exit = "none"
    /\ owed = {}
    /\ exit' = "clean"
    /\ UNCHANGED <<noted, owed, table, doubts>>

EndFailed ==
    /\ exit = "none"
    /\ exit' = "failed"
    /\ owed' = {}
    /\ UNCHANGED <<noted, table, doubts>>

Start ==
    /\ exit # "none"
    /\ exit' = "none"
    /\ UNCHANGED <<noted, owed, table, doubts>>

Next ==
    \/ \E r \in Requests : Note(r)
    \/ \E S \in SUBSET owed : Settle(S) \/ Doubt(S)
    \/ EndClean
    \/ EndFailed
    \/ Start

Spec == Init /\ [][Next]_vars
=============================================================================
