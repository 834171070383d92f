------------------------------- MODULE MCMeter -------------------------------
(***************************************************************************)
(* Small instances of Meter: three requests with two keys of one account.  *)
(***************************************************************************)
EXTENDS Meter, TLC

CONSTANTS r1, r2, r3, k1, k2, a1

MCRequests == {r1, r2, r3}
MCKeys == {k1, k2}
MCAccounts == {a1}
MCKeyOf == [r \in MCRequests |-> IF r = r3 THEN k2 ELSE k1]
MCAccountOf == [k \in MCKeys |-> a1]

\* The smaller instance of the liveness run.
MCRequests2 == {r1, r3}
MCKeyOf2 == [r \in MCRequests2 |-> IF r = r3 THEN k2 ELSE k1]

\* r1 and r2 are made with the same key, so they are interchangeable.
MCSymmetry == Permutations({r1, r2})
=============================================================================
