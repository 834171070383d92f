------------------------------ MODULE MCResolver -----------------------------
(***************************************************************************)
(* Small instances of Resolver: two callers, two keys, room for two entries.*)
(***************************************************************************)
EXTENDS Resolver, TLC

CONSTANTS c1, c2, k1, k2, free, paid

MCCallers == {c1, c2}
MCSecrets == {k1, k2}
MCAccountStates == {free, paid}
MCSymmetry == Permutations(MCCallers) \cup Permutations(MCSecrets)
                  \cup Permutations(MCAccountStates)
=============================================================================
