-------------------------- MODULE MCResponseCache --------------------------
(***************************************************************************)
(* ResponseCache on a small instance: two keys of one model in Redis, a    *)
(* third one in a memory store of two, MaxTime units of time.              *)
(***************************************************************************)
EXTENDS ResponseCache, TLC

CONSTANTS k1, k2, k3, MaxTime

MCModelOf == [k \in Keys |-> IF k = k3 THEN "n" ELSE "m"]
MCTtlOf == [m \in Models |-> 2]

\* Redis holds the two keys of one model, the memory store all three.
MCNext ==
    /\ Next
    /\ now' <= MaxTime
    /\ \A w \in Handlers : set'[w].key # k3

MCSpec == Init /\ [][MCNext]_vars

Symmetric == Permutations(Handlers) \union Permutations({k1, k2})
=============================================================================
