------------------------------ MODULE MCBudget ------------------------------
(***************************************************************************)
(* Budget on a small instance: two keys of one user, one in a team, the    *)
(* other in an org.                                                        *)
(***************************************************************************)
EXTENDS Budget, TLC

CONSTANTS
    k1, k2,        \* the keys
    MaxCharged,    \* bound: cost charged in a behaviour, over all keys
    MaxSettings    \* bound: limit changes and resets in a behaviour

MCAccountOf ==
    k1 :> <<"vk1", "user", "team", NoAccount>> @@ k2 :> <<"vk2", "user", NoAccount, "org">>

VARIABLE settings

\* Each administrative step counts against MaxSettings.
Setting == limit' # limit \/ (\E a \in Accounts : spend'[a] < spend[a]) \/ flushed' # flushed

\* A batch of reset_all_spend is one counter, or all there are.
SmallBatch ==
    LET reset == {a \in Accounts : spend'[a] < spend[a]}
    IN  Cardinality(reset) = 1 \/ \A a \in Accounts : spend'[a] = 0

\* At most one level carries a limit, of no unit, to begin with; a second one
\* may be set later.
MCInit ==
    /\ Init
    /\ \A a \in Accounts : limit[a] \in {0, NoLimit}
    /\ Cardinality({a \in Accounts : limit[a] # NoLimit}) <= 1
    /\ settings = 0

MCNext ==
    /\ Next
    /\ billed'[k1] + billed'[k2] <= MaxCharged
    /\ settings' = settings + (IF Setting THEN 1 ELSE 0)
    /\ settings' <= MaxSettings
    /\ flushed' => flushed \/ SmallBatch

MCSpec == MCInit /\ [][MCNext]_<<vars, settings>>

Symmetric == Permutations(Requests)
=============================================================================
