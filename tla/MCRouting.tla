----------------------------- MODULE MCRouting -----------------------------
(***************************************************************************)
(* Routing on small instances.  Chain: one handler and three models with a *)
(* deployment each, whose fallback lists overlap.  Loop: the default       *)
(* fallback is the requested model and the identity may not use it.  Busy: *)
(* streams and plain requests of two handlers on one model with a limit on *)
(* parallel requests.                                                      *)
(***************************************************************************)
EXTENDS Routing, TLC

CONSTANTS a, b, c, d1, d2, d3, MaxLosses

OneEach == a :> {d1} @@ b :> {d2} @@ c :> {d3}
OneModel == a :> {d1, d2}
Chain == a :> <<b, c>> @@ b :> <<c>> @@ c :> <<>>
ContextChain == a :> <<c>> @@ b :> <<c, a>> @@ c :> <<>>
FallBackToB == a :> <<b>> @@ b :> <<>> @@ c :> <<>>
NoFallbacks == [m \in Models |-> <<>>]

VARIABLE losses

MCInit == Init /\ losses = 0

\* MaxLosses bounds what is lost in a behaviour: crashes of the process,
\* disconnected streams and commands of Redis that raise.
MCNext ==
    \/ Run /\ UNCHANGED losses
    \/ Lose /\ losses < MaxLosses /\ losses' = losses + 1

MCSpec == MCInit /\ [][MCNext]_<<vars, losses>>

\* Handlers alone are fair; nothing makes a cooldown end or a key expire.
MCFairSpec == MCSpec /\ \A r \in Requests : WF_vars(Handle(r) /\ UNCHANGED losses)

Symmetric == Permutations(Requests) \union Permutations({d1, d2})
=============================================================================
