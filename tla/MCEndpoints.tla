---------------------------- MODULE MCEndpoints ----------------------------
(* Three keys: one with every guardrail and one that redacts, both of one   *)
(* team, and one without a policy and without a team.  A request may name   *)
(* the space of the first key or that of the team.                          *)
EXTENDS Endpoints, TLC

PolicyOfThree == "strict" :> "strict" @@ "redact" :> "pii_redact" @@ "open" :> ""
TeamOfThree == "strict" :> "team" @@ "redact" :> "team" @@ "open" :> ""
Named == {Global, <<"key", "strict">>, <<"team", "team">>}
=============================================================================
