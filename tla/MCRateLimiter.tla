--------------------------- MODULE MCRateLimiter ---------------------------
(***************************************************************************)
(* RateLimiter on small chains.                                            *)
(***************************************************************************)
EXTENDS RateLimiter, TLC

CONSTANTS r1, r2, r3

\* Two requests of one key, with limits of every kind and a team limit that is
\* not set, and one of another key of the same user, in an org without a limit.
KeyChain == <<"key_rpm", "key_tpm", "user_rpm", "team_rpm", "daily">>
RateChain == r1 :> KeyChain @@ r2 :> KeyChain @@ r3 :> <<"user_rpm", "org_rpm">>
RateKind == [d \in {"key_rpm", "user_rpm", "team_rpm", "org_rpm"} |-> "window"]
              @@ "key_tpm" :> "tokens" @@ "daily" :> "quota"
RateLimit == "key_rpm" :> 2 @@ "key_tpm" :> 3 @@ "user_rpm" :> 2 @@ "team_rpm" :> 0
              @@ "org_rpm" :> Blank @@ "daily" :> 1

Symmetric == Permutations({r1, r2})
=============================================================================
