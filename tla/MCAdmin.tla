------------------------------ MODULE MCAdmin ------------------------------
(***************************************************************************)
(* Administration on small instances: two admins, whichever record they    *)
(* work on.                                                                *)
(***************************************************************************)
EXTENDS Administration, TLC

Interchangeable ==
    Permutations(Requests) \union Permutations(Admins) \union Permutations(Hashes)
        \union Permutations(Keys) \union Permutations(Users) \union Permutations(Roles)
=============================================================================
