--------------------------- MODULE MCVirtualKeys ---------------------------
(***************************************************************************)
(* VirtualKeys on small instances: two admins and their requests.          *)
(***************************************************************************)
EXTENDS VirtualKeys, TLC

Symmetric ==
    Permutations(Requests) \union Permutations(Admins)
        \union Permutations(Hashes) \union Permutations(Keys)
=============================================================================
