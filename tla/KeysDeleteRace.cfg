SPECIFICATION Spec
CONSTANTS
    Keys = {k1}
    Hashes = {h1, h2, h3}
    Requests = {r1, r2}
    Admins = {a1, a2}
    Operations = {"generate", "delete", "rotate"}
    None = None
SYMMETRY Symmetric
CHECK_DEADLOCK FALSE
INVARIANTS
    DeletedForGood
