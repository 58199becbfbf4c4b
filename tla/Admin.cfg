SPECIFICATION AdminSpec
CONSTANTS
    Keys = {k1, k2}
    Hashes = {h1, h2, h3}
    Requests = {r1}
    Admins = {a1, a2}
    Operations = {"generate", "generate_expiring", "block", "unblock", "delete", "rotate", "update"}
    Users = {u1, u2}
    Roles = {owner, member}
    Limits = {limit}
    None = None
SYMMETRY Interchangeable
INVARIANTS
    TypeOK
    BlockHolds
    PermanentRemoval
    OneLastingKey
    MembersAsAsked
    DeletedTeamStaysAway
