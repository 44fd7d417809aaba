SPECIFICATION Spec
CONSTANTS
    MaxActs = 4
    a = a
    b = b
    Admins = {a, b}
    admin = admin
    user = user
    other = other
    Users = {admin, user, other}
    ApiKeys <- MCApiKeys
    Outer <- MCOuter
SYMMETRY MCSymmetry
CHECK_DEADLOCK FALSE
INVARIANTS FileFollowsRuntime KeepsApiKey
PROPERTIES RestartKeepsSettings DeletedKeyIsOut
