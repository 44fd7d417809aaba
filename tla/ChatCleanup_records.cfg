\* Modes 1 and 2, both kinds of tracker, two chats of an account and one of the guest.
SPECIFICATION CleanupSpec
CONSTANTS
    a = a
    c1 = c1
    c2 = c2
    g = g
    Guest = Guest
    None = None
    Chats = {c1, c2, g}
    Order <- MCOrderGuest
    RealAccounts = {a}
    Owner <- MCOwnerGuest
    Modes = {1, 2}
    Redis = {TRUE, FALSE}
    PageSize = 1
INVARIANTS
    CleanupTypeOK
PROPERTIES
    ForgetsOnlyGone
