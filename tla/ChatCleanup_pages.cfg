\* Modes 1 and 2, switched at any time, over the pages of one account.
SPECIFICATION CleanupSpec
CONSTANTS
    a = a
    c1 = c1
    c2 = c2
    g = g
    Guest = Guest
    None = None
    Chats = {c1, c2}
    Order <- MCOrder
    RealAccounts = {a}
    Owner <- MCOwner
    Modes = {1, 2}
    Redis = {FALSE}
    PageSize = 1
PROPERTIES
    EventuallyCleaned
    EventuallyDeleted
