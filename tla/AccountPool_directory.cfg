\* Start-up, administration and crashes; no request is running.
SPECIFICATION Spec
CONSTANTS
    a = a
    A = A
    b = b
    Guest = Guest
    None = None
    Emails = {a, b}
    Mailbox <- MCMailbox
    Adders = {p1, p2}
    Requests = {}
    Modes = {"file", "redis", "env"}
    MaxFailures = 2
    MaxNamed = 2
    MaxRestarts = 1
INVARIANTS
    TypeOK
    GuestFallback
    StoreAgrees
PROPERTIES
    StaysDistinct
