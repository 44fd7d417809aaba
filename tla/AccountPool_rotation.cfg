\* Rotation, cool-down and administration; one request at a time,
\* and two spellings of one address.
SPECIFICATION Spec
CONSTANTS
    a = a
    A = A
    b = b
    Guest = Guest
    None = None
    Emails = {a, A, b}
    Mailbox <- MCMailbox
    Adders = {}
    Requests = {r}
    Modes = {"env"}
    MaxFailures = 2
    MaxNamed = 1
    MaxRestarts = 0
PROPERTIES
    HandsOutRested
    LeastRecentServes
    ImplementsRotation
