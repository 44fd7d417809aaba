\* Two callers of every kind, one of which also asks for chat completions.
SPECIFICATION Spec
CONSTANTS
    c1 = c1
    c2 = c2
    Callers = {c1, c2}
    Readers = {c1}
    NoOne = NoOne
    MaxLists = 2
    MaxEvents = 4
INVARIANTS
    NoStampede
    RetryIsFresh
    RefreshIsCurrent
    FirstEventDecides
PROPERTY CallsEnd
