\* Both stores on the file, with crashes and failed writes.
SPECIFICATION Spec
CONSTANTS
    Accounts = {a, b}
    Sessions = {h, g}
    Missing = Missing
    Empty = Empty
    Garbled = Garbled
    MaxFaults = 2
SYMMETRY MCSymmetry
INVARIANTS
    TypeOK
    SequentialCallsKeep
