\* Every answer of three parts, cut and broken off everywhere.
SPECIFICATION Spec
CONSTANTS
    x = x
    y = y
    k = k
    l = l
    MaxPieces = 9
    Calls = {k, l}
    Apis = {"openai", "anthropic"}
    Answers <- MCAnswers
    Thought = thought
    Nil = nil
INVARIANTS
    TypeOK
    AgreesWithWhole
    NothingTakenBack
    NothingInvented
    BlocksNest
    IndexNamesOneCall
CHECK_DEADLOCK FALSE
