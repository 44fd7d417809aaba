\* Two dialogues without a system message, over two chats.
SPECIFICATION Spec
CONSTANTS
    d = d
    e = e
    Dialogues = {d, e}
    Words = {question, result}
    Tools = {result}
    Answers = {reply, start}
    Cut = {start}
    System = {prompt}
    Preamble <- MCPlain
    Chats = {c1, c2}
    NoChat = NoChat
    NoAnswer = NoAnswer
    MaxLength = 4
    MaxContent = 5
SYMMETRY MCSymmetry
VIEW MCView
INVARIANTS
    TypeOK
    LinearChatsAgree
    MappingIsHistory
