\* Two requests at once, a real account or the guest, two hashes, two chats.
SPECIFICATION Spec
CONSTANTS
    Emails = {a}
    Guest = Guest
    None = None
    Requests = {r, s}
    Hashes = {h, g}
    NoHash = NoHash
    Chats = {c, d}
    NoSession = NoSession
SYMMETRY MCSymmetry
INVARIANTS
    OwnChat
    TailNeedsHistory
PROPERTY RealSavesAnswer
