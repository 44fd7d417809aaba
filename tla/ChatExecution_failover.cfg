\* One request at a time over two real accounts or the guest.
SPECIFICATION Spec
CONSTANTS
    Emails = {a, b}
    Guest = Guest
    None = None
    Requests = {r}
    Hashes = {h}
    NoHash = NoHash
    Chats = {c}
    NoSession = NoSession
INVARIANT TypeOK
PROPERTIES
    TriesEveryone
    RequestsEnd
