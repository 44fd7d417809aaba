\* An image or a video, beside an upload of up to two files.
SPECIFICATION Spec
CONSTANTS
    Emails = {a, b}
    Guest = Guest
    None = None
    Requests = {r, q}
    Uploads = {q}
    Files = 2
    Looks = 5
CHECK_DEADLOCK FALSE
INVARIANTS PaysTwiceOnlyIfResent GivesUpOnlyLate
PROPERTIES RequestsReturn
