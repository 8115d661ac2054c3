SPECIFICATION Spec
CONSTANTS
    None = None
    Requests = {q1, q2}
    RequestLife = 1
    MaxTime = 4
    Loans = {"l1", "l2"}
    Intents = {k1}
    Imported <- Legacy
    Emails = {e1}
    Drafts <- Forms
    UPLOAD_EXPIRY = 1
    DOWNLOAD_EXPIRY = 1
    Window = 3
    MaxId = 4
    Instances = {i1, i2}
    Sessions = {s1}
    CACHE_TTL = 1
    SESSION_LIFE = 4
SYMMETRY Symmetry
INVARIANT RowHasBytes
INVARIANT PhotosInOrder
INVARIANT RemovedBecomesUnreachable
INVARIANT RevocationTakesEffect
CHECK_DEADLOCK FALSE
