\* two drains that take over from each other, two governance requests in turn
SPECIFICATION FairSpec
CONSTANTS
    Conversations = {c1}
    Drains = {d1, d2}
    Editors = {e1}
    MaxEdits = 2
    MaxAttempts = 2
    Events = 1
    None = None
    c1 = c1
    d1 = d1
    d2 = d2
    e1 = e1
INVARIANTS RemovedStaysRemoved ConversationsAreKept
PROPERTY EventsEnd
CHECK_DEADLOCK FALSE
