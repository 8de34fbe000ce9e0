SPECIFICATION FairSpec
CONSTANTS
    u1 = u1
    u2 = u2
    x1 = x1
    d1 = d1
    d2 = d2
    Uploads = {u1, u2}
    Removals = {x1}
    Deletions = {d1, d2}
    MaxFailures = 1
INVARIANTS
    NoDangling
    RowsHaveHomework
    ObjectsAccounted
PROPERTY
    EventuallyClean
