SPECIFICATION Spec
CONSTANTS
    r1 = r1
    r2 = r2
    w1 = w1
    None = None
    Readers = {r1, r2}
    Writers = {w1}
    Days = 2
    TTL = 1
    Slow = 1
    MaxWrites = 1
SYMMETRY Symmetry
CONSTRAINT Recent
INVARIANTS
    DayStaleness
    WeekStaleness
    FreshUnlessRaced
CHECK_DEADLOCK FALSE
