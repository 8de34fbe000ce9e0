SPECIFICATION Spec
CONSTANTS
    q1 = q1
    q2 = q2
    q3 = q3
    q4 = q4
    i1 = i1
    i2 = i2
    math = math
    hall = hall
    None = None
    Keep = Keep
    Requests = {q1, q2, q3}
    Ids = {i1, i2}
    Numbers = {1}
    Subjects = {math}
    Times = {1, 2, 3}
    Rooms = {}
    Creates <- DayCreates
    Patches <- DayPatches
SYMMETRY Symmetry
INVARIANTS
    OverridesValid
CHECK_DEADLOCK FALSE
