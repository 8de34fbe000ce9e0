SPECIFICATION Spec
CONSTANTS
    math = math
    hall = hall
    None = None
    Numbers = {1, 2}
    Subjects = {math}
    Times = {1, 2, 3}
    Rooms = {hall}
INVARIANTS
    MergedAsDefined
    LessonsTimely
CHECK_DEADLOCK FALSE
