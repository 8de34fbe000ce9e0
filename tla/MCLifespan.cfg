SPECIFICATION ServiceSpec
CONSTANTS
    q1 = q1
    q2 = q2
    q3 = q3
    i1 = i1
    i2 = i2
    ann = ann
    None = None
    Main = Main
    Keep = Keep
    Admin = Admin
    Requests = {q1, q2, q3}
    People = {ann}
    Ids = {i1, i2}
    Times = {2, 3, 4}
    DayLength = 2
    Days = {0, 1, 2, 3}
SYMMETRY Symmetry
INVARIANTS
    MembersUnique
    MembersKnown
    AnnouncedIsStored
    ListedOnItsDays
    UsesHaveSubject
    SubjectToldTrue
    ClientsAccounted
PROPERTY
    RegisterSpec
