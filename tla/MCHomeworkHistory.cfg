SPECIFICATION FairSpecWithHistory
CONSTANTS
    q1 = q1
    q2 = q2
    q3 = q3
    m1 = m1
    read = read
    write = write
    Requests = {q1, q2, q3}
    Members = {m1}
    Texts = {read, write}
    Dates = {1, 2}
    Unset = Unset
INVARIANTS
    ChildrenHaveParent
    TextsExplained
    EventsFollowLife
    NobodyStuck
    HistoryIsChain
PROPERTIES
    LifeSpec
    RequestsEnd
