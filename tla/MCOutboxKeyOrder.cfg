SPECIFICATION Spec
CONSTANTS
    e1 = e1
    e2 = e2
    e3 = e3
    lesson = lesson
    homework = homework
    r1 = r1
    r2 = r2
    Events = {e1, e2}
    Aggregates = {lesson, homework}
    AggregateOf <- MCAggregateOf
    Relays = {r1}
    BatchSize = 2
    MaxAttempts = 2
    RetryBase = 1
    RetryMax = 1
    Retention = 1
    MaxFailures = 0
    MaxStops = 0
INVARIANT
    KeyOrder
