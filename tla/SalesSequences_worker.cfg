CONSTANTS
    Enrollments = {e1, e2}
    Records = {r1, r2}
    NoRecord = NoRecord
    StepCount = 3
    Procs = {p1, p2}
SPECIFICATION FairSpec
INVARIANTS
    TypeOK
    StepsOnceInOrder
PROPERTY EnrollmentsEnd
CHECK_DEADLOCK FALSE
