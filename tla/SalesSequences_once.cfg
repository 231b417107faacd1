CONSTANTS
    Enrollments = {e1, e2}
    Records = {r1, r2}
    NoRecord = NoRecord
    StepCount = 2
    Procs = {p1, p2}
SPECIFICATION Spec
INVARIANT EnrolledOnce
CHECK_DEADLOCK FALSE
