CONSTANTS
    Tokens = {t1, t2, t3}
    NoToken = NoToken
    Slots = {s1, s2}
    NoSlot = NoSlot
    Sends = {"api", "mfa", "refresh", "login", "logout"}
SPECIFICATION Spec
SYMMETRY Symmetry
INVARIANTS
    TypeOK
    SingleFlight
    OutageSignsNobodyOut
    LogoutClosesFamily
    SequentialCookieIsCurrent
PROPERTIES
    SignsOutEndedSessions
CHECK_DEADLOCK FALSE
