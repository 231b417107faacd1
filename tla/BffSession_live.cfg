CONSTANTS
    Tokens = {t1, t2}
    NoToken = NoToken
    Slots = {s1, s2}
    NoSlot = NoSlot
    Sends = {"api", "login", "logout"}
SPECIFICATION FairSpec
PROPERTY RequestsAnswered
CHECK_DEADLOCK FALSE
