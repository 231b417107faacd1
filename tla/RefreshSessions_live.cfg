SPECIFICATION FairSpec
CONSTANTS
    Tokens = {t1, t2}
    Users = {u1}
    Procs = {p1, p2}
    NoToken = NoToken
    NoUser = NoUser
    NoProc = NoProc
PROPERTIES RequestsEnd
