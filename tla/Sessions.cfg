\* Sessions
SPECIFICATION Spec
CONSTANTS
    s1 = s1
    s2 = s2
    p1 = p1
    Session = {s1, s2}
    Thread = {t1, t2}
    Nobody = Nobody
    Profile = {p1}
    ProfileOf <- MCProfileOf
INVARIANTS
    SessionsApart
PROPERTIES
    ExpiresIdle LockComesFree
CHECK_DEADLOCK FALSE
