SPECIFICATION MCSpec
CHECK_DEADLOCK FALSE
CONSTANTS
    Dials = {1, 2, 3, 4, 5}
    Config <- MCConfig
    Registry = {1, 2}
    Local = {9}
    FirstGroup = 1
    MaxHandshakes = 3
    HalfOpenLimit = 3
    HalfOpenPerSource = 2
    WithoutCookie = 1
    CookieThreshold = 3
    CookieLifetime = 1
    MaxClock = 3
    InstallFails = TRUE
    Senders = {"mesh", "babel"}
    Counts = {1, 2}
    SAs = {1, 2}
    MaxSeq = 4
    Mark = 3
    Failures = 1
INVARIANTS HandshakesAgree SuitesAgree Registered Agreed NumbersOnce
PROPERTIES CookieHonoured NoBlackhole
