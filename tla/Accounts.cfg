CONSTANTS
    Usernames = {alice}
    Passwords = {old, new}
    Requests = {r1, r2}
    Null = Null
    LOGIN_MAX_FAILS = 2
    LOCKOUT = 2
    JWT_TTL = 3
    MaxClock = 3
SYMMETRY Symmetry
SPECIFICATION Spec
INVARIANTS
    GuessesBounded
    OnRecord
PROPERTY
    SignedOutUnlessMovedBack
