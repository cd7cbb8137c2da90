SPECIFICATION AuthSpec
CONSTANTS
    h1 = h1
    h2 = h2
    p1 = p1
    p2 = p2
    none = none
    Handlers = {h1, h2}
    Passwords = {p1, p2}
    NoPassword = none
    FilePassword = p1
    MaxSecrets = 3
    Limit = 1
    HalfLock = 1
    LockTime = 2
SYMMETRY Symmetry
INVARIANTS
    SessionsRevoked
    PasswordDurable
    GuessesBounded
