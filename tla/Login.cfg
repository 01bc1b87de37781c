\* One address, a known name and an overlong one, three requests at once.
SPECIFICATION LoginSpec
CONSTANTS
    None = None
    Addresses = {a1}
    Names = {ann, long}
    LongNames = {long}
    Admins = {ann}
    Requests = {r1, r2, r3}
    Tokens = {t1}
    maxLoginFailures = 2
    maxIPLoginFailures = 3
    loginLockout = 2
    loginFailWindow = 3
    sessionTTL = 1
SYMMETRY Symmetry
INVARIANTS
    LimitsHold
    HonestNeverLocked
