SPECIFICATION MobileSpec
CONSTANTS
    Process = {p1, p2}
    Request = {r1, r2}
    MaxOtpAttempts = 2
    MaxCodes = 1
    MaxTimeouts = 1
    MaxFaults = 1
    MaxTries = 2
    MaxTroubles = 1
SYMMETRY Symmetry
INVARIANT
    SingleUse
