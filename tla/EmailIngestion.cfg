CONSTANTS
    good = good
    forwarded = forwarded
    forged = forged
    Emails = {good, forwarded, forged}
    Failed <- ThreeFailed
    ArcValid = {forwarded, forged}
    MaxAttempts = 3
    MaxFaults = 4
SPECIFICATION Spec
CHECK_DEADLOCK FALSE
INVARIANTS
    RowsTrusted
    NoSilentLoss
