SPECIFICATION TokenSpec
CONSTANTS
    Callers = {c1, c2}
    Nobody = Nobody
    MaxAuths = 1
    MaxRotations = 2
    MaxFaults = 1
INVARIANTS TokenTypeOK KeptTokenIsLive LeaseIsKept
PROPERTIES RotationsFollowOn InProgressEnds
