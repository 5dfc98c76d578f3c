SPECIFICATION Spec
CONSTANTS
    c1 = c1
    c2 = c2
    r1 = r1
    r2 = r2
    k1 = k1
    k2 = k2
    w1 = w1
    w2 = w2
    None = None
    Campaign = {c1}
    Recipient = {r1}
    Creator = {k1}
    Worker = {w1, w2}
    Operator = {o1}
    CampaignOf <- SingleCampaignOf
    CreatorOf <- SingleCreatorOf
    Commands = {"pause", "resume", "cancel"}
    MaxAttempts = 2
    ReconcileAttempts = 1
    MaxFaults = 1
    LockLoss = TRUE
SYMMETRY WorkerSymmetry
INVARIANTS AtMostOneMessage RecordedAsHappened
CHECK_DEADLOCK FALSE
