SPECIFICATION Spec
CONSTANTS
    c1 = c1
    c2 = c2
    r1 = r1
    r2 = r2
    k1 = k1
    k2 = k2
    w1 = w1
    w2 = w2
    None = None
    Campaign = {c1}
    Recipient = {r1,r2}
    Creator = {k1,k2}
    Worker = {w1, w2}
    Operator = {o1}
    CampaignOf <- PairCampaignOf
    CreatorOf <- PairCreatorOf
    Commands = {}
    MaxAttempts = 1
    ReconcileAttempts = 2
    MaxFaults = 1
    LockLoss = FALSE
SYMMETRY PairSymmetry
INVARIANTS CompletionIsTruthful EndedIsBeingCompleted
CHECK_DEADLOCK FALSE
