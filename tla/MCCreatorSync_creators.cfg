SPECIFICATION Spec
CONSTANTS
    seed = seed
    child = child
    rare = rare
    Partition = {seed, child, rare}
    Run = {r1, r2}
    LastPage <- MCLastPage
    Parent <- MCParent
    Primary = {seed}
    Rare = {rare}
    BusinessMax = 1
    MaxFaults = 2
    MaxCommands = 2
    None = None
SYMMETRY RunSymmetry
CHECK_DEADLOCK FALSE
INVARIANTS TypeOK NothingSkipped CountsAgree OneRowPerCreator StagedPageBlocks NoneStranded
