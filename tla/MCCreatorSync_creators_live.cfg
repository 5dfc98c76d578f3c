SPECIFICATION FairSpec
CONSTANTS
    seed = seed
    child = child
    rare = rare
    Partition = {seed, child}
    Run = {r1, r2}
    LastPage <- MCLastPage
    Parent <- MCParent
    Primary = {seed}
    Rare = {}
    BusinessMax = 2
    MaxFaults = 1
    MaxCommands = 2
    None = None
CHECK_DEADLOCK FALSE
PROPERTIES CrawlEnds StagedCommits
