SPECIFICATION FairSpec
CONSTANTS
    a = a
    b = b
    c = c
    f = f
    g = g
    h = h
    Item <- MCItem
    Id <- MCId
    Rank <- MCRank
    FollowUp <- MCFollowUp
    Target = 2
    MaxExpansion = 2
    Deps <- MCDeps
    Paths <- MCPaths
    None = None
INVARIANTS NoIdleSlot EveryItemAnswered StallsOnlyOnFailure
PROPERTIES ImplementsWorkPool Returns
