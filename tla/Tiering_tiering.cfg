SPECIFICATION Spec
CONSTANTS
    f = f
    g = g
    Protos = {f, g}
    Roots = {f}
    Loops = {f}
    Calls <- CallsG
    Direct = {f, g}
    Replay = {}
    Rejects = {g}
    Assumes = {g}
    Name <- Declared
    Tier1 = Tier1
    MaxBodies = 3
    MaxFeedback = 1
    MaxEpoch = 1
    MaxDepth = 2
INVARIANT TypeOK
INVARIANT DependentsExact
INVARIANT CachedEntryIsLoaded
INVARIANT EntryOfPublished
PROPERTY EnteredCodeIsValid
PROPERTY ResumesInItsBody
CHECK_DEADLOCK FALSE
