SPECIFICATION PollSpec
CONSTANTS
    Hosts = {h1, h2}
    Insts = {i1}
    Texts = {a, b, err}
    BadSyntax = {}
    BadRun = {err}
    NoFile = NoFile
    Nobody = Nobody
    NoInst = NoInst
    Ops = {"LoadInstance", "Reload", "ReloadIfChanged", "Call"}
    Cancellable = TRUE
    MaxRev = 2
    MaxGen = 2
INVARIANT AppliedMatchesVM
INVARIANT VMExclusive
INVARIANT RunnableState
PROPERTY EveryCallReturns
PROPERTY InstanceConverges
CHECK_DEADLOCK FALSE
