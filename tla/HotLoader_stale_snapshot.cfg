SPECIFICATION PollSpec
CONSTANTS
    Hosts = {h1, h2}
    Insts = {i1}
    Texts = {a, b}
    BadSyntax = {}
    BadRun = {}
    NoFile = NoFile
    Nobody = Nobody
    NoInst = NoInst
    Ops = {"LoadInstance", "LoadIfChanged", "ReloadIfChanged"}
    Cancellable = FALSE
    MaxRev = 2
    MaxGen = 2
PROPERTY InstanceConverges
CHECK_DEADLOCK FALSE
