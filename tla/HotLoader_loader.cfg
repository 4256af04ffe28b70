SPECIFICATION PollSpec
CONSTANTS
    Hosts = {h1, h2}
    Insts = {i1}
    Texts = {a, b, bad}
    BadSyntax = {bad}
    BadRun = {}
    NoFile = NoFile
    Nobody = Nobody
    NoInst = NoInst
    Ops = {"Load", "LoadIfChanged"}
    Cancellable = TRUE
    MaxRev = 4
    MaxGen = 3
INVARIANT TypeOK
PROPERTY GenerationAdvances
PROPERTY PublishedInReadOrder
PROPERTY LoaderConverges
CHECK_DEADLOCK FALSE
