SPECIFICATION Spec
CONSTANTS
    a = a
    b = b
    c = c
    Main = Main
    Timer = Timer
    Tasks = {a, b, c}
    NoTask = NoTask
    Parent <- Nested
    Plain = {c}
    Engine = "bytecode"
    Max = 2
    CanCancel = TRUE
    Deadline = TRUE
    MaxWaits = 2
INVARIANT GoroutineLimit
CHECK_DEADLOCK FALSE
