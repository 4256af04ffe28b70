SPECIFICATION FairSpec
CONSTANTS
    a = a
    b = b
    c = c
    Main = Main
    Timer = Timer
    Tasks = {a, b, c}
    NoTask = NoTask
    Parent <- Nested
    Plain = {c}
    Engine = "tree"
    Max = 2
    CanCancel = TRUE
    Deadline = TRUE
    MaxWaits = 2
INVARIANT TypeOK
INVARIANT FailureCancelled
INVARIANT DoneHasReason
INVARIANT BudgetExact
INVARIANT GoroutineLimit
INVARIANT NoPanic
PROPERTY WaitReportsAll
PROPERTY ReasonIsFinal
PROPERTY FailureEndsWait
CHECK_DEADLOCK FALSE
