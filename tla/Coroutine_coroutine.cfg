SPECIFICATION Spec
CONSTANTS
    a = a
    w = w
    g = g
    l = l
    Co = {a, w, g, l}
    Main = Main
    Kind <- Bodies
    Wrapped <- Wrappers
    Ways <- CallWays
    Nesting = {Main}
    MaxCalls = 5
    MaxDepth = 3
    Limit = 1
INVARIANT TypeOK
INVARIANT RunningIsOnStack
INVARIANT SuspendedCanContinue
INVARIANT ProtectedCallReturns
PROPERTY ImplementsCoroutineSpec
CHECK_DEADLOCK FALSE
