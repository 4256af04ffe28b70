SPECIFICATION Spec
CONSTANTS
    a = a
    w = w
    g = g
    l = l
    Co = {a, w, g, l}
    Main = Main
    Kind <- Bodies
    Wrapped <- Wrappers
    Ways <- CallWays
    Nesting = {Main, a}
    MaxCalls = 5
    MaxDepth = 3
    Limit = 2
INVARIANT ProtectedCallReturns
CHECK_DEADLOCK FALSE
